---------------------------- MODULE TestRunPages ----------------------------
(***************************************************************************)
(* Starting a test run and following it in one browser tab: the form of    *)
(* the "new" page, and the run's page, which the server renders from three *)
(* reads and the status panel keeps up to date by a realtime subscription, *)
(* a throttle and router.refresh().  The router of the tab carries out one *)
(* navigation, refresh or server action at a time.  The worker and the     *)
(* cancel action write the run's row by its id, on a reading of their own  *)
(* that may be stale by then.                                              *)
(***************************************************************************)
EXTENDS TestRunStatus, Naturals, Sequences

CONSTANTS
    Projects, EnvironmentIds, None,
    Delay,         \* REFRESH_THROTTLE_MS, in ticks
    MaxBatches,    \* bound on executions that write results
    MaxUpdates,    \* bound on the updates of the run's row, the last for a cancel
    MaxMishaps     \* bound on failed calls, dead attempts and broken connections

ASSUME ConstantsAssumption ==
    /\ Delay \in Nat \ {0}
    /\ MaxBatches \in Nat /\ MaxMishaps \in Nat
    /\ MaxUpdates \in Nat \ {0}

VARIABLES
    form,       \* the new page's form
    row,        \* the run's row, with its results and their artifacts
    worker,     \* where the attempt at the run is, and the status it last read
    shown,      \* what the run's page shows of them
    queue,      \* the router's actions, the one it is at first
    call,       \* how far the first one is, and what it has read
    channel,    \* the panel's subscription
    inbox,      \* updates on their way to it
    throttle,   \* createThrottledRefresh, and the ticks since it last refreshed
    isCancelling,
    unseen,     \* history: an update that no event announces and no read has met
    failedRead, \* history: the page shows the outcome of a read that failed
    mishaps

vars == <<form, row, worker, shown, queue, call, channel, inbox, throttle,
          isCancelling, unseen, failedRead, mishaps>>

Environments == [project : Projects, id : EnvironmentIds]
Batches == 0..MaxBatches        \* 0 stands for no results

\* What the page takes of a run: its row, one execution's results, and
\* whether all their artifacts are there.
Views == [status : TestRunStatuses \cup {NoRow}, updates : 0..MaxUpdates,
          results : Batches, evidence : BOOLEAN]
Nothing == [status |-> NoRow, updates |-> 0, results |-> 0, evidence |-> FALSE]

Steps == {"start", "results", "artifacts", "arrive", "write", "ok", "error"}
Started == [step |-> "start", view |-> Nothing, failed |-> FALSE]
Closed == [open |-> FALSE, left |-> 0, trailing |-> FALSE, age |-> Delay]

WorkerSteps == {"idle", "execute", "insert", "artifacts", "reload", "giveUp", "finish", "fail"}
Working(step) == [step |-> step, status |-> NoRow]       \* with no row in hand
Idle == Working("idle")

\* The run types; only one has a worker, the others are shown but disabled.
TestTypes == [functional |-> TRUE, visual |-> FALSE, responsive |-> FALSE, security |-> FALSE]

TypeOK ==
    /\ form \in [project : Projects \cup {None}, environment : Environments \cup {None},
                 type : {t \in DOMAIN TestTypes : TestTypes[t]}, submitting : BOOLEAN]
    /\ form.environment # None => form.environment.project = form.project
    /\ row \in Views
    /\ worker \in [step : WorkerSteps, status : TestRunStatuses \cup {NoRow}]
    /\ shown \in Views
    /\ queue \in Seq({"create", "navigate", "refresh", "cancel"})
    /\ call \in [step : Steps, view : Views, failed : BOOLEAN]
    /\ channel \in {"none", "joining", "joined"}
    /\ inbox \in 0..MaxUpdates
    /\ throttle \in [open : BOOLEAN, left : 0..Delay, trailing : BOOLEAN, age : 0..Delay]
    /\ isCancelling \in BOOLEAN /\ unseen \in BOOLEAN /\ failedRead \in BOOLEAN
    /\ mishaps \in 0..MaxMishaps

EmptyForm == [project |-> None, environment |-> None, type |-> "functional", submitting |-> FALSE]

Init ==
    /\ form = EmptyForm
    /\ row = Nothing /\ worker = Idle /\ shown = Nothing
    /\ queue = <<>> /\ call = Started
    /\ channel = "none" /\ inbox = 0 /\ throttle = Closed
    /\ isCancelling = FALSE /\ unseen = FALSE /\ failedRead = FALSE
    /\ mishaps = 0

panelVars == <<channel, inbox, throttle>>
pageVars == <<shown, isCancelling, failedRead>>

AtWork(action) == queue # <<>> /\ Head(queue) = action
Rendering == AtWork("navigate") \/ AtWork("refresh")

-----------------------------------------------------------------------------
(* The new page.  Its selects stay enabled while a run is being created,   *)
(* and its button is enabled again as soon as it has been; one run is      *)
(* followed here.                                                          *)

\* Variant: the environment stays selected.
SelectProjectOnly(p) ==
    /\ row.status = NoRow
    /\ form' = [form EXCEPT !.project = p]
    /\ UNCHANGED <<row, worker, queue, call, panelVars, pageVars, unseen, mishaps>>

SelectProject(p) ==
    /\ row.status = NoRow
    /\ form' = [form EXCEPT !.project = p, !.environment = None]
    /\ UNCHANGED <<row, worker, queue, call, panelVars, pageVars, unseen, mishaps>>

EnvironmentsForProject == {e \in Environments : e.project = form.project}

SelectEnvironment(e) ==
    /\ row.status = NoRow
    /\ e \in EnvironmentsForProject
    /\ form' = [form EXCEPT !.environment = e]
    /\ UNCHANGED <<row, worker, queue, call, panelVars, pageVars, unseen, mishaps>>

SelectTestType(t) ==
    /\ row.status = NoRow
    /\ TestTypes[t]
    /\ form' = [form EXCEPT !.type = t]
    /\ UNCHANGED <<row, worker, queue, call, panelVars, pageVars, unseen, mishaps>>

CanSubmit == form.project # None /\ form.environment # None /\ ~form.submitting

HandleStart ==
    /\ row.status = NoRow
    /\ CanSubmit
    /\ form' = [form EXCEPT !.submitting = TRUE]
    /\ queue' = Append(queue, "create")
    /\ UNCHANGED <<row, worker, call, panelVars, pageVars, unseen, mishaps>>

CreateTestRun ==
    /\ AtWork("create") /\ call.step = "start"
    /\ row' = [row EXCEPT !.status = "queued"]
    /\ call' = [call EXCEPT !.step = "ok"]
    /\ UNCHANGED <<form, worker, queue, panelVars, pageVars, unseen, mishaps>>

\* A run whose "queued" could not be written is reported as started.
QueuedIsNotWritten ==
    /\ mishaps < MaxMishaps
    /\ AtWork("create") /\ call.step = "start"
    /\ row' = [row EXCEPT !.status = "created"]
    /\ call' = [call EXCEPT !.step = "ok"]
    /\ mishaps' = mishaps + 1
    /\ UNCHANGED <<form, worker, queue, panelVars, pageVars, unseen>>

\* With a row that was marked failed behind it, or without one.
CreateTestRunFails ==
    /\ mishaps < MaxMishaps
    /\ AtWork("create") /\ call.step = "start"
    /\ \/ UNCHANGED row
       \/ row' = [row EXCEPT !.status = "failed"]
    /\ call' = [call EXCEPT !.step = "error"]
    /\ mishaps' = mishaps + 1
    /\ UNCHANGED <<form, worker, queue, panelVars, pageVars, unseen>>

CreateAnswers ==
    /\ AtWork("create") /\ call.step \in {"ok", "error"}
    /\ form' = [form EXCEPT !.submitting = FALSE]
    /\ queue' = IF call.step = "ok" THEN Append(Tail(queue), "navigate") ELSE Tail(queue)
    /\ call' = Started
    /\ UNCHANGED <<row, worker, panelVars, pageVars, unseen, mishaps>>

-----------------------------------------------------------------------------
(* One attempt at the run at a time.  An update of its row is an event for *)
(* a subscription that has been joined; the tables of results send none.   *)

Announce(update, announced) ==
    /\ row' = [update EXCEPT !.updates = row.updates + 1]
    /\ inbox' = IF channel = "joined" THEN inbox + 1 ELSE inbox
    /\ unseen' = (unseen \/ (channel # "joined" /\ ~announced))

LoadForAttempt ==
    /\ worker.step = "idle"
    /\ row.status # NoRow /\ ~IsTestRunFinished(row.status)
    /\ worker' = [step |-> "execute", status |-> row.status]
    /\ UNCHANGED <<form, row, queue, call, panelVars, pageVars, unseen, mishaps>>

\* Both transitions start from the row in hand, whatever the row has become.
AdvanceToRunning(s) ==
    /\ worker.step = "execute"
    /\ <<worker.status, s>> \in {<<"queued", "starting">>, <<"starting", "running">>}
    /\ row.updates < MaxUpdates - 1
    /\ Announce([row EXCEPT !.status = s], FALSE)
    /\ worker' = [worker EXCEPT !.status = s]
    /\ UNCHANGED <<form, queue, call, channel, throttle, pageVars, mishaps>>

Executing == worker.step = "execute" /\ worker.status \notin {"queued", "starting"}

UpdateProgress ==
    /\ Executing
    /\ row.updates < MaxUpdates - 1
    /\ Announce(row, FALSE)
    /\ UNCHANGED <<form, worker, queue, call, channel, throttle, pageVars, mishaps>>

ClearTestResults ==
    /\ Executing
    /\ row' = [row EXCEPT !.results = 0, !.evidence = FALSE]
    /\ worker' = Working("insert")
    /\ UNCHANGED <<form, queue, call, panelVars, pageVars, unseen, mishaps>>

InsertTestResults(b) ==
    /\ worker.step = "insert"
    /\ b # 0 => b > shown.results /\ b > call.view.results     \* ids are never used twice
    /\ row' = [row EXCEPT !.results = b]
    /\ worker' = Working(IF b = 0 THEN "reload" ELSE "artifacts")
    /\ UNCHANGED <<form, queue, call, panelVars, pageVars, unseen, mishaps>>

\* All there are to write, which may be none.
WriteArtifacts ==
    /\ worker.step = "artifacts"
    /\ row' = [row EXCEPT !.evidence = TRUE]
    /\ worker' = Working("reload")
    /\ UNCHANGED <<form, queue, call, panelVars, pageVars, unseen, mishaps>>

\* The outcome is given to the row as it is now, and dropped if that is finished.
ReloadTestRun ==
    /\ worker.step \in {"reload", "giveUp"}
    /\ worker' = IF IsTestRunFinished(row.status) THEN Idle
                 ELSE [step |-> IF worker.step = "reload" THEN "finish" ELSE "fail",
                       status |-> row.status]
    /\ UNCHANGED <<form, row, queue, call, panelVars, pageVars, unseen, mishaps>>

\* By id again: a cancel since the reload is overwritten.
FinishTestRun(s) ==
    /\ \/ worker.step = "finish" /\ s \in {"completed", "failed", "blocked"}
       \/ worker.step = "fail" /\ s = "failed"
    /\ CanTransitionTestRunStatus(worker.status, s)
    /\ s = "completed" => row.results # 0
    /\ row.updates < MaxUpdates - 1
    /\ Announce([row EXCEPT !.status = s], FALSE)
    /\ worker' = Idle
    /\ UNCHANGED <<form, queue, call, channel, throttle, pageVars, mishaps>>

\* Another attempt follows, or this was the last one and the run is given up.
AttemptEnds ==
    \/ worker' = Idle
    \/ worker.step \notin {"giveUp", "fail"} /\ worker' = Working("giveUp")

\* A run that was left as 'created' cannot complete.
TransitionIsIllegal ==
    /\ worker.step = "finish"
    /\ ~CanTransitionTestRunStatus(worker.status, "completed")
    /\ AttemptEnds
    /\ UNCHANGED <<form, row, queue, call, panelVars, pageVars, unseen, mishaps>>

\* A call of the attempt throws, or its process dies.
AttemptThrows ==
    /\ mishaps < MaxMishaps
    /\ worker.step # "idle"
    /\ AttemptEnds
    /\ mishaps' = mishaps + 1
    /\ UNCHANGED <<form, row, queue, call, panelVars, pageVars, unseen>>

-----------------------------------------------------------------------------
(* The server renders the run's page: the run, then its results (with its  *)
(* project and environments), then their artifacts.                        *)

ReadRun ==
    /\ Rendering /\ call.step = "start"
    /\ call' = [call EXCEPT !.step = "results",
                            !.view = [Nothing EXCEPT !.status = row.status, !.updates = row.updates]]
    /\ unseen' = FALSE
    /\ UNCHANGED <<form, row, worker, queue, panelVars, pageVars, mishaps>>

ReadResults ==
    /\ Rendering /\ call.step = "results"
    /\ call' = [call EXCEPT !.step = IF row.results = 0 THEN "arrive" ELSE "artifacts",
                            !.view.results = row.results]
    /\ UNCHANGED <<form, row, worker, queue, panelVars, pageVars, unseen, mishaps>>

\* Variant: the run is read last.
ReadRunLast ==
    /\ Rendering /\ call.step = "artifacts"
    /\ call' = [call EXCEPT !.step = "arrive", !.view.status = row.status,
                            !.view.evidence = row.evidence /\ row.results = call.view.results]
    /\ UNCHANGED <<form, row, worker, queue, panelVars, pageVars, unseen, mishaps>>

ReadArtifacts ==
    /\ Rendering /\ call.step = "artifacts"
    /\ call' = [call EXCEPT !.step = "arrive",
                            !.view.evidence = row.evidence /\ row.results = call.view.results]
    /\ UNCHANGED <<form, row, worker, queue, panelVars, pageVars, unseen, mishaps>>

\* Each read answers an error with nothing; without a run the page is "not
\* found".
ReadFails ==
    /\ mishaps < MaxMishaps
    /\ Rendering /\ call.step \in {"start", "results", "artifacts"}
    /\ call' = [call EXCEPT !.step = "arrive", !.failed = TRUE]
    /\ mishaps' = mishaps + 1
    /\ UNCHANGED <<form, row, worker, queue, panelVars, pageVars, unseen>>

\* The page arrives.  The panel subscribes when it is mounted on an
\* unfinished run, and cleans up when the run has finished or it is unmounted.
Arrive ==
    LET mounted == call.view.status # NoRow
        watching == mounted /\ ~IsTestRunFinished(call.view.status)
    IN
    /\ Rendering /\ call.step = "arrive"
    /\ form' = EmptyForm
    /\ shown' = call.view
    /\ failedRead' = call.failed
    /\ queue' = Tail(queue)
    /\ call' = Started
    /\ isCancelling' = (isCancelling /\ mounted)
    /\ \/ watching /\ channel # "none" /\ UNCHANGED panelVars
       \/ watching /\ channel = "none" /\ channel' = "joining" /\ inbox' = 0 /\ throttle' = Closed
       \/ ~watching /\ channel' = "none" /\ inbox' = 0 /\ throttle' = Closed
    /\ unseen' = (unseen \/ (~watching /\ call.view.updates # row.updates))
    /\ UNCHANGED <<row, worker, mishaps>>

\* What the page makes of a view: above, the badge, the progress line of an
\* active run, the alert and the Cancel button; below, the table of results
\* with their evidence, or "No results yet".
Header(view) ==
    [ badge    |-> view.status,
      progress |-> IF view.status \in {"starting", "running"} THEN view.updates ELSE 0,
      alert    |-> view.status \in {"failed", "blocked"},
      cancel   |-> CanTransitionTestRunStatus(view.status, "cancelled") ]

ResultTable(view) ==
    IF view.results = 0 THEN [rows |-> 0, evidence |-> FALSE]
    ELSE [rows |-> view.results, evidence |-> view.evidence]

-----------------------------------------------------------------------------
(* The panel's subscription and its throttle.                              *)

Join ==
    /\ channel = "joining"
    /\ channel' = "joined"
    /\ UNCHANGED <<form, row, worker, queue, call, inbox, throttle, pageVars, unseen, mishaps>>

\* The connection breaks; the client joins again by itself.
Disconnect ==
    /\ mishaps < MaxMishaps
    /\ channel = "joined"
    /\ channel' = "joining"
    /\ inbox' = 0
    /\ unseen' = (unseen \/ inbox > 0)
    /\ mishaps' = mishaps + 1
    /\ UNCHANGED <<form, row, worker, queue, call, throttle, pageVars>>

Refreshed == [open |-> TRUE, left |-> Delay, trailing |-> FALSE, age |-> 0]

Deliver ==
    /\ inbox > 0
    /\ inbox' = inbox - 1
    /\ \/ /\ throttle.open
          /\ throttle' = [throttle EXCEPT !.trailing = TRUE]
          /\ UNCHANGED queue
       \/ /\ ~throttle.open
          /\ throttle' = Refreshed
          /\ queue' = Append(queue, "refresh")
    /\ UNCHANGED <<form, row, worker, call, channel, pageVars, unseen, mishaps>>

\* Variant: no window after the trailing refresh.
WindowEndsForGood ==
    /\ throttle.open /\ throttle.left = 0
    /\ \/ /\ throttle.trailing
          /\ throttle' = [Closed EXCEPT !.age = 0]
          /\ queue' = Append(queue, "refresh")
       \/ /\ ~throttle.trailing
          /\ throttle' = [throttle EXCEPT !.open = FALSE]
          /\ UNCHANGED queue
    /\ UNCHANGED <<form, row, worker, call, channel, inbox, pageVars, unseen, mishaps>>

\* Variant: no trailing refresh.
WindowEndsQuietly ==
    /\ throttle.open /\ throttle.left = 0
    /\ throttle' = [throttle EXCEPT !.open = FALSE, !.trailing = FALSE]
    /\ UNCHANGED <<form, row, worker, queue, call, channel, inbox, pageVars, unseen, mishaps>>

WindowEnds ==
    /\ throttle.open /\ throttle.left = 0
    /\ \/ /\ throttle.trailing
          /\ throttle' = Refreshed
          /\ queue' = Append(queue, "refresh")
       \/ /\ ~throttle.trailing
          /\ throttle' = [throttle EXCEPT !.open = FALSE]
          /\ UNCHANGED queue
    /\ UNCHANGED <<form, row, worker, call, channel, inbox, pageVars, unseen, mishaps>>

Tick ==
    /\ throttle.open => throttle.left > 0
    /\ throttle.age < Delay
    /\ throttle' = [throttle EXCEPT !.left = IF throttle.open THEN @ - 1 ELSE @, !.age = @ + 1]
    /\ UNCHANGED <<form, row, worker, queue, call, channel, inbox, pageVars, unseen, mishaps>>

-----------------------------------------------------------------------------
(* The Cancel button.                                                      *)

HandleCancel ==
    /\ Header(shown).cancel /\ ~isCancelling
    /\ isCancelling' = TRUE
    /\ queue' = Append(queue, "cancel")
    /\ UNCHANGED <<form, row, worker, shown, call, panelVars, unseen, failedRead, mishaps>>

\* The action reads the row and checks its status, removes the job, ...
GuardCancel ==
    /\ AtWork("cancel") /\ call.step = "start"
    /\ CanTransitionTestRunStatus(row.status, "cancelled")
    /\ call' = [call EXCEPT !.step = "write"]
    /\ UNCHANGED <<form, row, worker, queue, panelVars, pageVars, unseen, mishaps>>

\* ... and writes by id, whatever the row has become.
WriteCancelled ==
    /\ AtWork("cancel") /\ call.step = "write"
    /\ Announce([row EXCEPT !.status = "cancelled"], TRUE)
    /\ call' = [call EXCEPT !.step = "ok"]
    /\ UNCHANGED <<form, worker, queue, channel, throttle, pageVars, mishaps>>

CancelIsRefused ==
    /\ AtWork("cancel") /\ call.step = "start"
    /\ ~CanTransitionTestRunStatus(row.status, "cancelled")
    /\ call' = [call EXCEPT !.step = "error"]
    /\ UNCHANGED <<form, row, worker, queue, panelVars, pageVars, unseen, mishaps>>

CancelFails ==
    /\ mishaps < MaxMishaps
    /\ AtWork("cancel") /\ call.step \in {"start", "write"}
    /\ call' = [call EXCEPT !.step = "error"]
    /\ mishaps' = mishaps + 1
    /\ UNCHANGED <<form, row, worker, queue, panelVars, pageVars, unseen>>

CancelAnswers ==
    /\ AtWork("cancel") /\ call.step \in {"ok", "error"}
    /\ isCancelling' = FALSE
    /\ queue' = IF call.step = "ok" THEN Append(Tail(queue), "refresh") ELSE Tail(queue)
    /\ call' = Started
    /\ UNCHANGED <<form, row, worker, shown, panelVars, unseen, failedRead, mishaps>>

\* The user goes to another page: what the router is at is discarded, the
\* panel is unmounted.
Leave ==
    /\ shown # Nothing /\ ~isCancelling
    /\ shown' = Nothing /\ failedRead' = FALSE
    /\ queue' = <<>> /\ call' = Started
    /\ channel' = "none" /\ inbox' = 0 /\ throttle' = Closed
    /\ UNCHANGED <<form, row, worker, isCancelling, unseen, mishaps>>

-----------------------------------------------------------------------------

TheRouter ==
    \/ CreateTestRun \/ CreateAnswers
    \/ ReadRun \/ ReadResults \/ ReadArtifacts \/ Arrive
    \/ GuardCancel \/ WriteCancelled \/ CancelIsRefused \/ CancelAnswers

ThePanel == Join \/ Deliver \/ WindowEnds \/ Tick

TheUser ==
    \/ \E p \in Projects : SelectProject(p)
    \/ \E e \in Environments : SelectEnvironment(e)
    \/ \E t \in DOMAIN TestTypes : SelectTestType(t)
    \/ HandleStart \/ HandleCancel \/ Leave

TheWorker ==
    \/ LoadForAttempt \/ UpdateProgress \/ ClearTestResults \/ WriteArtifacts
    \/ \E s \in TestRunStatuses : AdvanceToRunning(s) \/ FinishTestRun(s)
    \/ \E b \in Batches : InsertTestResults(b)
    \/ ReloadTestRun \/ TransitionIsIllegal

Mishap ==
    \/ QueuedIsNotWritten \/ CreateTestRunFails \/ ReadFails \/ Disconnect \/ CancelFails
    \/ AttemptThrows

Next == TheRouter \/ ThePanel \/ TheUser \/ TheWorker \/ Mishap

Spec == Init /\ [][Next]_vars

\* What was asked for is answered, a subscription is joined in the end, timers
\* fire.  Nothing makes the user or the worker act.
FairSpec == /\ Spec
            /\ WF_vars(TheRouter)
            /\ WF_vars(Join) /\ WF_vars(Deliver) /\ WF_vars(WindowEnds) /\ WF_vars(Tick)

-----------------------------------------------------------------------------
(* A run shown as completed is shown with the results it completed with,   *)
(* and their artifacts, though the page reads them in three separate       *)
(* queries while a worker writes them (page.tsx:59-73).                    *)
CompletedShowsResults ==
    Header(shown).badge = "completed" /\ ~failedRead =>
        /\ ResultTable(shown) = ResultTable(row)
        /\ ResultTable(shown).rows # 0

(* The throttle "bounds refresh calls to at most one per delayMs window"   *)
(* (throttled-refresh.ts:16), its own trailing refreshes included.         *)
OneRefreshPerWindow ==
    [][queue' = Append(queue, "refresh") => throttle.age = Delay]_vars

(* "the run's final state is never dropped, just coalesced"                *)
(* (throttled-refresh.ts:20): in the end the page shows the run as it is,  *)
(* however updates, cancels and renderings overlap - unless a read failed, *)
(* or an update fell where nothing announces it (unseen): between a read   *)
(* and the subscription, or after the panel unsubscribed because the run   *)
(* it was shown had finished (test-run-status-panel.tsx:46-63).  The       *)
(* latter happens: the worker overwrites a 'cancelled' by id, and a cancel *)
(* an outcome (repository.ts:181-193, actions.ts:174-201).                 *)
LastStatusShown ==
    <>[](shown # Nothing /\ ~unseen /\ ~failedRead => Header(shown) = Header(row))
=============================================================================
