# Qavio: verification of the test-run engine

Qavio runs quality checks against web applications. A user starts a *test run*
in the dashboard; a worker picks it up from a queue, crawls the target with a
real browser, stores what it found, and the dashboard follows along. This
directory holds TLA+ models of the parts of Qavio where concurrency, failure
and ordering matter, the TLC configurations that check them, and TLAPS proofs
of the results that hold for every size of the system.

Run a check with `tlc -workers 2 -config <run>.cfg <Module>.tla`, a proof with
`tlapm <Module>.tla`. `PROJECT.json` maps every definition to the lines it
models, and lists the runs, the mutants, the findings, the hazards and the
theorems.

## 1. The system

| Part | State it keeps | Operations | Talks to |
|---|---|---|---|
| Control plane (`apps/web`, Next.js server actions) | none of its own; each request holds what it has read | `createTestRun`, `cancelTestRun`; projects, environments, members, invitations | Postgres through Supabase (row-level security), Redis through BullMQ |
| Database (`supabase/migrations`) | `test_runs`, `test_run_jobs`, `test_results`, `artifacts`; organizations, members, invitations, projects, environments, credentials, audit log | constraints, triggers, a few functions | everyone |
| Job queue (`packages/queue` on BullMQ) | one job per run, keyed by the run's id: state, attempts, lock, stall count | add, take, retry with backoff, recover stalled | control plane adds and removes, worker takes |
| Worker (`workers/web`) | one invocation of `processTestRunJob` per job, with the row it read and the result it got | load, mark active, advance, execute, write results, finish; fail on the last attempt | database (service role), queue, executor |
| Execution (`executeWithTimeout`) | an `AbortSignal`, a timeout, a polling interval, a hard deadline | abort on timeout or on a polled cancel; race | executor, database |
| Executor (`PlaywrightTestExecutor`) | crawl queue, visited set, results, blocked reason | resolve target and authentication, launch, crawl, check a page | the target site, database (progress lines) |
| New-run form and run page | form state; what was rendered, a realtime subscription, a throttle | start, follow, cancel a run | server actions, database (Realtime) |
| Dashboard pages (project, environments, team, settings) | what was rendered, open dialogs, controls that wait, the router's queue | offer by role, submit, confirm, refresh | server actions |
| Environments' server actions | what each request has read | create, rename, archive, delete, move the default, choose an authentication method, save a session state | database; a worker reads the result |
| Sessions (middleware, layouts, auth forms) | cookies: the session, the current organization | sign up, in and out, reset, follow a link, create, switch and join organizations | Supabase Auth, database |

A run goes through `created -> queued -> starting -> running -> completed |
failed | blocked | cancelled` (`packages/types/src/test-run.ts`). What makes it
hard:

* **No write of `test_runs.status` has a predicate on the stored status.** Both
  planes read a row, decide, await something else, and write by id. The
  transition map is asserted against the row in hand, so whether the stored
  status follows the map is a question of who writes between whose awaits.
* **Two stores.** The row is in Postgres, the job in Redis; each call may fail,
  may fail after having taken effect, and a request or a worker may die between
  two calls.
* **Retries and recoveries.** BullMQ repeats an attempt that threw, and hands
  out again one whose worker died, while the row says whatever the last attempt
  managed to write.
* **Cancelling** works through the row alone: the worker polls it.
* **A site nobody controls** decides how long a page check takes, where it
  lands, and what is linked.
* **Server actions of several statements without a transaction** (environments,
  credentials): each commits by itself, and any of them may be the last.
* **Pages show the past.** A page offers what its role and its rows allowed when
  it was rendered; the next render comes through a queue of calls and refreshes,
  while dialogs are closed and reopened.
* **Redirects by several readers.** The middleware, the layout and the pages
  decide by their own reads of a session and of memberships that other tabs
  change.

What each part owes, in one line: the *pipeline* owes exclusive processing, at
most one execution's results, an honest job row, terminal runs left alone, and
an end for every run; the *execution* owes an end in bounded time, for the
reason it reports; the *crawl* owes every page within its limits, once, and a
status that fits its results; *membership* owes an organization that always has
an owner, and invitations that work once; *environments* owe one default and a
session to whoever resolves a saved one; the *run page* owes the run's last
status with the results that belong to it; the *dialogs* owe what they offer,
and the user's own changes on the screen; *sessions* owe an organization of
one's own and links that land.

## 2. Modules

| Module | Models | Kind |
|---|---|---|
| `TestRunStatus` | statuses, terminal statuses, `TEST_RUN_TRANSITIONS`, `canTransition...` | constants, operators |
| `TestRunLifecycle` | the life of runs as both planes promise it: inserted, moved along the map, deleted | abstract specification |
| `TestRunPipeline` | `createTestRun`, `cancelTestRun`, `deleteProject`, the BullMQ job, `processTestRunJob` and the repository, cut at every await | component specification |
| `TestRunPipelineProps` | the pipeline's properties, and its refinement of the lifecycle | properties |
| `TestRunPipelineProofs` | its safety properties and, where nobody cancels, its refinement of the lifecycle, for all constants | proofs |
| `MCTestRunPipeline` | symmetry and the bound on disturbances | instances |
| `TestExecution` | `executeWithTimeout`, in discrete time | component specification |
| `TestExecutionProofs` | its five properties, for all times | proofs |
| `Membership` | the team page's requests as concurrent transactions over `organization_members` and `invitations`; policies, trigger, `accept_invitation` | component specification |
| `MembershipProofs` | its four properties, for all constants | proofs |
| `MCMembership` | symmetry and what is read of an invitation | instances |
| `CrawlSite` | `PlaywrightTestExecutor.execute`, `crawlSite`, `discoverLinks`, the page check's outcomes, what the route guard lets navigate | component specification |
| `CrawlSiteProofs` | its four safety properties, for all sites and limits | proofs |
| `Environments` | the server actions of a project's environments, `set_default_environment`, the credentials behind `stored_state`, a worker's `loadExecutionTarget` and `resolveAuthContext` | component specification |
| `EnvironmentsProofs` | its four properties, for all constants | proofs |
| `MCEnvironments` | symmetry | instances |
| `TestRunPages` | the form that starts a run, and the run's page beside the worker | component specification |
| `TestRunPagesProofs` | its three safety properties, for all constants | proofs |
| `Rbac` | the permission matrix, ranks, `has_organization_role` | operators |
| `DashboardDialogs` | five pages that change things: their offers, dialogs, server actions and refreshes | component specification |
| `DashboardDialogsProofs` | its four properties, for all bounds | proofs |
| `Sessions` | middleware, layouts, auth forms and actions, email links, invitations' pages, the cookie of the current organization | component specification |
| `SessionsProofs` | its three safety properties, for all constants | proofs |

`TestRunPipelineProps` implements `TestRunLifecycle` under the mapping
`INSTANCE TestRunLifecycle WITH Runs <- Runs, status <- status`: every step of
the two planes is one of the lifecycle or leaves every status alone.

The modules meet at these places. `TestRunPages` has the pipeline's writers as
`TheWorker`: it follows `TEST_RUN_TRANSITIONS` (it extends `TestRunStatus`) on the
row it has in hand, writes the row by id, and keeps the order in which the pipeline
writes results and status. `Environments`
ends where `CrawlSite.ResolveTarget` begins. `DashboardDialogs` calls the actions
whose statements `Environments` and `Membership` take apart; it has them as one
step, with the outcome their policies leave. `Sessions` decides the role and the
organization that `DashboardDialogs` is rendered with.

The pipeline, the execution and the crawl meet at two places. `TestRunPipeline.Execute` is one
step with any outcome of an executor, or an error: `TestExecution` opens that
step up in time (its `race` is what `Execute` sees: returned, or an error), and
`CrawlSite` opens up the executor that `TestExecution` races (its `report`, and
its `aborted` is the signal). They are checked apart: the pipeline allows every
outcome at every time, so nothing the other two exclude is relied on.

### 2.1 `TestRunPipeline`

A *slot* is one concurrent invocation of `processTestRunJob` (worker processes
times `WORKER_CONCURRENCY`). `pc[s]` is the await the slot is at and `task[s]`
its locals: the run, the attempt number, **the row as it last read it**, and the
executor's outcome. One action stands for one await and the synchronous code
after it:

| Action | Code |
|---|---|
| `CreateTestRun`, `EnqueueTestRun`, `MarkQueued`, `MarkEnqueueFailed` | `test-runs/actions.ts` `createTestRun`: insert, enqueue, write `queued` or `failed` by id |
| `CancelTestRun`, `InspectJob`, `RemoveQueuedJob`, `WriteCancelled` | `cancelTestRun` and `lib/queue.ts`: guard, job state, remove, write by id |
| `TakeJob`, `PromoteJob`, `RecoverStalledJob`, `LoseLock`, `JobReturns` | BullMQ, as the code uses it (external) |
| `LoadForAttempt`, `MarkActive`, `AdvanceToRunning`, `Execute` | `worker.ts` 118-165 |
| `ClearTestResults`, `InsertTestResults`, `WriteArtifacts` | `repository.ts` 203-312 |
| `ReloadTestRun`, `FinishTestRun`, `RecordJobCompleted` | `worker.ts` 171-205 |
| `RecordJobFailed`, `ReloadForFailure`, `FailTestRun` | the catch block, 208-236 |
| `CallFails`, `RunIsGone` | any repository call answering with an error; a row deleted under the attempt |
| `RequestDies`, `CancelDies`, `WorkerDies`, `DeleteRun` | the environment |

A call that fails may have taken effect or not where that differs (the enqueue,
the insert of results). Results are abstracted to *batches*: which slot's
execution wrote them and with which outcome. Artifacts, progress lines, audit
entries and time stamps are left out. The run types, the configuration and the
payload's identity check only pick between executors or drop a malformed job;
the pipeline's jobs are the ones `createTestRun` builds.

`EarlyPickup` says whether a worker may take the job before `createTestRun` has
written `queued`. The code allows it. The safety run lets it happen; the
lifecycle and liveness runs keep it out, because with it the stored status goes
backwards (`running -> queued`) and those two claims do not hold.

### 2.2 `TestExecution`

Time is a counter of ticks; a timer fires in the tick it is due, an answer to a
poll comes within `ReadTime`, a cooperative executor stops within `StopTime` of
the abort. The executor is a promise that settles at any time, or never when it
is not cooperative (chosen at the start). After the race is settled the model
goes on: a poll still under way may abort the signal and arm a timer that the
`finally` block has already cleared, as in the code.

### 2.3 `CrawlSite`

One action per await of `execute` and `crawlSite`: `ResolveTarget`,
`LaunchBrowser`, `TakePage`, `ReportProgress`, `CheckPage` (its four ways to
end: aborted, thrown, navigation failed, loaded), `EndCrawl`. The site is not
fixed: each page load lands where the environment likes and shows any links.
`links` records what the pages showed, so that the reachable set can be defined
over the very site that was seen (`Within`, a recursive function); the links of
a page are taken over one by one, as `discoverLinks` does (`Kept`, another). A URL stands
for a normalized one, that is for its path: `discoverLinks` strips queries and
fragments, and the login heuristic compares paths. `Offsite` are the URLs the
route guard refuses as a navigation (`MayNavigate`); what makes it refuse a
private address is taken as given.

### 2.4 `Membership`

`changeMemberRole` and `removeMember` are one SQL statement each, cut where
PostgreSQL (READ COMMITTED) lets another transaction in: `SendStatement` (the
snapshot: the row is there, the policies allow the change, the caller's rank is
read), `ApplyStatement` (the row lock is got, the policies are held against the
row as it is now, with the caller's rank of the snapshot, and the trigger reads
the other owners), `CommitStatement`. The actions' own checks of the caller's
role (`requireManageMembers`) say the same as the policies and are left out.
`accept_invitation` is cut after its `select ... for update`
(`CheckInvitation`, `AcceptInvitation`); inviting and revoking are single
statements. `"member"` stands for the three roles below admin. `everOwner` and
`overlapped` are history variables for the properties. `resendInvitation`
changes no state. An invitation's email is a user; a user whose address was
never invited has no way in.

### 2.5 `Environments`

One action per database statement of the server actions in
`projects/[id]/actions.ts`, because each commits by itself: `CountEnvironments`
and `InsertEnvironment` for `createEnvironment`; `SaveEnvironmentStoredState`,
`InsertCredential`, `StoreSecret`, `CleanUpCredential`, `AttachCredential` for a
save. `set_default_environment` is one transaction of two updates:
`SetDefaultEnvironment` is its snapshot, `UnsetOthers` the first update with the
row locks it takes, `SetTarget` the second with the unique index and the commit.
`CountFails`, `StoreSecretFails` and `RequestIsLost` are the failures, each with
and without its effect. A credential's id is the request that inserts it; a
request that has not inserted one may be used again. A storage state is a shape
(`Texts`): what the server's schema accepts and what the worker's parser accepts
are two different predicates on it. The worker's three reads are
`LoadExecutionTarget`, `LoadCredential`, `LoadSecret`.

### 2.6 `TestRunPages`

`form` is the form of `/test-runs/new`; `shown` is what the run's page was
rendered with; `queue` is the order in which the tab's router carries out
navigations, refreshes and server actions, and `call` how far the first one is.
A rendering is `ReadRun`, `ReadResults`, `ReadArtifacts`, `Arrive`. The worker's
writes go on between them. `worker` is the attempt at the run: where it is, and the
status of the row it has in hand. `AdvanceToRunning` and `FinishTestRun` check the
transition from that status and write by id, as `transitionTestRun` does;
`ReloadTestRun` is the read before the outcome. The cancel action is `GuardCancel`,
which reads and checks, and then `WriteCancelled`, by id again. So either may
overwrite what the other has written, a terminal status included. Each attempt ends
before the next begins (lost locks and early pickups are left to the pipeline), and
`AttemptThrows` is an attempt that ends anywhere, by an error or a crash. Each
update of the row is announced to a joined subscription (`Announce`, `Deliver`), unless the connection is down
(`Disconnect`). The throttle is `createThrottledRefresh` with its window, its
trailing flag and the ticks since the last refresh. `unseen` and `failedRead` are
history variables for the properties.

### 2.7 `Rbac` and `DashboardDialogs`

`Rbac` is the matrix of `lib/rbac.ts` and the database's rank function.
`DashboardDialogs` is one tab on one page. Per page, `Handlers` says which
control a handler disables, which dialog its answer closes and what follows;
`MaySubmit` what the page offers with the role and row it was rendered with;
`Checked` the server action's own check; `Permitted` the policies, which a row
that fails them passes over silently; `Effect` the change. A call is `CheckRole`,
`Write`, `Answer`, a refresh is `ReadRole`, `ReadList`, `Arrive`, and the router
does one at a time. `Arrive` also unmounts what the new rendering no longer has:
cards that moved to the other list, dialogs and their pending answers
(`mine`, `alive`). The row of a member says whether the role is "owner", whether it is
the user's own, and whether there is an owner besides (`owner`, `self`, `others`):
`PreventLastOwnerRemoval` is the trigger that raises on the only owner's demotion or
removal, `CanRemove` has the page's own count of the owners, and `RoleAfter` is what a
change of the user's own row makes of the role. `OthersWrite`, `OthersChangeRole` and
`OthersChangeOwners` are everybody else.

### 2.8 `Sessions`

A page request passes the middleware's `getUser` (`UpdateSession`) and then the
reads of its page, one action each; `Fetch` and `Redirect` start it over. Forms
and buttons start a server action, which takes effect in `Perform`; its answer,
with the cookies, arrives in `Answer` or is lost (`LoseCall`). `Outside` is what
other tabs, devices and people do: invitations, removals, sign-outs, a switch of
the current organization in another tab. Supabase Auth is external: an account
is unconfirmed or confirmed, a link carries a code that can be exchanged once.
`members` is a set of rows, each with its time of creation: `getUserOrganizations`
sorts by age, so that the oldest row of an organization decides the role (`Oldest`).

## 3. What is checked

| Run | Instance | Shows |
|---|---|---|
| `pipeline_safety` | 1 run, 2 slots, 1 cancel request, 2 attempts, deletion, early pickup; any 2 of: failed call, worker crash, dead request, lost lock, cancel | `TypeOK`, `OneProcessorPerRun`, `NoDuplicateResults`, `CompletedRunHasItsResults`, `ActiveRowHasProcessor`, `RetryIsRecorded`, `SettledForGood` |
| `pipeline_liveness` | 2 runs, 1 slot, a crash and a cancel, no failed calls | `NoOrphanedRun`, `EveryRunFinishes` |
| `pipeline_lifecycle` | 1 run, 3 attempts, up to 3 failed calls, 2 crashes, 1 dead request (4 together), no cancels, no lost locks | the pipeline implements `TestRunLifecycle` |
| `crawl` | 4 crawlable URLs and one off site, up to 2 links per page, depth 2, every page limit from 1 to 4 | `TypeOK`, `CrawlIsComplete`, `CrawlStaysWithinLimits`, `ReportFitsResults`, `ExecutorReturns` |
| `execution` | timeout 8, polls every 2 taking up to 3, grace 3 (ticks) | `TypeOK`, `AttemptIsBounded`, `CancelIsPrompt`, `ReasonIsTrue`, `GracefulStop` |
| `membership` | 3 users, 2 concurrent role changes or removals, 2 invitations | `TypeOK`, `LastOwnerKept`, `OwnersMakeOwners`, `RevokedAdmitsNobody` |
| `environments` | 2 environments, 2 concurrent requests, 2 names, one failed call or dead request | `TypeOK`, `OneDefault`, `SavedStateIsUsed`, `NoBareCredential` |
| `run_page` | 2 projects, one run with 2 executions and up to 4 updates, one failed call or broken connection | `TypeOK`, `CompletedShowsResults`, `OneRefreshPerWindow`, `LastStatusShown` |
| `dashboard` | every page, 4 roles, 2 changes of role or row, 3 queued router actions, one failed call or read | `TypeOK`, `OfferedIsAllowed`, `OwnChangesArrive`, `AnswerClosesItsDialog` |
| `sessions` | 2 people, 2 organizations, 1 invitation, 2 changes elsewhere or failures | `TypeOK`, `CurrentIsOwn`, `EmailLinkLands`, `RequestsAreServed` |
| `pipeline_cancelled`, `sessions_role` | the smallest instance each | the findings of section 5 |

Why the bounds are enough:

* *Pipeline.* Interference between runs is only through slots and BullMQ, which
  treat runs alike, so one run with two slots has every race over a row; two
  runs on one slot add the waiting that liveness needs. Two disturbances give
  every pair (a lost lock and a failed call, a crash and a cancel, ...); a race
  in this code needs one writer between two awaits of another. Two attempts
  have a first, a last and a retry; the lifecycle run has three as in
  production.
* *Crawl.* Losing a page by a wrong order takes four pages: one that is first
  met too deep, and another linked from it alone. Depth 2 is the default.
* *Execution.* Polls overlap (`ReadTime > PollEvery`), a poll and the timeout are
  due in the same tick, answers can arrive after the deadline, and a cancel is
  noticed well before the timeout would end the race anyway (which is what makes
  `CancelIsPrompt` say more than `AttemptIsBounded`).

* *Membership.* A statement waits for one other transaction, and the trigger
  compares two owners, so two requests have every overlap; the third user is the
  one acted on. Two invitations make the unique index matter.
* *Environments.* Two of everything: the default moves from one to the other, and
  every statement of a request has one of the other between it and the next.
* *Run page.* Two executions are a retry whose results replace the first's; four
  updates are the way to a terminal status and a cancel, for which the last is kept:
  one that is overwritten, or that overwrites the outcome; `Delay` is one
  tick because only the order of the window's end and the events matters. Two
  projects with one environment each have a form whose environment is of the
  other project.
* *Dashboard.* A page's answer can be stale in one respect at a time, so two
  changes (the user's own and somebody else's) suffice. Three queued actions are a
  call, the refresh before it and one after. Four roles are the four ranks.
* *Sessions.* Two people are one who leaves a cookie and one who finds it; two
  disturbances let memberships change between both reads of one request.

The proof modules remove these bounds: every safety property in the table holds
for all values of the constants (section 4). The bounds carry the liveness
properties, and the lifecycle beyond what is proved of it.

Deadlock is checked in the runs of `Sessions`, where somebody can always visit a
page. It is off elsewhere: an organization may be left alone; a pipeline whose
runs are over, an executor that has returned, a race that is settled and a page
that was left really stop.

### Fairness

`TestRunPipeline!FairSpec`: a request, a cancel and an attempt that were started
go on until they return or die, and BullMQ goes on promoting, recovering and
handing out jobs (weak fairness on each). Nothing makes a user act, and no
fairness is put on failures. The code justifies it as follows: requests and
attempts are straight-line async code whose calls all answer in the end, and
`executeWithTimeout` bounds the one that might not (`TestExecution`,
`AttemptIsBounded`); BullMQ's worker loop polls for ever.

`CrawlSite!FairSpec`: the executor's steps other than a page check happen, since
each of these calls has a timeout of its own; the page check may hang for ever
(`page.title()` and `$$eval` wait for the page's script); and the signal is
aborted in the end, which is `executeWithTimeout`'s timeout.

`TestRunPages!FairSpec`: the router finishes what it is at (every server call
answers), a subscription is joined in the end, an event that was sent arrives,
and timers fire. Nothing makes the user or the worker act, so `LastStatusShown`
says what holds once nothing more happens.

`Sessions!FairSpec`: a request that is being served is served on, and a call
takes effect and is answered. Redirects are steps of the same request, so
fairness does not presume that they end: `RequestsAreServed` has to show it.

`DashboardDialogs` and `Environments` state safety only: what the user sees or a
request leaves behind is wrong or right in a state, or in a step.

### Action constraints and conditions in the properties

`OneProcessorPerRun`, `NoDuplicateResults` and `CompletedRunHasItsResults` hold
*while no live processor lost its lock* (`lockLosses = 0`): the code relies on
BullMQ for exclusion and checks nothing itself. `NoOrphanedRun` and
`EveryRunFinishes` hold without failed calls; with one, they do not
(section 5, the list below the findings). Each condition is there because without it TLC finds a
counterexample in the code's behaviour. `LastOwnerKept` holds *unless two open
transactions take an owner each*. `OneDefault` excepts projects whose default was
archived or deleted, which is what these actions do. `SavedStateIsUsed` excepts
environments deleted under the worker. `CompletedShowsResults` and
`LastStatusShown` except a page one of whose reads failed. The latter also excepts an
update that nothing announces (`unseen`): one between the server's read and the
subscription, and one after the panel has unsubscribed because the run it was shown
had finished (`test-run-status-panel.tsx:46-63`). Both really leave the page
on a status that is no longer the run's; the second is finding 1 seen from the
page. `OfferedIsAllowed` excepts the two controls that are offered although they will be
refused (`OfferedRegardless`): "New Project", offered to every role, and the role's
select on the row of the only owner, whose demotion the trigger refuses.

## 4. What is proved

Every safety property of a passing run is a theorem, checked by TLAPS from the
named assumptions on the constants of its module and nothing else; `ImplementsLifecycle`
alone has a hypothesis of its own. These assumptions are typing and size
conditions (finite or non-empty sets, natural numbers, distinct null values), with
two exceptions: in `TestExecution` the grace period is longer than a cooperative
executor's reaction, and in `Environments` null is not a storage state.

**Pipeline** (`TestRunPipelineProofs`), for any number of runs, slots, cancel
requests, attempts, crashes, failures and recoveries. `TypeCorrect`,
`OneProcessor`, `NoDuplicates` and `CompletedHasResults` come from the inductive
invariant

    PipelineInv == TypeOK /\ LockInv /\ RequestInv /\ ResultsInv

* `LockInv`: a lock is held only on an active job, and without lost locks a
  busy slot holds the lock of its run's job. Two slots on one run would hold one
  lock, so `OneProcessorPerRun` follows at once; it is needed because a job is
  taken only when it waits, and recovered only when no slot holds its lock.
* `RequestInv`: a run that nobody has asked for has no row and no job, so the
  insert finds no results.
* `ResultsInv`: what a slot's position says of the stored results (none before
  the insert, its own batch, or nothing for an empty outcome, from then until
  the final write), that no slot is at a step that still writes while the row
  says completed, and the two properties of each run.

Most of a step's proof obligation is the same for every action of an attempt, so
`AttemptShape` sorts them once into *continues* and *returns*, and the lemmas
after it (`AttemptType`, `AttemptKeepsRest`, `AttemptIsLocal`, ...) say what an
attempt leaves alone: the other slots, the other runs, the locks.

`SettledIsFinal` needs `TypeOK` only: each writer of a row is in the middle of a
request, a cancel or an attempt, and `SettledForGood` speaks of runs that have
none. The others add a conjunct each:

* `ActiveRowIsProcessed`: by `ActiveInv` the processor behind an active row is at a
  step from which it can still close it.
* `RetriesAreRecorded`: `AttemptCounts` ties the attempt in a slot's hands to
  BullMQ's count, `RetryInv` ties the job's row to both, from the catch block to
  the retry.
* `RunsAreNotOrphaned`: `RecoveryInv` says that a row which was handed over has a
  request or a job (`HandOverInv`, `NoRefusal`), that a cancel which is about a run is
  still at work on it (`IdleCancels`), that every stall BullMQ has counted was a
  death (`StallsInv`), and that an attempt ends only on a run that is over (`EndInv`).
  The hypothesis of `NoOrphanedRun` on crashes is used in one place: a recovered
  job has stalls left.
* `ImplementsLifecycle`: `Spec => FollowsLifecycle` under `Undisturbed` (no
  cancels, no lost locks, no early pickup), for any failed calls, crashes, dead
  requests and retries. By `FreshInv` the row in the hands of a slot that is about
  to write is the stored one, so that the check of the transition map, which looks
  at the row in hand, is a check of the stored status. Each of the three conditions is
  needed: finding 1 is a cancel, section 2.1 describes the early pickup, and with
  a lost lock a second processor moves the row under the first one's read.

**Execution** (`TestExecutionProofs`), for all times with a grace period longer
than a cooperative executor's reaction: `ExecutionTypes`, `Bounded`, `TrueReason`, `Graceful`, `PromptCancel`.
The inductive invariant says which timer is armed while the race is on
(`ArmedInv`: the timeout before an abort, the hard deadline exactly `Grace`
after it), who aborted (`CauseInv`), and that the clock has not passed either
(`ClockInv`). For `PromptCancel`, `PromptInv` follows the first poll that is sent
after the cancel: until it is sent the next poll is due within an interval, until it
is answered its answer is due within a read, and after that the signal is aborted;
polls that overlap it can only abort earlier.

**Membership** (`MembershipProofs`), for any number of users, requests and
invitations: `MembershipTypes`, `OwnerIsKept`, `OwnersAreMadeByOwners`,
`RevokedIsRevoked`. The invariant is `TypeOK /\ OwnerInv /\ WordInv /\
AcceptInv`. `OwnerInv`: a row is held by one transaction, and without an overlap
one transaction at most takes an owner and another owner exists; it is kept at
a commit because the other owner's row can only be taken by a second such
transaction, and by an accepted invitation because that waits for whoever holds
the row. `WordInv`: who acts on an owner's row, makes or invites an owner was an
owner when the statement was sent. `AcceptInv`: an invitation being accepted is
still pending.

**Environments** (`EnvironmentsProofs`), for any number of environments, requests,
names, failed calls and dead requests: `EnvironmentsTypes`, `DefaultIsOne`,
`SavedStateServes`, `CredentialsHaveSecrets`. The inductive invariant is

    EnvironmentsInv == TypeOK /\ SaveInv /\ InsertInv /\ StoredInv
                         /\ CredentialInv /\ WorkerInv /\ DefaultInv

Its notion is `Usable(c, e)`: credential `c` is of environment `e`, has a secret the
worker's parser accepts, and its request can no longer take it back
(`Spent(c) /\ ~Unfinished(c)`). `UsableIsStable` shows that no step of anybody
takes that away, short of deleting the environment. `StoredInv` says that an
environment in `stored_state` points at a usable credential, `SaveInv` that a
request about to attach one has a usable one, `WorkerInv` that a worker between
its reads has one; each is kept because it is established once and stable.
`CredentialInv` says whose the rows are and who is still at work on a bare one.
`DefaultInv` strengthens `OneDefault` by the requests that have counted other
environments and not yet inserted theirs: they are why an insert that does not
claim the default leaves no project without one; `InsertInv` keeps their
environments apart. `LifeSteps`, `CredSteps`, `PointerSteps` and `DefaultSteps` say
once what any step does to an environment's life, to a credential, to the pointer
between them, and to the default; the invariants are shown from these. Besides
`ConstantsAssumption` they use `NoneIsNoText`: null is not a storage state.

**Crawl** (`CrawlSiteProofs`), for every site, every limit and every way a page check
can end: `CrawlTypes`, `LimitsAreKept`, `ReportsFit`, `CompletedCrawlsAreComplete`.
The last is the algorithm's correctness, in two steps. `OrderInv`: the queue holds
pages of one depth and after them pages of the next, so that a URL leaves the queue
for the first time at its smallest depth. `CompleteInv`: whatever is within `d`
links of the start, by the links seen so far, was visited or waits in the queue at a
depth of at most `d`; an empty queue therefore leaves nothing out. `VisitedInv` says
which visited pages have a result, `LimitsInv` counts them against the page limit,
`ReportInv` and `BlockedInv` follow the reported status from where it is decided. `Within` and `Kept` are
recursive functions; what is used of them is their defining equations, obtained
once from the uniqueness of primitive recursion.

**Run page** (`TestRunPagesProofs`), for any projects, updates, delays and mishaps:
`PageTypes`, `CompletedRunsShowTheirResults`, `ThrottleKeepsItsDistance`. `PageInv`
has the types, the updates that are left for a cancel, and the submission of the form.
`CompletedInv`: once a run was completed no attempt is at it any more (`Done`): a late
cancel may still overwrite its status, but nothing its results. Results and artifacts
read after the row was read as completed are therefore those it completed with; this
is why the page reads the row first. `ThrottleInv`: while the window is open, the ticks since the
last refresh and those left to its end add up to the delay.

**Dialogs** (`DashboardDialogsProofs`), for any number of changes and queued actions:
`DialogTypes`, `OffersAreAllowed`, `ChangesArrive`, `AnswersCloseTheirDialogs`. The
invariant is

    DialogsInv == Typed /\ FitInv /\ StepInv /\ SeenInv /\ OwnInv /\ CardInv /\ OfferInv

* `FitInv`: the organization has an owner, and the user's own row has the user's role;
  the trigger is what keeps it.
* `StepInv` says how far the router's first action is, and bounds the version by
  the commands that have yet to write; `SeenInv` orders the versions a page, a
  dialog and a command have seen.
* `OwnInv`: a change that is not on the screen has its write's answer under way,
  which will queue a refresh, or a refresh that has yet to read the list.
* `CardInv`: a card has one call under way at most, and an open confirmation is
  the one of that call.
* `OfferInv`: a view of the current version fits the role and the row, a dialog
  opened on it keeps what it was offered for (`Promise`), and a command given in
  it is allowed, or one of the two that are offered regardless. The lemma
  `Ranks` compares the permission matrix with the ranks of the policies, control by
  control.

**Sessions** (`SessionsProofs`), for any number of people, organizations, invitations
and changes elsewhere: `SessionsTypes`, `CurrentBelongsToItsUser`, `EmailLinksLand`.
The invariant is

    SessionsInv == DatabaseOK /\ BrowserOK /\ RequestOK /\ PageOK /\ CallOK

`DatabaseOK` holds the keys (nobody joins twice, a link belongs to an account),
`RequestOK` says that a request whose link's code was exchanged is on the way to that
link's page, unless that is the onboarding page, which may lead on; the others say
what the browser, its page and its call hold. `CurrentIsOwn` follows because the second
read keeps only organizations the caller belongs to by then (`Listed`), and the
cookie only picks among those (`ResolveCurrent`, lemma `CurrentIsListed`).

What stays with TLC: liveness under fairness (`EveryRunFinishes`, `ExecutorReturns`,
`LastStatusShown`, `RequestsAreServed`), which is out of the prover's reach.
The lifecycle with cancels is not claimed: `pipeline_cancelled` shows how it fails.

## 5. Findings

Each is a violation run; `PROJECT.json` quotes the lines.

1. **A cancelled run can be resurrected** (`pipeline_cancelled`). A cancel
   between the worker's read and its next status write is overwritten. The run's page
   does not notice: it unsubscribes when it is shown `cancelled`, and stays on that
   (`run_page` has this behaviour; `LastStatusShown` excepts it by `unseen`).
2. **A member may be given the owner's role by the dashboard** (`sessions_role`).
   `getUserOrganizations` reads the rows of all co-members and takes the oldest
   for the caller's.

Seen while modelling; the models have it, no run is about it.

*Test runs.*
* On the last attempt, a failed call outside the try block, or inside the catch
  block before the write of `failed`, leaves the run in its status for ever
  (`worker.ts:212`; `docs/test-run-engine.md:175` says never stuck).
* A run whose write of `queued` failed (`test-runs/actions.ts:135`) stays
  `created`: no outcome can be written from there, so every attempt runs the whole
  test and throws, and the last one fails the run.
* A failed write of a progress line leaves the crawl and fails the run
  (`playwright-executor.ts:232`).
* A timeout aborts and does not reject: what the executor returns within the
  grace period counts (`worker.ts:92`; `docs/test-run-engine.md:187-192`).
* Between two reads of a page, a failed one is taken for an empty or missing one:
  a refresh that fails shows "not found" (`lib/test-runs.ts:246`).
* `discoverLinks` documents `alreadySeen` as "already-queued-or-visited"; its caller
  passes the visited URLs only. The crawl is right all the same, since a URL is
  looked up again when it leaves the queue. A redirect of the entry page to a login on another
  origin fails the run, where one on the same origin blocks it.

*Membership.*
* `prevent_last_owner_removal` (001300:46) reads the other owners without locking
  them: two owners removed at once leave none. `LastOwnerKept` says when.
* An expired invitation keeps the status `pending`, so the unique index refuses a
  new one for the address, where the comment at 001200:24-25 calls re-inviting
  fine. `revokeInvitation` does not look at the status: an accepted invitation can
  be revoked, and the member stays.
* An update or delete that row-level security lets through to no row answers ok
  (`team/actions.ts`, `projects/actions.ts`). "New Project" is offered to every role.
* `docs/authentication.md:167-170` says that changing a role and removing both use
  `ConfirmDialog` and disable themselves for the last owner. Removing does. The role's
  select is enabled on the only owner's row (`team-view.tsx:64-68`), asks for no
  confirmation, and the choice is refused by the trigger (001300:38-61). The model
  has it so, and `OfferedIsAllowed` names it as an exception (`OfferedRegardless`).
* `switchOrganization` reads with `maybeSingle` and without a user filter, and so
  fails for an organization of two members or more. `createOrganization` is not
  idempotent: a lost answer and a second click make two.

*Environments.*
* A credential that was detached by changing the method keeps its row; saving a
  state again inserts one of the same name, which the unique constraint refuses.
* An archived environment can be made the default by a call that was offered before.
* A project's active and archived environments are two reads
  (`projects/[id]/page.tsx:43-48`): one that is archived in between is in both
  lists, or in neither.

*Dialogs and forms.*
* Closing a form whose call is under way resets its submit button: it can be
  submitted twice, and the late answer closes the dialog that was opened since
  (`edit-environment-dialog.tsx:139`, `edit-project-dialog.tsx:80`). An invitation's link that
  arrives late is shown in the next opening.
* The authentication panel is reset to the method it was rendered with, and a late
  answer to a save erases what was pasted since.
* The settings form keeps its old default values after a save, so that the old name
  cannot be entered again before a reload. Settings and team actions go by the
  cookie: a form rendered for one organization saves to the one another tab has
  switched to.

*Sessions.*
* The sign-up link of the login form loses `next`. An email link that was used
  already ends, for somebody signed in, on the dashboard without a word.
* `docs/authentication.md:38-39` speaks of `/overview`, the code of `/dashboard`.

## 6. Plan

1. *(done)* pipeline, its refinement and proofs; execution and its proofs; crawl;
   membership and its proofs; environments and their proofs; the run page; the
   dashboard's dialogs; sessions.
2. *(done)* proofs of the safety properties of every component, and of the
   refinement.
3. A lifecycle that allows for cancels (the finding's writes as steps of their own), and
   its refinement; lemmas shared by several proof modules (`Head` and `Tail` of a
   queue, sets of rows) stated once.
4. `TestExecution` over several attempts, with executors that outlive theirs.

## 7. Not modelled

* Generated types (`packages/database/src/generated.ts`), layout and styling
  components (`packages/ui`, navigation, icons), and pages that only read and show
  (overview, issues, reports, integrations): no state of their own.
* The classification of target addresses and host names
  (`security/target-validation.ts`): a pure function; the crawl takes its verdicts as given.
* What a page check collects (console errors, screenshots, timings): data of a
  result, which nothing decides on but its status.
* Audit log, notifications, usage and billing: append-only tables that nothing
  reads back.
* Issues, integrations, AI, fixes, the API service and the other workers:
  schema, read-only pages and placeholders in this version.
* Storage: blobs of artifacts, which a retry may orphan (documented in
  `repository.ts` 262-268).
* The theme preference, copying of links, toasts: local to the browser.
* Start-up, configuration and logging of the worker; its shutdown is the death of
  a worker in the pipeline.
