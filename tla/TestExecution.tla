---------------------------- MODULE TestExecution ----------------------------
(***************************************************************************)
(* executeWithTimeout: one execution of a test run inside the worker, with *)
(* its three timers, its polls of the run's row, and the race between the  *)
(* executor and the hard deadline. Time is counted in ticks; a timer fires *)
(* in the tick it is due.                                                  *)
(***************************************************************************)
EXTENDS Naturals

CONSTANTS
    Timeout,        \* timeoutMs
    PollEvery,      \* CANCELLATION_POLL_MS
    Grace,          \* ABORT_GRACE_MS
    ReadTime,       \* the longest a poll's read takes
    StopTime,       \* the longest a cooperative executor takes to see an abort
    MaxTime         \* bound: ticks

ASSUME TimesAssumption ==
    /\ {Timeout, PollEvery, Grace, ReadTime, StopTime} \subseteq Nat
    /\ MaxTime \in Nat /\ MaxTime > Timeout + Grace
    /\ PollEvery > 0 /\ StopTime < Grace

VARIABLES
    now,
    cancelledAt,            \* when the row became "cancelled"
    aborted,                \* controller.signal.aborted
    abortedAt,              \* when it was (a history)
    cancelledExternally,
    timeoutTimer,           \* when the timer fires, or Off
    pollTimer,
    hardDeadlineTimer,
    polls,                  \* reads of the row under way: when each was sent
    pollFailed,             \* has a read failed? (a history)
    executor,               \* the promise of execute
    cooperative,            \* does the executor look at its signal?
    race                    \* what executeWithTimeout's caller sees

timers == <<timeoutTimer, pollTimer, hardDeadlineTimer>>
signal == <<aborted, abortedAt, cancelledExternally>>
vars == <<now, cancelledAt, signal, timers, polls, pollFailed, executor, cooperative, race>>

Off == MaxTime + Timeout + Grace + PollEvery
Times == 0..MaxTime

Settled == race # "pending"

\* No timer is overdue, and no read takes longer than it may.
TypeOK ==
    /\ now \in Times
    /\ cancelledAt \in 0..now \cup {Off}
    /\ {aborted, cancelledExternally, pollFailed, cooperative} \subseteq BOOLEAN
    /\ abortedAt \in 0..now \cup {Off}
    /\ {timeoutTimer, pollTimer, hardDeadlineTimer} \subseteq now..Off
    /\ \A sent \in polls : sent \in 0..now /\ now <= sent + ReadTime
    /\ executor \in {"working", "settled"}
    /\ race \in {"pending", "returned", "threw", "timedOut", "cancelled"}

Init ==
    /\ now = 0
    /\ cancelledAt = Off
    /\ aborted = FALSE
    /\ abortedAt = Off
    /\ cancelledExternally = FALSE
    /\ timeoutTimer = Timeout
    /\ pollTimer = PollEvery
    /\ hardDeadlineTimer = Off
    /\ polls = {}
    /\ pollFailed = FALSE
    /\ executor = "working"
    /\ cooperative \in BOOLEAN
    /\ race = "pending"

\* Time passes when nothing is due: no timer, no answer to a poll, and no
\* reaction of a cooperative executor to the abort of its signal.
Tick ==
    /\ now < MaxTime
    /\ now < timeoutTimer /\ now < pollTimer /\ now < hardDeadlineTimer
    /\ \A sent \in polls : now < sent + ReadTime
    /\ cooperative /\ aborted /\ executor = "working" => now < abortedAt + StopTime
    /\ now' = now + 1
    /\ UNCHANGED <<cancelledAt, signal, timers, polls, pollFailed, executor, cooperative, race>>

-----------------------------------------------------------------------------
\* Variant: no grace after an abort.
NoGrace == now

\* Variant: the deadline is counted from the start of the execution.
GraceFromStart == Grace

AfterGrace == now + Grace

\* Variant: only a cancellation arms the hard deadline.
AbortOnCancelOnly(external) ==
    /\ aborted' = TRUE
    /\ abortedAt' = now
    /\ hardDeadlineTimer' = IF external THEN AfterGrace ELSE hardDeadlineTimer

\* controller.abort() and the listener on the signal.
Abort(external) ==
    /\ aborted' = TRUE
    /\ abortedAt' = now
    /\ hardDeadlineTimer' = AfterGrace

FireTimeout ==
    /\ timeoutTimer = now
    /\ timeoutTimer' = Off
    /\ IF aborted THEN UNCHANGED <<aborted, abortedAt, hardDeadlineTimer>> ELSE Abort(FALSE)
    /\ UNCHANGED <<now, cancelledAt, cancelledExternally, pollTimer, polls, pollFailed,
                   executor, cooperative, race>>

\* Variant: the row is looked at once.
FirePollOnce ==
    /\ pollTimer = now
    /\ pollTimer' = Off
    /\ polls' = polls \cup {now}
    /\ UNCHANGED <<now, cancelledAt, signal, timeoutTimer, hardDeadlineTimer, pollFailed,
                   executor, cooperative, race>>

\* setInterval: a read is sent whether or not the last one has been answered.
FirePoll ==
    /\ pollTimer = now
    /\ pollTimer' = now + PollEvery
    /\ polls' = polls \cup {now}
    /\ UNCHANGED <<now, cancelledAt, signal, timeoutTimer, hardDeadlineTimer, pollFailed,
                   executor, cooperative, race>>

\* Variant: the poll does not look at the signal.
SeeCancelledAlways ==
    /\ cancelledExternally' = TRUE
    /\ IF aborted THEN UNCHANGED <<aborted, abortedAt, hardDeadlineTimer>> ELSE Abort(TRUE)

SeeCancelled ==
    \/ ~aborted /\ cancelledExternally' = TRUE /\ Abort(TRUE)
    \/ aborted /\ UNCHANGED <<signal, hardDeadlineTimer>>

\* The read saw the row at some time between its sending and now. Its answer
\* is acted upon even when the race is settled, and the interval cleared.
PollAnswers(sent) ==
    /\ sent \in polls
    /\ polls' = polls \ {sent}
    /\ \/ cancelledAt # Off /\ SeeCancelled
       \/ sent <= cancelledAt /\ UNCHANGED <<signal, hardDeadlineTimer>>
    /\ UNCHANGED <<now, cancelledAt, timeoutTimer, pollTimer, pollFailed, executor,
                   cooperative, race>>

PollFails(sent) ==
    /\ sent \in polls
    /\ polls' = polls \ {sent}
    /\ pollFailed' = TRUE
    /\ UNCHANGED <<now, cancelledAt, signal, timers, executor, cooperative, race>>

\* Promise.race and the finally block.
Settle(result) ==
    IF Settled THEN UNCHANGED <<race, timers>>
    ELSE /\ race' = result
         /\ timeoutTimer' = Off /\ pollTimer' = Off /\ hardDeadlineTimer' = Off

\* The executor returns or throws, in time or long after the race is settled.
ExecutorSettles ==
    /\ executor = "working"
    /\ executor' = "settled"
    /\ \E result \in {"returned", "threw"} : Settle(result)
    /\ UNCHANGED <<now, cancelledAt, signal, polls, pollFailed, cooperative>>

HardDeadline ==
    /\ hardDeadlineTimer = now
    /\ IF Settled
       THEN hardDeadlineTimer' = Off /\ UNCHANGED <<race, timeoutTimer, pollTimer>>
       ELSE Settle(IF cancelledExternally THEN "cancelled" ELSE "timedOut")
    /\ UNCHANGED <<now, cancelledAt, signal, polls, pollFailed, executor, cooperative>>

\* A cancelTestRun request writes the row.
CancelRun ==
    /\ cancelledAt = Off
    /\ cancelledAt' = now
    /\ UNCHANGED <<now, signal, timers, polls, pollFailed, executor, cooperative, race>>

Next ==
    \/ Tick \/ FireTimeout \/ FirePoll \/ ExecutorSettles \/ HardDeadline \/ CancelRun
    \/ \E sent \in polls : PollAnswers(sent) \/ PollFails(sent)

Spec == Init /\ [][Next]_vars

-----------------------------------------------------------------------------
(* What the race promises.                                                 *)

\* Whatever the executor does, and whether the abort came from the timeout or
\* from a poll, the attempt is over ABORT_GRACE_MS after the timeout at the
\* latest (worker.ts:41-50).
AttemptIsBounded == ~Settled => now <= Timeout + Grace

\* If no poll fails, an attempt whose run was cancelled is over one polling
\* interval, one read and the grace period later, even under an executor that
\* never looks at its signal, and however its polls overlap.
CancelIsPrompt ==
    ~Settled /\ ~pollFailed /\ cancelledAt # Off
        => now <= cancelledAt + PollEvery + ReadTime + Grace

\* The error of a forced end names the cause of the abort: a timeout is not
\* reported as a cancellation that came later, nor the reverse (lines 62-69,
\* 93-99).
ReasonIsTrue ==
    /\ race = "timedOut" => abortedAt = Timeout
    /\ race = "cancelled" => cancelledAt <= abortedAt

\* worker.ts:30-38: an executor that stops within the grace period is never
\* cut off by the hard deadline.
GracefulStop == cooperative => race \notin {"timedOut", "cancelled"}
=============================================================================
