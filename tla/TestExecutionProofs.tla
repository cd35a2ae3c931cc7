------------------------- MODULE TestExecutionProofs -------------------------
(***************************************************************************)
(* Proofs about executeWithTimeout, for every timeout, polling interval    *)
(* and grace period: how long it lasts, what ends it, and why.             *)
(***************************************************************************)
EXTENDS TestExecution, TLAPS

\* The clock and the timers that decide when the race ends.
ClockInv ==
    /\ now \in 0..MaxTime
    /\ timeoutTimer \in {Timeout, Off}
    /\ abortedAt \in 0..now \cup {Off}
    /\ cancelledAt \in 0..now \cup {Off}
    /\ {aborted, cancelledExternally, cooperative} \subseteq BOOLEAN
    /\ race \in {"pending", "returned", "threw", "timedOut", "cancelled"}

\* While the race is on, the next thing to end it is armed: the timeout before
\* an abort, the hard deadline after it.
ArmedInv ==
    ~Settled =>
        /\ executor = "working"
        /\ ~aborted => timeoutTimer = Timeout /\ now <= Timeout /\ hardDeadlineTimer = Off
        /\ aborted => /\ abortedAt <= Timeout
                      /\ hardDeadlineTimer = abortedAt + Grace
                      /\ now <= hardDeadlineTimer
                      /\ cooperative => now <= abortedAt + StopTime

\* The flag says who aborted, from the abort on.
CauseInv ==
    /\ cancelledExternally => aborted /\ cancelledAt # Off /\ cancelledAt <= abortedAt
    /\ ~Settled /\ aborted /\ ~cancelledExternally => abortedAt = Timeout
    /\ race \in {"timedOut", "cancelled"} => aborted /\ ~cooperative
    /\ race = "timedOut" => abortedAt = Timeout
    /\ race = "cancelled" => cancelledExternally

ExecutionInv == ClockInv /\ ArmedInv /\ CauseInv

\* The times are numbers, and Off is later than any of them.
LEMMA OffIsLate ==
    /\ Timeout \in Nat /\ Grace \in Nat /\ StopTime \in Nat /\ MaxTime \in Nat
    /\ Timeout + Grace < MaxTime /\ MaxTime < Off /\ Off \in Nat /\ StopTime < Grace
<1>1. PollEvery \in Nat /\ PollEvery > 0
  BY TimesAssumption
<1>2. Timeout \in Nat /\ Grace \in Nat /\ StopTime \in Nat /\ MaxTime \in Nat
  BY TimesAssumption
<1>3. Timeout + Grace < MaxTime /\ StopTime < Grace
  BY TimesAssumption, <1>2
<1> QED
  BY <1>1, <1>2, <1>3 DEF Off

LEMMA ExecutionInit == Init => ExecutionInv
<1> SUFFICES ASSUME Init PROVE ExecutionInv
  OBVIOUS
<1>1. ClockInv
  <2>1. now \in 0..MaxTime /\ timeoutTimer \in {Timeout, Off}
    BY OffIsLate DEF Init
  <2>2. abortedAt \in 0..now \cup {Off} /\ cancelledAt \in 0..now \cup {Off}
    BY DEF Init
  <2>3. {aborted, cancelledExternally, cooperative} \subseteq BOOLEAN
    BY ZenonT(30) DEF Init
  <2>4. race \in {"pending", "returned", "threw", "timedOut", "cancelled"}
    BY DEF Init
  <2> QED
    BY <2>1, <2>2, <2>3, <2>4 DEF ClockInv
<1>2. ArmedInv
  BY OffIsLate DEF Init, ArmedInv
<1>3. CauseInv
  BY DEF Init, CauseInv, Settled
<1> QED
  BY <1>1, <1>2, <1>3 DEF ExecutionInv

\* An abort of a signal that was not aborted, for whichever reason.
LEMMA AbortKeepsRace ==
    ASSUME ExecutionInv, ~aborted, NEW external \in BOOLEAN, Abort(external),
           UNCHANGED <<now, cancelledAt, executor, cooperative, race>>,
           timeoutTimer' \in {Timeout, Off},
           cancelledExternally' = external,
           external => cancelledAt # Off /\ cancelledAt <= now,
           ~external /\ ~Settled => now = Timeout
    PROVE  ExecutionInv'
<1>1. ClockInv'
  BY DEF ExecutionInv, ClockInv, Abort
<1>2. ArmedInv'
  BY OffIsLate DEF ExecutionInv, ClockInv, ArmedInv, Abort, AfterGrace, Settled
<1>3. CauseInv'
  BY OffIsLate DEF ExecutionInv, ClockInv, CauseInv, Abort, Settled
<1> QED
  BY <1>1, <1>2, <1>3 DEF ExecutionInv

\* A race that is settled by the executor: nothing that is armed matters then.
LEMMA ExecutorSettlesInv ==
    ASSUME ExecutionInv, ExecutorSettles PROVE ExecutionInv'
<1>1. PICK result \in {"returned", "threw"} : Settle(result)
  BY DEF ExecutorSettles
<1>2. UNCHANGED <<now, cancelledAt, signal, cooperative>>
  BY DEF ExecutorSettles
<1>3. ClockInv'
  BY <1>1, <1>2 DEF ExecutionInv, ClockInv, Settle, signal, timers
<1>4. ArmedInv'
  BY <1>1, <1>2 DEF ExecutionInv, ArmedInv, Settle, Settled, signal, timers
<1>5. CauseInv'
  BY <1>1, <1>2 DEF ExecutionInv, CauseInv, Settle, Settled, signal, timers
<1> QED
  BY <1>3, <1>4, <1>5 DEF ExecutionInv

\* The hard deadline of a race that is on: it was armed by an abort, and no
\* cooperative executor is still at work when it fires.
LEMMA HardDeadlineInv ==
    ASSUME ExecutionInv, HardDeadline PROVE ExecutionInv'
<1>1. UNCHANGED <<now, cancelledAt, signal, executor, cooperative>>
  BY DEF HardDeadline
<1>2. CASE Settled
  <2>1. UNCHANGED <<race, timeoutTimer>>
    BY <1>2 DEF HardDeadline
  <2> QED
    BY <1>1, <1>2, <2>1 DEF ExecutionInv, ClockInv, ArmedInv, CauseInv, Settled, signal
<1>3. CASE ~Settled
  <2>1. race' = (IF cancelledExternally THEN "cancelled" ELSE "timedOut") /\ timeoutTimer' = Off
    BY <1>3 DEF HardDeadline, Settle
  <2>2. aborted /\ ~cooperative
    BY <1>3, OffIsLate DEF HardDeadline, ExecutionInv, ClockInv, ArmedInv
  <2>3. ClockInv'
    BY <1>1, <2>1 DEF ExecutionInv, ClockInv, signal
  <2>4. ArmedInv'
    BY <2>1 DEF ArmedInv, Settled
  <2>5. CauseInv'
    BY <1>1, <1>3, <2>1, <2>2 DEF ExecutionInv, CauseInv, Settled, signal
  <2> QED
    BY <2>3, <2>4, <2>5 DEF ExecutionInv
<1> QED
  BY <1>2, <1>3

LEMMA PollAnswersInv ==
    ASSUME ExecutionInv, NEW sent \in polls, PollAnswers(sent) PROVE ExecutionInv'
<1>1. UNCHANGED <<now, cancelledAt, timeoutTimer, pollTimer, executor, cooperative, race>>
  BY DEF PollAnswers
<1>2. CASE UNCHANGED <<signal, hardDeadlineTimer>>
  BY <1>1, <1>2 DEF ExecutionInv, ClockInv, ArmedInv, CauseInv, Settled, signal
<1>3. CASE /\ cancelledAt # Off /\ ~aborted
           /\ cancelledExternally' = TRUE /\ Abort(TRUE)
  <2>1. cancelledAt <= now
    BY <1>3 DEF ExecutionInv, ClockInv
  <2> QED
    BY <1>1, <1>3, <2>1, AbortKeepsRace DEF ExecutionInv, ClockInv
<1> QED
  BY <1>2, <1>3 DEF PollAnswers, SeeCancelled

LEMMA ExecutionStep == ExecutionInv /\ [Next]_vars => ExecutionInv'
<1> SUFFICES ASSUME ExecutionInv, [Next]_vars PROVE ExecutionInv'
  OBVIOUS
<1>1. CASE Tick
  <2>1. UNCHANGED <<cancelledAt, signal, timers, executor, cooperative, race>> /\ now' = now + 1
    BY <1>1 DEF Tick
  <2>2. now < MaxTime /\ now < timeoutTimer /\ now < hardDeadlineTimer
    BY <1>1 DEF Tick
  <2>3. cooperative /\ aborted /\ executor = "working" => now < abortedAt + StopTime
    BY <1>1 DEF Tick
  <2>4. ClockInv'
    BY <2>1, <2>2, OffIsLate DEF ExecutionInv, ClockInv, signal, timers
  <2>5. ArmedInv'
    BY <2>1, <2>2, <2>3, OffIsLate
    DEF ExecutionInv, ClockInv, ArmedInv, Settled, signal, timers
  <2>6. CauseInv'
    BY <2>1 DEF ExecutionInv, CauseInv, Settled, signal
  <2> QED
    BY <2>4, <2>5, <2>6 DEF ExecutionInv
<1>2. CASE FireTimeout
  <2>1. UNCHANGED <<now, cancelledAt, cancelledExternally, executor, cooperative, race>>
    BY <1>2 DEF FireTimeout
  <2>2. timeoutTimer = now /\ timeoutTimer' = Off
    BY <1>2 DEF FireTimeout
  <2>3. CASE aborted
    <3>1. UNCHANGED <<aborted, abortedAt, hardDeadlineTimer>>
      BY <1>2, <2>3 DEF FireTimeout
    <3> QED
      BY <2>1, <2>2, <2>3, <3>1 DEF ExecutionInv, ClockInv, ArmedInv, CauseInv, Settled
  <2>4. CASE ~aborted
    <3>1. Abort(FALSE)
      BY <1>2, <2>4 DEF FireTimeout
    <3>2. now = Timeout
      BY <2>2, OffIsLate DEF ExecutionInv, ClockInv
    <3>3. cancelledExternally' = FALSE
      BY <2>1, <2>4 DEF ExecutionInv, ClockInv, CauseInv
    <3> QED
      BY <2>1, <2>2, <2>4, <3>1, <3>2, <3>3, AbortKeepsRace
  <2> QED
    BY <2>3, <2>4
<1>3. CASE FirePoll
  BY <1>3 DEF FirePoll, ExecutionInv, ClockInv, ArmedInv, CauseInv, Settled, signal
<1>4. CASE ExecutorSettles
  BY <1>4, ExecutorSettlesInv
<1>5. CASE HardDeadline
  BY <1>5, HardDeadlineInv
<1>6. CASE CancelRun
  <2>1. cancelledAt = Off /\ cancelledAt' = now
    BY <1>6 DEF CancelRun
  <2>2. UNCHANGED <<now, signal, timers, executor, cooperative, race>>
    BY <1>6 DEF CancelRun
  <2> QED
    BY <2>1, <2>2, OffIsLate
    DEF ExecutionInv, ClockInv, ArmedInv, CauseInv, Settled, signal, timers
<1>7. CASE \E sent \in polls : PollAnswers(sent)
  BY <1>7, PollAnswersInv
<1>8. CASE \E sent \in polls : PollFails(sent)
  <2>1. UNCHANGED <<now, cancelledAt, signal, timers, executor, cooperative, race>>
    BY <1>8 DEF PollFails
  <2> QED
    BY <2>1 DEF ExecutionInv, ClockInv, ArmedInv, CauseInv, Settled, signal, timers
<1>9. CASE UNCHANGED vars
  BY <1>9 DEF vars, ExecutionInv, ClockInv, ArmedInv, CauseInv, Settled, signal, timers
<1> QED
  BY <1>1, <1>2, <1>3, <1>4, <1>5, <1>6, <1>7, <1>8, <1>9 DEF Next

\* The inductive invariant holds in every state of every execution.
THEOREM ExecutionInvariant == Spec => []ExecutionInv
BY ExecutionInit, ExecutionStep, PTL DEF Spec

-----------------------------------------------------------------------------
\* An attempt lasts no longer than the timeout and the grace period, for any
\* executor, any polls and any cancel.
THEOREM Bounded == Spec => []AttemptIsBounded
<1>1. ExecutionInv => AttemptIsBounded
  BY OffIsLate DEF ExecutionInv, ClockInv, ArmedInv, AttemptIsBounded
<1> QED
  BY <1>1, ExecutionInvariant, PTL

\* The error of a forced end names what aborted the execution.
THEOREM TrueReason == Spec => []ReasonIsTrue
<1>1. ExecutionInv => ReasonIsTrue
  BY DEF ExecutionInv, CauseInv, ReasonIsTrue
<1> QED
  BY <1>1, ExecutionInvariant, PTL

\* The hard deadline never cuts off an executor that heeds its signal within
\* the grace period.
THEOREM Graceful == Spec => []GracefulStop
<1>1. ExecutionInv => GracefulStop
  BY DEF ExecutionInv, CauseInv, GracefulStop
<1> QED
  BY <1>1, ExecutionInvariant, PTL

-----------------------------------------------------------------------------
(* The polls.                                                              *)

\* The bounds of the polls are numbers too, and no armed timer reaches Off.
LEMMA PollTimes ==
    /\ PollEvery \in Nat /\ PollEvery > 0 /\ ReadTime \in Nat
    /\ \A t \in 0..MaxTime : t + PollEvery \in t..Off /\ t + Grace \in t..Off
<1>1. PollEvery \in Nat /\ PollEvery > 0 /\ ReadTime \in Nat
  BY TimesAssumption
<1> QED
  BY <1>1, OffIsLate DEF Off

\* The timers and the reads under way, each variable by itself.
PollsOK ==
    /\ timeoutTimer \in now..Off /\ pollTimer \in now..Off /\ hardDeadlineTimer \in now..Off
    /\ \A sent \in polls : sent \in 0..now /\ now <= sent + ReadTime
    /\ pollFailed \in BOOLEAN
    /\ executor \in {"working", "settled"}

LEMMA TypeParts == ClockInv /\ PollsOK => TypeOK
<1> SUFFICES ASSUME ClockInv, PollsOK PROVE TypeOK
  OBVIOUS
<1>1. {timeoutTimer, pollTimer, hardDeadlineTimer} \subseteq now..Off
  BY DEF PollsOK
<1>2. {aborted, cancelledExternally, pollFailed, cooperative} \subseteq BOOLEAN
  BY Zenon DEF ClockInv, PollsOK
<1> QED
  BY <1>1, <1>2 DEF ClockInv, PollsOK, TypeOK, Times

LEMMA PollsInit == Init => PollsOK
<1>1. Timeout \in 0..Off /\ PollEvery \in 0..Off /\ Off \in 0..Off
  BY OffIsLate, PollTimes DEF Off
<1> QED
  BY <1>1 DEF Init, PollsOK

\* Settling the race clears its timers or leaves them.
LEMMA SettleKeepsTimers ==
    ASSUME ClockInv, PollsOK, NEW result, Settle(result)
    PROVE  /\ timeoutTimer' \in now..Off /\ pollTimer' \in now..Off
           /\ hardDeadlineTimer' \in now..Off
BY OffIsLate DEF ClockInv, PollsOK, Settle, timers

LEMMA PollsStep == ClockInv /\ PollsOK /\ [Next]_vars => PollsOK'
<1> SUFFICES ASSUME ClockInv, PollsOK, [Next]_vars PROVE PollsOK'
  OBVIOUS
<1>0. now \in 0..MaxTime /\ Off \in Nat /\ now < Off /\ ReadTime \in Nat
  BY OffIsLate, PollTimes DEF ClockInv
<1>1. CASE Tick
  <2>1. /\ now' = now + 1 /\ UNCHANGED <<timeoutTimer, pollTimer, hardDeadlineTimer>>
        /\ now < timeoutTimer /\ now < pollTimer /\ now < hardDeadlineTimer
    BY <1>1 DEF Tick, timers
  <2>2. UNCHANGED <<polls, pollFailed, executor>> /\ \A sent \in polls : now < sent + ReadTime
    BY <1>1 DEF Tick
  <2>3. /\ timeoutTimer' \in now'..Off /\ pollTimer' \in now'..Off
        /\ hardDeadlineTimer' \in now'..Off
    BY <1>0, <2>1 DEF PollsOK
  <2>4. \A sent \in polls' : sent \in 0..now' /\ now' <= sent + ReadTime
    BY <1>0, <2>1, <2>2 DEF PollsOK
  <2> QED
    BY <2>2, <2>3, <2>4 DEF PollsOK
<1>2. CASE FireTimeout
  BY <1>0, <1>2, PollTimes DEF FireTimeout, Abort, AfterGrace, PollsOK
<1>3. CASE FirePoll
  BY <1>0, <1>3, PollTimes DEF FirePoll, PollsOK
<1>4. CASE ExecutorSettles
  <2>1. /\ UNCHANGED <<now, polls, pollFailed>> /\ executor' = "settled"
        /\ \E result \in {"returned", "threw"} : Settle(result)
    BY <1>4 DEF ExecutorSettles
  <2> QED
    BY <2>1, SettleKeepsTimers DEF PollsOK
<1>5. CASE HardDeadline
  <2>1. UNCHANGED <<now, polls, pollFailed, executor>>
    BY <1>5 DEF HardDeadline
  <2>2. CASE Settled
    BY <1>0, <1>5, <2>1, <2>2 DEF HardDeadline, PollsOK
  <2>3. CASE ~Settled
    BY <1>5, <2>1, <2>3, SettleKeepsTimers DEF HardDeadline, PollsOK
  <2> QED
    BY <2>2, <2>3
<1>6. CASE CancelRun
  BY <1>6 DEF CancelRun, PollsOK, timers
<1>7. ASSUME NEW sent \in polls, PollAnswers(sent)
      PROVE  PollsOK'
  <2>1. /\ UNCHANGED <<now, timeoutTimer, pollTimer, pollFailed, executor>>
        /\ polls' = polls \ {sent}
        /\ hardDeadlineTimer' \in {hardDeadlineTimer, AfterGrace}
    BY <1>7 DEF PollAnswers, SeeCancelled, Abort
  <2> QED
    BY <1>0, <2>1, PollTimes DEF PollsOK, AfterGrace
<1>8. ASSUME NEW sent \in polls, PollFails(sent)
      PROVE  PollsOK'
  BY <1>8 DEF PollFails, PollsOK, timers
<1>9. CASE UNCHANGED vars
  BY <1>9 DEF vars, PollsOK, timers
<1> QED
  BY <1>1, <1>2, <1>3, <1>4, <1>5, <1>6, <1>7, <1>8, <1>9 DEF Next

\* The type invariant: no timer is overdue, and no read takes longer than it may.
THEOREM ExecutionTypes == Spec => []TypeOK
<1>1. ExecutionInv /\ [Next]_vars /\ PollsOK => PollsOK'
  BY PollsStep DEF ExecutionInv
<1>2. ExecutionInv /\ PollsOK => TypeOK
  BY TypeParts DEF ExecutionInv
<1> QED
  BY <1>1, <1>2, PollsInit, ExecutionInvariant, PTL DEF Spec

\* While the race is on, the next poll is due within the interval. Once the
\* run is cancelled, a read that was sent late enough to see it is under way
\* or due within one interval, until one is seen or fails; an abort, whatever
\* its cause, comes no later than that read's answer.
PromptInv ==
    ~Settled =>
        /\ pollTimer <= now + PollEvery
        /\ ~pollFailed /\ cancelledAt # Off =>
            /\ ~aborted => \/ pollTimer <= cancelledAt + PollEvery
                           \/ \E sent \in polls : cancelledAt < sent /\ sent <= cancelledAt + PollEvery
            /\ aborted => abortedAt <= cancelledAt + PollEvery + ReadTime

LEMMA PromptInit == Init => PromptInv
BY OffIsLate, PollTimes DEF Init, PromptInv

\* Until the abort, no more than an interval and a read pass after the cancel.
LEMMA StillPrompt ==
    ASSUME ClockInv, PollsOK, PromptInv, ~Settled, ~pollFailed, cancelledAt # Off, ~aborted
    PROVE  now <= cancelledAt + PollEvery + ReadTime
BY OffIsLate, PollTimes DEF ClockInv, PollsOK, PromptInv

LEMMA PromptStep == ExecutionInv /\ PollsOK /\ PromptInv /\ [Next]_vars => PromptInv'
<1> SUFFICES ASSUME ClockInv, ArmedInv, PollsOK, PromptInv, [Next]_vars, ~Settled, ~Settled'
             PROVE  PromptInv'
  BY DEF ExecutionInv, PromptInv, Settled, Next, vars, Tick, FireTimeout, FirePoll,
         ExecutorSettles, Settle, HardDeadline, CancelRun, PollAnswers, PollFails
<1> USE OffIsLate, PollTimes DEF ClockInv, PollsOK
<1>1. CASE Tick
  BY <1>1 DEF Tick, PromptInv, timers, signal
<1>2. CASE FireTimeout
  <2>1. CASE aborted
    BY <1>2, <2>1 DEF FireTimeout, PromptInv
  <2>2. CASE ~aborted
    <3>1. aborted' /\ abortedAt' = now /\ UNCHANGED <<now, cancelledAt, pollTimer, pollFailed>>
      BY <1>2, <2>2 DEF FireTimeout, Abort
    <3>2. ~pollFailed /\ cancelledAt # Off => now <= cancelledAt + PollEvery + ReadTime
      BY <2>2, StillPrompt
    <3> QED
      BY <3>1, <3>2 DEF PromptInv
  <2> QED
    BY <2>1, <2>2
<1>3. CASE FirePoll
  BY <1>3 DEF FirePoll, PromptInv, signal
<1>4. CASE ExecutorSettles \/ HardDeadline
  BY <1>4 DEF ExecutorSettles, HardDeadline, Settle, Settled
<1>5. CASE CancelRun
  <2>1. /\ cancelledAt' = now /\ UNCHANGED <<now, signal, timers, polls, pollFailed, race>>
        /\ aborted => abortedAt <= now
    BY <1>5 DEF CancelRun, ArmedInv
  <2> QED
    BY <2>1 DEF PromptInv, timers, signal
<1>6. ASSUME NEW sent \in polls, PollAnswers(sent)
      PROVE  PromptInv'
  <2>1. UNCHANGED <<now, cancelledAt, pollTimer, pollFailed>> /\ polls' = polls \ {sent}
    BY <1>6 DEF PollAnswers
  <2>2. CASE ~aborted /\ Abort(TRUE)
    <3>1. aborted' /\ abortedAt' = now
      BY <2>2 DEF Abort
    <3>2. ~pollFailed /\ cancelledAt # Off => now <= cancelledAt + PollEvery + ReadTime
      BY <2>2, StillPrompt
    <3> QED
      BY <2>1, <3>1, <3>2 DEF PromptInv
  <2>3. CASE aborted /\ UNCHANGED signal
    BY <2>1, <2>3 DEF PromptInv, signal
  <2>4. CASE sent <= cancelledAt /\ UNCHANGED signal
    BY <2>1, <2>4 DEF PromptInv, signal
  <2> QED
    BY <1>6, <2>2, <2>3, <2>4 DEF PollAnswers, SeeCancelled
<1>7. ASSUME NEW sent \in polls, PollFails(sent)
      PROVE  PromptInv'
  BY <1>7 DEF PollFails, PromptInv, timers
<1>8. CASE UNCHANGED vars
  BY <1>8 DEF vars, PromptInv, timers, signal
<1> QED
  BY <1>1, <1>2, <1>3, <1>4, <1>5, <1>6, <1>7, <1>8 DEF Next

\* A cancel ends the attempt within a polling interval, a read and the grace
\* period, for all times, whatever the executor does and however long reads
\* overlap, as long as no read fails.
THEOREM PromptCancel == Spec => []CancelIsPrompt
<1>1. ExecutionInv /\ PollsOK /\ PromptInv => CancelIsPrompt
  <2> SUFFICES ASSUME ExecutionInv, PollsOK, PromptInv, ~Settled, ~pollFailed, cancelledAt # Off
               PROVE  now <= cancelledAt + PollEvery + ReadTime + Grace
    BY DEF CancelIsPrompt
  <2>1. CASE aborted
    BY <2>1, OffIsLate, PollTimes DEF ExecutionInv, ClockInv, ArmedInv, PromptInv
  <2>2. CASE ~aborted
    <3>1. now <= cancelledAt + PollEvery + ReadTime
      BY <2>2, StillPrompt DEF ExecutionInv
    <3> QED
      BY <3>1, OffIsLate, PollTimes DEF ExecutionInv, ClockInv
  <2> QED
    BY <2>1, <2>2
<1>2. ExecutionInv /\ [Next]_vars /\ PollsOK => PollsOK'
  BY PollsStep DEF ExecutionInv
<1> QED
  BY <1>1, <1>2, PollsInit, PromptInit, PromptStep, ExecutionInvariant, PTL DEF Spec
=============================================================================
