------------------------------- MODULE Facade -------------------------------
(***************************************************************************)
(* The async facade (waymaker-embassy/src/ctx.rs) over the driver's        *)
(* boundary (waymaker-drive/src/drive.rs, Context), with an executor, a    *)
(* dispatcher, the alarm of a board and its clocks around it.              *)
(*                                                                         *)
(* A workflow is any program over Ctx: at each point it polls the future   *)
(* it holds, or drops it and makes another.  Ctx lends itself to one       *)
(* future at a time, so there is one, and whatever outlives a future is in *)
(* Ctx.  The run's history is `log`, and the driver has replayed `pos`     *)
(* entries of it: what Driver.tla shows of the machine and the journal is  *)
(* taken for granted here, and the order of calls is what is at stake.     *)
(*                                                                         *)
(* An operator whose name starts with Bad is a slip the properties must    *)
(* notice in the place of the operator it precedes.                        *)
(***************************************************************************)
EXTENDS Integers, Sequences

CONSTANTS
  Activities,  \* what an effect may be asked for: a kind with its input
  Specs,       \* TimerSpec: the clock of a deadline, and the deadline
  NoArg,       \* no spec, no future, no timer, no alarm
  Room,        \* boundaries the reserve lets a bank hold
  Early,       \* bound on a clock no open timer is measured by
  Ticks        \* bound on any clock

VARIABLES
  log,           \* the run's history on media
  at, progress,  \* whether a boot is running, and what the last one came to
  pos,           \* how much of the log this boot has replayed
  stop,          \* Context::stop
  pending,       \* Context::pending: the entry of the effect handed out, or 0
  armed,         \* Context::armed, with what Stop::WaitingUntil says remains
  lastWait,      \* Context::last_wait
  closed, out, unserviceable,   \* Ctx; of the buffer, what an answer or ending put there
  fut,           \* the future the workflow holds
  alarm,         \* the armed wake-up, if any
  awake,         \* the task runs, or its waker was called
  clocks         \* the board's clocks

media == <<log>>
context == <<pos, stop, pending, armed, lastWait>>
ctx == <<closed, out, unserviceable>>
board == <<alarm, awake, clocks>>
vars == <<log, at, progress, context, ctx, fut, board>>

\* TimerSpec's two clocks; a spec is one of them and a reading of it.
Clocks == {"AfterBoot", "AtPersistentTime"}
ASSUME SpecsAssumption == Specs \subseteq [clock : Clocks, deadline : Nat]

Kinds == {"activity", "timer", "continue", "complete", "fail"}
NoFuture == [kind |-> "none", arg |-> NoArg, stage |-> "Ended"]

\* Stop, and the errors of Stop::Failed that are told apart here.
Stops == {"None", "WaitingUntil", "Migrated", "Finished",
          "NearCapacity", "EffectOutstanding", "Failed"}

Entry(type, arg, armedAt) ==
  [type |-> type, arg |-> arg, armedAt |-> armedAt, outcome |-> "Open"]
Full == Len(log) >= Room

\* What history holds next for this boot, if anything.
Replaying == pos < Len(log)
Recorded == log[pos + 1]
Matches(type, arg) == Recorded.type = type /\ Recorded.arg = arg

\* The future's poll is over: it was not ready.
Sleeps == awake' = FALSE
\* It was ready, and the workflow goes on.
Goes == awake' = TRUE /\ fut' = [fut EXCEPT !.stage = "Ended"]
-----------------------------------------------------------------------------
(* The driver's side of a boundary                                         *)

\* Every way decide and decide_timer come to stop; schedule refuses a second
\* effect the same way.  A record whose write failed may have landed.
Halts(type, arg, armedAt) ==
  /\ \/ stop # "None" /\ UNCHANGED <<stop, log>>
     \/ stop = "None" /\ pending # 0 /\ stop' = "EffectOutstanding" /\ UNCHANGED log
     \/ /\ stop = "None" /\ pending = 0
        /\ \/ Replaying /\ Recorded.type = "Terminal" /\ stop' = "Finished" /\ UNCHANGED log
           \/ /\ Replaying /\ Recorded.type # "Terminal" /\ ~Matches(type, arg)
              /\ stop' = "Failed" /\ UNCHANGED log
           \/ ~Replaying /\ Full /\ stop' = "NearCapacity" /\ UNCHANGED log
           \/ /\ ~Replaying /\ ~Full /\ stop' = "Failed"
              /\ log' \in {log, Append(log, Entry(type, arg, armedAt))}
           \/ stop' = "Failed" /\ UNCHANGED log
  /\ UNCHANGED <<pos, pending, armed>>

\* The next entry matches, or history ends and one is written.
Boundary(type, arg, armedAt) ==
  /\ stop = "None" /\ pending = 0
  /\ \/ Replaying /\ Matches(type, arg) /\ UNCHANGED log
     \/ ~Replaying /\ ~Full /\ log' = Append(log, Entry(type, arg, armedAt))
  /\ pos' = pos + 1

\* The outcome of the last entry, written after it.
Answers(outcome) == log' = [log EXCEPT ![Len(log)].outcome = outcome]
-----------------------------------------------------------------------------
(* ActivityFuture::poll                                                    *)

\* Activities alone mind the effect that nobody serves.
BadIgnored ==
  fut.stage = "Ended" \/ closed # "None" \/ (unserviceable /\ fut.kind = "activity")

\* A poll is ignored once it has ended, the run is closed, or an effect no
\* dispatcher serves is outstanding.
Ignored == fut.stage = "Ended" \/ closed # "None" \/ unserviceable

IgnoredPoll ==
  /\ at = "Running" /\ fut.kind # "none" /\ Ignored
  /\ Sleeps /\ UNCHANGED <<log, at, progress, context, ctx, fut, alarm, clocks>>

\* Nobody looks whether the run is closed.
BadPolls(kinds) ==
  /\ at = "Running" /\ fut.kind \in kinds
  /\ fut.stage # "Ended" /\ ~unserviceable
  /\ UNCHANGED <<at, progress>>

Polls(kinds) ==
  /\ at = "Running" /\ fut.kind \in kinds /\ ~Ignored
  /\ UNCHANGED <<at, progress>>

\* observed: the recorded outcome is copied into the caller's buffer.
Observed == out' = "result" /\ UNCHANGED <<closed, unserviceable>>

ScheduleHalts ==
  /\ Polls({"activity"}) /\ fut.stage = "Scheduling"
  /\ Halts("Effect", fut.arg, 0) /\ lastWait' = NoArg
  /\ Sleeps /\ UNCHANGED <<ctx, fut, alarm, clocks>>

ScheduleReplays ==
  /\ Polls({"activity"}) /\ fut.stage = "Scheduling"
  /\ Replaying /\ Recorded.outcome # "Open"
  /\ Boundary("Effect", fut.arg, 0) /\ lastWait' = NoArg
  /\ Observed /\ Goes
  /\ UNCHANGED <<stop, pending, armed, alarm, clocks>>

\* The effect is handed out, scheduled now or in an earlier boot, and the
\* poll goes on to ask the dispatcher.
ScheduleDispatches ==
  /\ Polls({"activity"}) /\ fut.stage = "Scheduling"
  /\ Replaying => Recorded.outcome = "Open"
  /\ Boundary("Effect", fut.arg, 0) /\ lastWait' = NoArg
  /\ pending' = pos' /\ fut' = [fut EXCEPT !.stage = "Dispatching"]
  /\ awake' = TRUE
  /\ UNCHANGED <<stop, armed, ctx, alarm, clocks>>

\* poll_dispatch has no answer yet; the row may call the waker later.
DispatchPends ==
  /\ Polls({"activity"}) /\ fut.stage = "Dispatching"
  /\ Sleeps /\ UNCHANGED <<log, context, ctx, fut, alarm, clocks>>

\* No row of the table serves the kind (wiring.rs), and no later one will.
DispatchUnserviceable ==
  /\ Polls({"activity"}) /\ fut.stage = "Dispatching"
  /\ unserviceable' = TRUE /\ fut' = [fut EXCEPT !.stage = "Ended"]
  /\ Sleeps /\ UNCHANGED <<log, context, closed, out, alarm, clocks>>

\* The future goes on dispatching after it has been answered.
BadDispatchAnswers ==
  /\ Polls({"activity"}) /\ fut.stage = "Dispatching"
  /\ lastWait' = NoArg /\ pending' = 0 /\ UNCHANGED <<pos, armed, alarm, clocks>>
  /\ stop = "None" /\ pending # 0 /\ Answers("Answered")
  /\ Observed /\ awake' = TRUE /\ UNCHANGED <<stop, fut>>

\* An answer, or an error in place of one, ends the asking, whether or not
\* Context::resolve can write it.  That it refuses an answer nobody asked for
\* does not arise: AsksForTheOpenEffect.
DispatchAnswers ==
  /\ Polls({"activity"}) /\ fut.stage = "Dispatching"
  /\ stop = "None" /\ pending # 0
  /\ lastWait' = NoArg /\ pending' = 0 /\ UNCHANGED <<pos, armed, alarm, clocks>>
  /\ \/ Answers("Answered") /\ Observed /\ Goes /\ UNCHANGED stop
     \/ /\ UNCHANGED log \/ Answers("Answered")
        /\ stop' = "Failed" /\ Sleeps /\ fut' = [fut EXCEPT !.stage = "Ended"]
        /\ UNCHANGED ctx
-----------------------------------------------------------------------------
(* TimerFuture::poll                                                       *)

Now(spec) == clocks[spec.clock]

\* TimerSpec::rearmed_at: a boot clock below the recorded reading was reset.
RearmedAt(spec, recorded) ==
  IF spec.clock = "AfterBoot" /\ Now(spec) < recorded THEN Now(spec) ELSE recorded

\* Timer::evaluate: what is still owed of a deadline, nothing once it passed.
Owed(spec, floor) ==
  LET due == IF spec.clock = "AfterBoot" THEN floor + spec.deadline ELSE spec.deadline
  IN  IF Now(spec) < due THEN due - Now(spec) ELSE 0

\* deadline_remaining reports whatever deadline the run is stopped for.
BadDeadlineRemaining == stop = "WaitingUntil"

\* Boundary::deadline_remaining answers: the last call waited for the deadline
\* the run is stopped for.
DeadlineRemaining == stop = "WaitingUntil" /\ armed # NoArg /\ armed.spec = lastWait

\* A deadline that was measured before is not given another wake-up.
BadArms ==
  /\ Sleeps
  /\ alarm' = IF DeadlineRemaining' /\ stop # "WaitingUntil"
                THEN [clock |-> armed'.spec.clock, left |-> armed'.left] ELSE alarm

\* Not ready: a wake-up after the ticks owed, if it is this deadline that stops
\* the run.  There is one countdown, and arming it again replaces it.
Arms ==
  /\ Sleeps
  /\ alarm' = IF DeadlineRemaining'
                THEN [clock |-> armed'.spec.clock, left |-> armed'.left] ELSE alarm

\* measure, of a deadline that has not passed.
Remains(spec, floor) ==
  /\ Now(spec) >= floor /\ Owed(spec, floor) > 0
  /\ armed' = [spec |-> spec, floor |-> floor, left |-> Owed(spec, floor)]
  /\ stop' = "WaitingUntil" /\ Arms /\ UNCHANGED fut

\* measure, when the clock moved back or cannot be read.
Unmeasured == armed' = NoArg /\ stop' = "Failed" /\ Arms /\ UNCHANGED fut

WaitHalts ==
  /\ Polls({"timer"}) /\ lastWait' = fut.arg
  /\ ~(stop = "WaitingUntil" /\ armed.spec = fut.arg)
  /\ Halts("Timer", fut.arg, Now(fut.arg))
  /\ Arms /\ UNCHANGED <<ctx, fut, clocks>>

\* History has the timer fired.
WaitReplays ==
  /\ Polls({"timer"}) /\ lastWait' = fut.arg
  /\ Replaying /\ Recorded.outcome = "Fired"
  /\ Boundary("Timer", fut.arg, 0) /\ Goes
  /\ UNCHANGED <<stop, pending, armed, ctx, alarm, clocks>>

\* decide_timer and arming: a timer that is armed now, or was in an earlier
\* boot.  One that has passed is measured again by the next action.
Floor ==
  IF Replaying THEN RearmedAt(fut.arg, Recorded.armedAt) ELSE Now(fut.arg)

WaitMeasures ==
  /\ Polls({"timer"}) /\ lastWait' = fut.arg
  /\ Replaying => Recorded.outcome = "Open"
  /\ Boundary("Timer", fut.arg, Now(fut.arg))
  /\ Remains(fut.arg, Floor) \/ Unmeasured
  /\ UNCHANGED <<pending, ctx, clocks>>

\* A deadline already passed when it is armed, or armed again, fires at once.
WaitFires ==
  /\ Polls({"timer"}) /\ lastWait' = fut.arg
  /\ stop = "None" /\ pending = 0
  /\ Now(fut.arg) >= Floor /\ Owed(fut.arg, Floor) = 0
  /\ LET written == IF Replaying THEN log ELSE Append(log, Entry("Timer", fut.arg, Now(fut.arg)))
         fired == [written EXCEPT ![Len(written)].outcome = "Fired"]
     IN  /\ IF Replaying THEN Matches("Timer", fut.arg) /\ Recorded.outcome = "Open" ELSE ~Full
         /\ \/ log' = fired /\ stop' = "None" /\ Goes /\ UNCHANGED alarm
            \/ log' \in {written, fired} /\ stop' = "Failed" /\ Sleeps /\ UNCHANGED <<fut, alarm>>
  /\ pos' = pos + 1 /\ armed' = NoArg
  /\ UNCHANGED <<pending, ctx, clocks>>

\* remeasure_open_timer: the same deadline, asked again in the same boot.
WaitsAgain ==
  /\ Polls({"timer"}) /\ lastWait' = fut.arg
  /\ stop = "WaitingUntil" /\ armed.spec = fut.arg
  /\ UNCHANGED <<pos, pending, ctx, clocks>>

Remeasures ==
  /\ WaitsAgain /\ UNCHANGED log
  /\ Remains(armed.spec, armed.floor) \/ Unmeasured

RemeasureFires ==
  /\ WaitsAgain
  /\ Now(armed.spec) >= armed.floor /\ Owed(armed.spec, armed.floor) = 0
  /\ armed' = NoArg /\ UNCHANGED alarm
  /\ \/ Answers("Fired") /\ stop' = "None" /\ Goes
     \/ (UNCHANGED log \/ Answers("Fired")) /\ stop' = "Failed" /\ Sleeps /\ UNCHANGED fut
-----------------------------------------------------------------------------
(* ContinueFuture::poll and TerminalFuture::poll                           *)

\* Context::continue_as_new: allowed at a boundary, or where there was no room
\* for one.  The next run's history is empty.
Continues ==
  /\ Polls({"continue"})
  /\ lastWait' = NoArg /\ closed' = "Continued"
  /\ \/ /\ stop \notin {"None", "NearCapacity"}
        /\ UNCHANGED <<log, pos, stop>>
     \/ /\ stop \in {"None", "NearCapacity"}
        /\ \/ pending # 0 /\ stop' = "EffectOutstanding" /\ UNCHANGED <<log, pos>>
           \/ /\ pending = 0 /\ ~Replaying /\ stop' = "Migrated"
              /\ log' = <<>> /\ pos' = 0
           \/ pending = 0 /\ stop' = "Failed" /\ UNCHANGED <<log, pos>>
  /\ Sleeps /\ UNCHANGED <<pending, armed, out, unserviceable, fut, alarm, clocks>>

\* The ending is recorded in Ctx alone; one too wide for the buffer is refused.
Concludes(fits) ==
  /\ Polls({"complete", "fail"})
  /\ closed' = IF ~fits THEN "Refused" ELSE IF fut.kind = "fail" THEN "Failed" ELSE "Completed"
  /\ out' = IF fits THEN fut.kind ELSE out
  /\ Sleeps /\ UNCHANGED <<log, context, unserviceable, fut, alarm, clocks>>
-----------------------------------------------------------------------------
(* The workflow, the executor and the board                                *)

\* The workflow drops the future it holds, if any, and makes another.
Makes(kind, arg) ==
  /\ at = "Running"
  /\ fut' = [kind |-> kind, arg |-> arg, stage |-> "Scheduling"]
  /\ awake' = TRUE
  /\ UNCHANGED <<log, at, progress, context, ctx, alarm, clocks>>

Make ==
  \/ \E a \in Activities : Makes("activity", a)
  \/ \E s \in Specs : Makes("timer", s)
  \/ \E kind \in Kinds \ {"activity", "timer"} : Makes(kind, NoArg)

\* What a boot tells the driver: the recorded ending, whatever the workflow's
\* future came to; else what that came to, if no effect is stranded.
BadConclusion(polled) ==
  IF closed \in {"Completed", "Failed"} THEN closed
  ELSE IF polled = "Pending" \/ unserviceable THEN "Suspended" ELSE polled

Conclusion(polled) ==
  IF closed \in {"Completed", "Failed"} THEN closed
  ELSE IF closed = "Refused" \/ polled = "Pending" \/ unserviceable THEN "Suspended"
  ELSE polled

\* The terminal record, with the bytes the buffer holds for it.
Ending(outcome) ==
  [type |-> "Terminal", armedAt |-> 0, outcome |-> outcome,
   arg |-> IF closed = outcome THEN out ELSE "empty"]

\* Context::conclude, from why the run stopped to the terminal record.
Concluded(ended) ==
  \/ stop # "None" /\ progress' = stop /\ UNCHANGED log
  \/ /\ stop = "None" /\ pending # 0 /\ UNCHANGED log
     /\ progress' = IF ended = "Suspended" THEN "Waiting" ELSE "EffectOutstanding"
  \/ /\ stop = "None" /\ pending = 0 /\ UNCHANGED log
     /\ \/ ended = "Suspended" /\ progress' = "Failed"
        \/ /\ ended # "Suspended" /\ Replaying
           /\ progress' = IF Recorded.type = "Terminal" THEN "Finished" ELSE "Failed"
  \/ /\ stop = "None" /\ pending = 0 /\ ended # "Suspended" /\ ~Replaying
     /\ \/ log' = Append(log, Ending(ended)) /\ progress' = "Finished"
        \/ log' \in {log, Append(log, Ending(ended))} /\ progress' = "Failed"

Off ==
  /\ at' = "Down"
  /\ pos' = 0 /\ stop' = "None" /\ pending' = 0 /\ armed' = NoArg /\ lastWait' = NoArg
  /\ closed' = "None" /\ out' = "empty" /\ unserviceable' = FALSE
  /\ fut' = NoFuture /\ alarm' = NoArg /\ awake' = FALSE

\* The workflow's own future was polled for the last time in this boot.
EndBoot(polled) ==
  /\ at = "Running" /\ Concluded(Conclusion(polled)) /\ Off /\ UNCHANGED clocks

\* Memory goes, and the boot clock starts again.
Reset ==
  /\ at = "Running" /\ progress' = "Reset" /\ Off
  /\ clocks' = [clocks EXCEPT !["AfterBoot"] = 0] /\ UNCHANGED log

Boot ==
  /\ at = "Down" /\ at' = "Running" /\ awake' = TRUE /\ progress' = "None"
  /\ UNCHANGED <<log, context, ctx, fut, alarm, clocks>>

\* The waker is called: by the countdown, early or in time, or by a row.
Ring ==
  /\ alarm # NoArg /\ alarm' = NoArg /\ awake' = TRUE
  /\ UNCHANGED <<log, at, progress, context, ctx, fut, clocks>>

RowWakes ==
  /\ at = "Running" /\ fut.kind = "activity" /\ awake' = TRUE
  /\ UNCHANGED <<log, at, progress, context, ctx, fut, alarm, clocks>>

\* A clock runs as far as the open timer it measures takes, within its bound.
OpenTimers ==
  {i \in {Len(log)} \ {0} : log[i].type = "Timer" /\ log[i].outcome = "Open"}
Latest(clock) ==
  IF \E i \in OpenTimers : log[i].arg.clock = clock
    THEN log[Len(log)].arg.deadline
           + (IF clock = "AfterBoot" THEN log[Len(log)].armedAt ELSE 0)
    ELSE Early

\* Time passes on a clock, and on a countdown in its unit.
Tick(clock) ==
  /\ clocks[clock] < Latest(clock) /\ clocks[clock] < Ticks
  /\ clocks' = [clocks EXCEPT ![clock] = @ + 1]
  /\ alarm' = IF alarm # NoArg /\ alarm.clock = clock /\ alarm.left > 0
                THEN [alarm EXCEPT !.left = @ - 1] ELSE alarm
  /\ UNCHANGED <<log, at, progress, context, ctx, fut, awake>>

\* The persistent clock is set back.
ClockBack ==
  /\ \E t \in 0 .. clocks["AtPersistentTime"] - 1 :
       clocks' = [clocks EXCEPT !["AtPersistentTime"] = t]
  /\ UNCHANGED <<log, at, progress, context, ctx, fut, alarm, awake>>
-----------------------------------------------------------------------------
Init ==
  /\ log = <<>> /\ at = "Down" /\ progress = "None"
  /\ pos = 0 /\ stop = "None" /\ pending = 0 /\ armed = NoArg /\ lastWait = NoArg
  /\ closed = "None" /\ out = "empty" /\ unserviceable = FALSE
  /\ fut = NoFuture /\ alarm = NoArg /\ awake = FALSE
  /\ clocks = [AfterBoot |-> 0, AtPersistentTime |-> 0]

Poll ==
  \/ IgnoredPoll
  \/ ScheduleHalts \/ ScheduleReplays \/ ScheduleDispatches
  \/ DispatchPends \/ DispatchUnserviceable \/ DispatchAnswers
  \/ WaitHalts \/ WaitReplays \/ WaitMeasures \/ WaitFires \/ Remeasures \/ RemeasureFires
  \/ Continues \/ \E fits \in BOOLEAN : Concludes(fits)

Next ==
  \/ Poll \/ Make \/ Boot \/ Reset
  \/ \E polled \in {"Pending", "Completed", "Failed"} : EndBoot(polled)
  \/ Ring \/ RowWakes \/ ClockBack
  \/ \E clock \in Clocks : Tick(clock)

Spec == Init /\ [][Next]_vars

\* A task that was woken is polled, time passes and a countdown rings.
Fairness ==
  /\ WF_vars(awake /\ Poll)
  /\ \A clock \in Clocks : WF_vars(Tick(clock))
  /\ WF_vars(alarm # NoArg /\ alarm.left = 0 /\ Ring)
FairSpec == Spec /\ Fairness
-----------------------------------------------------------------------------
(* Properties                                                              *)

\* Once a run is closed, no future made or polled later in the boot writes the
\* history or the buffer, takes back the decision, or reaches the driver: the
\* ending a caller reads is the first one the workflow reached, whatever it
\* dropped and polled afterwards (ctx.rs, TerminalFuture, "Why closed is
\* shared").
ConclusionIsFinal ==
  [][closed # "None" /\ at' = "Running" => UNCHANGED <<log, context, ctx>>]_vars

\* The effect a poll would ask the dispatcher for is the one the driver has
\* handed out: its record is the last of the history, it has no outcome, and
\* the run is not stopped.  So no future asks the world again for what was
\* answered, or for anything not on media (ctx.rs, Stage; architecture.md,
\* section 07).
AsksForTheOpenEffect ==
  fut.stage = "Dispatching" /\ ~Ignored =>
    /\ pending = Len(log) /\ pending # 0 /\ stop = "None"
    /\ log[pending] = Entry("Effect", fut.arg, 0)

\* A boot whose dispatcher cannot serve an effect waits: whatever the workflow
\* polls or returns afterwards, the driver is not asked for a second boundary
\* and the boot ends as Waiting, for other firmware to redeliver the effect
\* (ctx.rs, TimerFuture::unserviceable; ADR 0049).
UnserviceableWaits ==
  [][unserviceable /\ at' = "Down" => progress' \in {"Waiting", "Reset"}]_vars

\* The terminal record is the ending the workflow recorded, with its own bytes;
\* a run that asked for an ending too wide for the buffer, or has an effect
\* nobody serves, gets none, and only a run that recorded no ending is given
\* one by what its future returned (ctx.rs, Conclusion).
EndingIsTheOneAsked ==
  [][\A i \in 1 .. Len(log') :
       i > Len(log) /\ log'[i].type = "Terminal" =>
         \/ closed = "Completed" /\ log'[i] = [Ending("Completed") EXCEPT !.arg = "complete"]
         \/ closed = "Failed" /\ log'[i] = [Ending("Failed") EXCEPT !.arg = "fail"]
         \/ closed \in {"None", "Continued"} /\ ~unserviceable /\ pending = 0]_vars

\* The wake-up a poll arms is for the deadline it polled, which the run's last
\* record leaves open, after what is owed of it: never for that of a timer the
\* workflow has dropped (drive.rs, last_wait).
WakesForItsOwnDeadline ==
  [][alarm' # alarm /\ alarm' # NoArg /\ clocks' = clocks =>
       /\ log' # <<>> /\ log'[Len(log')].arg = fut.arg /\ log'[Len(log')].outcome = "Open"
       /\ alarm'.clock = fut.arg.clock
       /\ alarm'.left = Owed(fut.arg, armed'.floor)]_vars

\* A timer the workflow keeps waiting for does not wait for ever: though it is
\* polled only when woken, it fires, or the boot ends, or the clock fails; early
\* and missed wake-ups and clocks that are set back postpone it at most
\* (alarm.rs, "What must not happen").
Waiting ==
  /\ at = "Running" /\ fut.kind = "timer" /\ ~Ignored
  /\ stop = "WaitingUntil" /\ armed.spec = fut.arg
  /\ Now(fut.arg) + Owed(fut.arg, armed.floor) <= Ticks
TimerWakes == (<>[][~ClockBack]_vars) => (Waiting ~> ~Waiting)
=============================================================================
