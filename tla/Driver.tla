------------------------------- MODULE Driver -------------------------------
(***************************************************************************)
(* The synchronous driver (waymaker-drive/src/drive.rs, effect.rs): it     *)
(* boots a run from its bank, replays the workflow against what the bank   *)
(* holds, and where history ends records what the workflow asks for before *)
(* the world is asked to do it.                                            *)
(*                                                                         *)
(* It drives the kernel of ReplayMachine.tla over a bank that keeps the    *)
(* promise of BankLog.tla, for a workflow that is a function of what it    *)
(* has been told.  Around it are the world that performs effects, the two  *)
(* clocks of a board, new firmware, failing devices, resets and power      *)
(* losses.  Which bank is booted is BankSwap.tla's; here a run has a bank  *)
(* and continue-as-new gives the next one an empty bank.                   *)
(*                                                                         *)
(* An operator whose name starts with Bad is a slip the properties must    *)
(* notice in the place of the operator it precedes.                        *)
(***************************************************************************)
EXTENDS Records

CONSTANTS
  WriteThrough,      \* what is readable is durable (BankLog)
  Program(_, _, _),  \* what the workflow does next: of run, version, observations
  LastRun,           \* u64::MAX, the last run identity
  Width(_),          \* frame::encoded_len: the bytes a record takes
  BankRoom,          \* Journal::room of an empty bank
  OutcomeBytes,      \* Reserve: the widest outcome, and the widest end
  TerminalBytes,
  Persistent,        \* the board has a persistent clock
  Oldest,            \* VersionRange::oldest
  Ticks,             \* bound on a clock's reading
  Early              \* the same, while no timer is open

ASSUME DriverAssumption ==
  /\ WriteThrough \in BOOLEAN /\ Persistent \in BOOLEAN
  /\ LastRun \in Nat /\ Oldest \in Versions /\ Deadlines \subseteq Nat
  /\ Ticks \in Nat /\ Early \in 0 .. Ticks /\ 0 .. Ticks \subseteq Readings

Answers(rec) == rec.type \in OutcomeTypes \cup {"TimerFired"}

\* The bounds the reserve was built from, and Reserve::for_layout's floor.
ASSUME ReserveAssumption ==
  /\ BankRoom \in Nat /\ OutcomeBytes \in Nat /\ TerminalBytes \in Nat
  /\ \A rec \in Records :
       /\ Width(rec) \in Nat
       /\ Answers(rec) => Width(rec) <= OutcomeBytes
       /\ rec.type \in TerminalTypes => Width(rec) <= TerminalBytes
  /\ \A start \in Records, schedule \in Records :
       start.type = "RunStarted" /\ OpensBoundary(schedule) =>
         Width(start) + Width(schedule) + 2 * OutcomeBytes + TerminalBytes <= BankRoom

VARIABLES
  log, firm, clean,  \* the bank: BankLog
  room,              \* Journal::room: the bytes left for records
  torn,              \* history: bytes spent on torn answers to the boundary opened last
  run, header,       \* the run it holds, and the version its header names
  waited,            \* history: how long the last record has been on media
  fw,                \* the version this firmware writes: VersionRange::current
  bootClock, rtc,    \* the board's clocks
  at,                \* where the driver stands
  source, pos,       \* Source, and how many records its scan has yielded
  cursor, phase, answer, accepted,   \* the replay machine
  version,           \* Context::recorded_version
  stop,              \* Context::stop
  hand,              \* the Dispatchable in hand or pending: its schedule record
  timer,             \* Context::armed: what a deadline is measured from, and the reading
  obs,               \* what the workflow has been told since it was started
  told,              \* history: the most it was ever told in this run
  performed          \* history: the schedule records of the effects performed

bank == <<log, firm, clean, room, torn, run, header, waited>>
world == <<fw, bootClock, rtc>>
kernel == <<cursor, phase, answer, accepted>>
scan == <<source, pos>>
ghosts == <<told, performed>>
vars == <<bank, world, at, scan, kernel, version, stop, hand, timer, obs, ghosts>>

Machine == INSTANCE ReplayMachine
Bank == INSTANCE BankLog WITH Recs <- Records
-----------------------------------------------------------------------------
Places == {"Down", "Opening", "Running", "Scheduling", "Answering", "Dispatching",
          "Performing", "Arming", "Firing", "Reading", "Measuring", "Marking", "Ending"}
Stops == {"None", "Failed", "NearCapacity", "Waiting", "WaitingUntil", "Finished",
          "Migrated", "EffectOutstanding", "NoEffectOutstanding", "HistoryContinues",
          "RunIdExhausted", "ClockUnavailable", "ClockWentBackwards"} \cup Machine!KernelErrors
NoTimer == [floor |-> 0, reading |-> 0]

Supported == Oldest .. fw
Wish == Program(run, version, obs)

\* The records the driver writes.
Started == [type |-> "RunStarted", seq |-> 0, arg |-> NoArg, val |-> fw]
Boundary(type, arg, val) == [type |-> type, seq |-> answer.seq, arg |-> arg, val |-> val]
Outcome(type, val) == [type |-> type, seq |-> cursor.open.seq, arg |-> NoArg, val |-> val]
Terminal(type, val) == [type |-> type, seq |-> 0, arg |-> NoArg, val |-> val]
-----------------------------------------------------------------------------
(* The bank                                                                *)

\* The redelivery slack is not owed.
BadExitBytesAfter(rec) ==
  IF rec.type \in TerminalTypes THEN 0
  ELSE IF OpensBoundary(rec) THEN OutcomeBytes + TerminalBytes
  ELSE TerminalBytes

\* Reserve::exit_bytes_after: what the run must still be able to write behind
\* the record; behind an open boundary, one answer that is torn besides.
ExitBytesAfter(rec) ==
  IF rec.type \in TerminalTypes THEN 0
  ELSE IF OpensBoundary(rec) THEN 2 * OutcomeBytes + TerminalBytes
  ELSE TerminalBytes

\* Reserve::admits, which every append passes first.
Admits(rec) == Width(rec) + ExitBytesAfter(rec) <= room

\* A record takes its bytes of the bank.
Fills(rec) ==
  /\ room' = room - Width(rec)
  /\ torn' = IF OpensBoundary(rec) THEN 0 ELSE torn

\* Append through both barriers: BankLog's Settle, Land and Settle.
Written(rec) ==
  /\ log' = Append(log, rec) /\ firm' = Len(log) + 1 /\ waited' = 0
  /\ Fills(rec) /\ UNCHANGED <<clean, run, header>>

\* An append one of whose device calls failed: nothing of the record is
\* there, or too little to read; or it is an answer whose body is there and
\* whose seal is not, which a scan passes over and whose bytes are gone; or
\* the record is there and no barrier said so.
Unwritten(rec) ==
  /\ \/ UNCHANGED <<log, waited, room, torn>> /\ firm' \in {firm, Len(log)} /\ clean' \in BOOLEAN
     \/ /\ Answers(rec) /\ UNCHANGED <<log, waited, clean>> /\ firm' \in {firm, Len(log)}
        /\ room' = room - Width(rec) /\ torn' = torn + Width(rec)
     \/ /\ log' = Append(log, rec) /\ waited' = 0
        /\ firm' = IF WriteThrough THEN Len(log) + 1 ELSE Len(log)
        /\ Fills(rec) /\ UNCHANGED clean
  /\ UNCHANGED <<run, header>>
-----------------------------------------------------------------------------
(* peek: the step history has next                                         *)

Offered == IF source = "Scanning" /\ pos < Len(log) THEN log[pos + 1] ELSE EndOfHistory

\* The scan yields a record or ends on erased media, or the writer is open.
Peekable ==
  \/ source = "Writing"
  \/ source = "Scanning" /\ (pos < Len(log) \/ clean)

\* A record leaves the scan; the end of history opens the writer.
Peeks ==
  /\ pos' = IF Offered = EndOfHistory THEN pos ELSE pos + 1
  /\ source' = IF Offered = EndOfHistory THEN "Writing" ELSE source
-----------------------------------------------------------------------------
(* Where the driver goes when a call has answered                          *)

Stands(where, why) == at' = where /\ stop' = why

\* The machine's answer is the one the caller goes on with, or stops the boot.
Follow(grant, where) ==
  \/ answer'.kind = grant /\ Stands(where, "None")
  \/ answer'.kind # grant /\ Stands("Running", answer'.kind)

\* A claim's two answers; any other stops the boot: an error, or the end of
\* the run found where the workflow asked for more.
Claimed(fresh, recorded) ==
  \/ answer'.kind \in {"Schedule", "Record"} /\ Stands(fresh, "None")
  \/ answer'.kind = "Recorded" /\ Stands(recorded, "None")
  \/ answer'.kind \notin {"Schedule", "Record", "Recorded"} /\ Stands("Running", answer'.kind)

\* The workflow is told what came of its boundary.
Observe(what, val) ==
  /\ obs' = Append(obs, [what |-> what, val |-> val])
  /\ told' = IF Len(obs') > Len(told) THEN obs' ELSE told
  /\ UNCHANGED performed

Untold == UNCHANGED <<obs, ghosts>>

Running == at = "Running" /\ stop = "None"
Claims(op) == Running /\ Wish.op = op /\ Peekable
-----------------------------------------------------------------------------
(* Boot                                                                    *)

\* The driver's memory, before and after a boot.
Blank ==
  /\ source' = "Taken" /\ pos' = 0
  /\ cursor' = [state |-> "BeforeRun", next |-> 0, open |-> NoRecord, error |-> "None"]
  /\ phase' = "Settled" /\ answer' = Machine!Fresh("None", 0) /\ accepted' = <<>>
  /\ version' = NoArg /\ stop' = "None" /\ hand' = NoRecord /\ timer' = NoTimer /\ obs' = <<>>

GoesDown == at' = "Down" /\ Blank /\ UNCHANGED <<bank, ghosts>>

(* Driver::boot: a scan over the bank's journal and a new machine.         *)
Boot ==
  /\ at = "Down"
  /\ at' = "Opening" /\ source' = "Scanning"
  /\ UNCHANGED <<bank, world, pos, kernel, version, stop, hand, timer, obs, ghosts>>

(* begin, of a run whose opening record the scan finds.                    *)
BeginRecorded ==
  /\ at = "Opening" /\ log # <<>>
  /\ \/ /\ log[1].val \in Supported
        /\ Machine!Advance(log[1]) /\ Peeks /\ Follow("Step", "Running")
        /\ version' = log[1].val
        /\ UNCHANGED <<bank, hand, timer, obs, ghosts>>
     \/ log[1].val \notin Supported /\ GoesDown
  /\ UNCHANGED world

(* begin, of a run that is new to its bank.                                *)
BeginFresh ==
  /\ at = "Opening" /\ log = <<>> /\ clean
  /\ \/ /\ header \in Supported /\ Admits(Started)
        /\ Written(Started) /\ Machine!Advance(Started) /\ Peeks /\ Follow("Step", "Running")
        /\ version' = fw
        /\ UNCHANGED <<hand, timer, obs, ghosts>>
     \/ header \notin Supported /\ GoesDown
  /\ UNCHANGED world

(* conclude, of a run that stopped: what was in memory goes.               *)
Conclude ==
  /\ at = "Running" /\ stop # "None"
  /\ GoesDown /\ UNCHANGED world
-----------------------------------------------------------------------------
(* Effects: Boundary::call, and schedule and resolve                       *)

\* decide: the machine is asked about the workflow's effect.
AskEffect ==
  /\ Claims("effect")
  /\ Machine!Intent(Wish.arg.kind, Wish.arg.input, Offered) /\ Peeks
  /\ Claimed("Scheduling", "Answering")
  /\ UNCHANGED <<bank, world, version, hand, timer>> /\ Untold

EffectScheduled == Boundary("EffectScheduled", Wish.arg, NoArg)

\* The journal is written with the effect already in the caller's hands.
BadSchedule ==
  /\ at = "Scheduling" /\ Admits(EffectScheduled)
  /\ (Written(EffectScheduled) \/ Unwritten(EffectScheduled))
  /\ Machine!Advance(EffectScheduled)
  /\ hand' = EffectScheduled /\ source' = "Spent" /\ Follow("Step", "Dispatching")
  /\ UNCHANGED <<world, pos, version, timer>> /\ Untold

\* scheduling, Effect::schedule: the writer goes into the effect in hand.
Schedule ==
  /\ at = "Scheduling" /\ Admits(EffectScheduled)
  /\ Written(EffectScheduled) /\ Machine!Advance(EffectScheduled)
  /\ hand' = EffectScheduled /\ source' = "Spent" /\ Follow("Step", "Dispatching")
  /\ UNCHANGED <<world, pos, version, timer>> /\ Untold

\* decide, second half: the outcome of an effect history has scheduled.
Answering ==
  /\ at = "Answering" /\ Peekable
  /\ Machine!Outcome(Offered) /\ Peeks
  /\ UNCHANGED <<bank, world, version, timer>>

\* The workflow is told that the effect completed, as it mostly does.
BadReplay ==
  /\ Answering
  /\ answer'.kind # "Redeliver" /\ Follow("Replayed", "Running")
  /\ IF answer'.kind = "Replayed" THEN Observe("EffectCompleted", answer'.val) ELSE Untold
  /\ UNCHANGED hand

\* History has the outcome, and the workflow is told it again.
Replay ==
  /\ Answering
  /\ answer'.kind # "Redeliver" /\ Follow("Replayed", "Running")
  /\ IF answer'.kind = "Replayed" THEN Observe(Offered.type, answer'.val) ELSE Untold
  /\ UNCHANGED hand

\* What history has scheduled goes out again, whatever follows it there.
BadRedeliver ==
  /\ at = "Answering" /\ Peekable
  /\ Machine!Outcome(EndOfHistory)
  /\ pos' = pos /\ source' = "Spent"
  /\ hand' = cursor.open /\ Follow("Redeliver", "Dispatching")
  /\ UNCHANGED <<bank, world, version, timer>> /\ Untold

\* History ends behind the schedule: Effect::redelivering, and no new record.
Redeliver ==
  /\ at = "Answering" /\ Peekable
  /\ Machine!Outcome(Offered) /\ answer'.kind = "Redeliver"
  /\ pos' = pos /\ source' = "Spent"
  /\ hand' = cursor.open /\ Follow("Redeliver", "Dispatching")
  /\ UNCHANGED <<bank, world, version, timer>> /\ Untold

\* Dispatchable::perform: the world is asked.
Perform ==
  /\ at = "Dispatching"
  /\ at' = "Performing" /\ performed' = performed \cup {hand}
  /\ UNCHANGED <<bank, world, scan, kernel, version, stop, hand, timer, obs, told>>

\* The world has no answer yet.
Pending ==
  /\ at = "Performing"
  /\ Stands("Running", "Waiting")
  /\ UNCHANGED <<bank, world, scan, kernel, version, hand, timer>> /\ Untold

\* The workflow is answered before the outcome is on media.
BadResolve(type, val) ==
  /\ at = "Performing" /\ Admits(Outcome(type, val))
  /\ (Written(Outcome(type, val)) \/ Unwritten(Outcome(type, val)))
  /\ Machine!Advance(Outcome(type, val))
  /\ hand' = NoRecord /\ source' = "Writing" /\ Follow("Step", "Running")
  /\ Observe(type, val)
  /\ UNCHANGED <<world, pos, version, timer>>

\* Dispatchable::resolve, from dispatch or record_answer: the outcome is on
\* media before the workflow is told it.  An answer too wide for the run's
\* bound is a failure without a payload, one of the outcomes here.
Resolve(type, val) ==
  /\ at = "Performing" /\ Admits(Outcome(type, val))
  /\ Written(Outcome(type, val)) /\ Machine!Advance(Outcome(type, val))
  /\ hand' = NoRecord /\ source' = "Writing" /\ Follow("Step", "Running")
  /\ Observe(type, val)
  /\ UNCHANGED <<world, pos, version, timer>>
-----------------------------------------------------------------------------
(* Timers: Boundary::wait                                                  *)

Now(spec) == IF spec.clock = "AfterBoot" THEN bootClock ELSE rtc

AskTimer ==
  /\ Claims("wait")
  /\ Machine!TimerIntent(Wish.arg, Persistent, Offered) /\ Peeks
  /\ Claimed("Arming", "Firing")
  /\ UNCHANGED <<bank, world, version, hand, timer>> /\ Untold

TimerScheduled == Boundary("TimerScheduled", Wish.arg, Now(Wish.arg))

\* arming: what the clock reads is recorded, and then the clock is read again.
Arm ==
  /\ at = "Arming" /\ Admits(TimerScheduled)
  /\ Written(TimerScheduled) /\ Machine!Advance(TimerScheduled) /\ Follow("Step", "Reading")
  /\ timer' = [floor |-> TimerScheduled.val, reading |-> 0]
  /\ UNCHANGED <<world, scan, version, hand>> /\ Untold

\* Every boot starts the interval again.
BadRearmedAt(spec, recorded) == Now(spec)

\* TimerSpec::rearmed_at: a boot clock below the recorded reading was reset.
RearmedAt(spec, recorded) ==
  IF spec.clock = "AfterBoot" /\ Now(spec) < recorded THEN Now(spec) ELSE recorded

\* decide_timer, of a timer that history has armed.
Fired ==
  /\ at = "Firing" /\ Peekable
  /\ Machine!TimerOutcome(Offered) /\ Peeks
  /\ answer'.kind # "Rearm" /\ Follow("Fired", "Running")
  /\ IF answer'.kind = "Fired" THEN Observe("Passed", NoArg) ELSE Untold
  /\ UNCHANGED <<bank, world, version, hand, timer>>

Rearm ==
  /\ at = "Firing" /\ Peekable
  /\ Machine!TimerOutcome(Offered) /\ Peeks
  /\ Follow("Rearm", "Measuring") /\ answer'.kind = "Rearm"
  /\ timer' = [floor |-> RearmedAt(cursor.open.arg, answer'.val),
               reading |-> Now(cursor.open.arg)]
  /\ UNCHANGED <<bank, world, version, hand>> /\ Untold

\* A waiting workflow is polled again: remeasure_open_timer.
PollAgain ==
  /\ at = "Running" /\ stop = "WaitingUntil"
  /\ Wish = [op |-> "wait", arg |-> cursor.open.arg]
  /\ Stands("Reading", "None")
  /\ UNCHANGED <<bank, world, scan, kernel, version, hand, timer>> /\ Untold

Read ==
  /\ at = "Reading"
  /\ at' = "Measuring"
  /\ timer' = [timer EXCEPT !.reading = Now(cursor.open.arg)]
  /\ UNCHANGED <<bank, world, scan, kernel, version, stop, hand>> /\ Untold

\* An interval is taken for an instant.
BadElapsed == timer.reading >= cursor.open.arg.deadline

\* Timer::evaluate: an interval from where the timer was armed, or an instant.
Elapsed ==
  LET due == cursor.open.arg.deadline
  IN  IF cursor.open.arg.clock = "AfterBoot" THEN timer.reading - timer.floor >= due
                                             ELSE timer.reading >= due

\* measure, of a deadline that has not passed, or a clock that moved back.
NotYet ==
  /\ at = "Measuring"
  /\ \/ timer.reading < timer.floor /\ Stands("Running", "ClockWentBackwards")
     \/ timer.reading >= timer.floor /\ ~Elapsed /\ Stands("Running", "WaitingUntil")
  /\ UNCHANGED <<bank, world, scan, kernel, version, hand, timer>> /\ Untold

TimerFired == Outcome("TimerFired", NoArg)
Passes == at = "Measuring" /\ timer.reading >= timer.floor /\ Elapsed

Fire ==
  /\ Passes /\ Admits(TimerFired)
  /\ Written(TimerFired) /\ Machine!Advance(TimerFired) /\ Follow("Step", "Running")
  /\ timer' = NoTimer /\ Observe("Passed", NoArg)
  /\ UNCHANGED <<world, scan, version, hand>>
-----------------------------------------------------------------------------
(* Version gates: Boundary::gate                                           *)

AskGate ==
  /\ Claims("gate")
  /\ Machine!VersionIntent(Wish.arg, Oldest, fw, Offered) /\ Peeks
  /\ Claimed("Marking", "Running")
  /\ IF answer'.kind = "Recorded" THEN Observe("Branch", answer'.val) ELSE Untold
  /\ UNCHANGED <<bank, world, version, hand, timer>>

VersionMarker == Boundary("VersionMarker", Wish.arg, fw)

Mark ==
  /\ at = "Marking" /\ Admits(VersionMarker)
  /\ Written(VersionMarker) /\ Machine!Advance(VersionMarker) /\ Follow("Step", "Running")
  /\ Observe("Branch", fw)
  /\ UNCHANGED <<world, scan, version, hand, timer>>

-----------------------------------------------------------------------------
(* The end of a run                                                        *)

\* conclude: the workflow has ended, and so has history, or it goes on.
Return ==
  /\ Claims("return") /\ Peeks
  /\ \/ /\ Offered = EndOfHistory
        /\ Machine!Advance(Terminal(Wish.arg, Wish.val)) /\ Follow("Step", "Ending")
     \/ /\ Offered.type \in TerminalTypes
        /\ Machine!Advance(Offered)
        /\ Stands("Running", IF answer'.kind # "Step" THEN answer'.kind
                             ELSE IF pos' = Len(log) THEN "Finished" ELSE "HistoryContinues")
     \/ /\ Offered # EndOfHistory /\ Offered.type \notin TerminalTypes
        /\ Stands("Running", "HistoryContinues") /\ UNCHANGED kernel
  /\ UNCHANGED <<bank, world, version, hand, timer>> /\ Untold

\* The terminal record is written once the machine has taken it.
End ==
  /\ at = "Ending" /\ Admits(accepted[Len(accepted)])
  /\ Written(accepted[Len(accepted)]) /\ Stands("Running", "Finished")
  /\ UNCHANGED <<world, scan, kernel, version, hand, timer>> /\ Untold

\* The record the driver is about to write where it stands.
Due(rec) ==
  \/ at = "Opening" /\ log = <<>> /\ clean /\ header \in Supported /\ rec = Started
  \/ at = "Scheduling" /\ rec = EffectScheduled
  \/ at = "Performing" /\ \E type \in OutcomeTypes, val \in Payloads : rec = Outcome(type, val)
  \/ at = "Arming" /\ rec = TimerScheduled
  \/ Passes /\ rec = TimerFired
  \/ at = "Marking" /\ rec = VersionMarker
  \/ at = "Ending" /\ rec = accepted[Len(accepted)]

\* Reserved::stage refuses it, nothing is written, and the boot stops: for the
\* workflow to go on as a new run, or at once where the workflow has not begun
\* or has ended.  An effect whose outcome was refused is in no hand any more.
Refused ==
  /\ \E rec \in Records : ~Admits(rec) /\ Due(rec)
  /\ IF at \in {"Opening", "Ending"}
       THEN GoesDown
       ELSE /\ Stands("Running", "NearCapacity")
            /\ source' = IF at \in {"Scheduling", "Performing"} THEN "Spent" ELSE source
            /\ hand' = IF at = "Performing" THEN NoRecord ELSE hand
            /\ UNCHANGED <<bank, pos, kernel, version, timer>> /\ Untold
  /\ UNCHANGED world

\* The other bank holds the next run (BankSwap.tla).
Swapped ==
  /\ log' = <<>> /\ firm' = 0 /\ clean' = TRUE /\ waited' = 0
  /\ room' = BankRoom /\ torn' = 0
  /\ run' = run + 1 /\ header' = fw
  /\ told' = <<>> /\ performed' = {}

\* continue_as_new: asked for, or in answer to a refusal for want of room,
\* whatever it was that was refused.
MayContinue ==
  /\ at = "Running" /\ stop \in {"None", "NearCapacity"}
  /\ stop = "None" => Wish.op = "continue"

\* nothing_follows: damage behind the last record is no record.
NothingFollows == source # "Scanning" \/ pos = Len(log)

\* swap_in.
ContinueAsNew ==
  /\ MayContinue
  /\ \/ /\ ~NothingFollows /\ Stands("Running", "HistoryContinues")
        /\ UNCHANGED <<bank, scan>> /\ Untold
     \/ /\ NothingFollows /\ run = LastRun /\ Stands("Running", "RunIdExhausted")
        /\ UNCHANGED <<bank, scan>> /\ Untold
     \/ /\ NothingFollows /\ run < LastRun /\ Stands("Running", "Migrated")
        /\ Swapped /\ source' = "Taken" /\ pos' = 0 /\ obs' = <<>>
  /\ UNCHANGED <<world, kernel, version, hand, timer>>
-----------------------------------------------------------------------------
(* What goes wrong                                                         *)

\* A failed write is tried again with the writer it failed on.
BadWriteFails ==
  /\ at = "Scheduling" /\ Admits(EffectScheduled) /\ Unwritten(EffectScheduled)
  /\ UNCHANGED <<world, at, scan, kernel, version, stop, hand, timer, obs, ghosts>>

\* A write of the driver's fails: the boot is over, and the writer with it.
WriteFails ==
  /\ \E rec \in Records : Due(rec) /\ Admits(rec) /\ Unwritten(rec)
  /\ at' = "Down" /\ Blank /\ UNCHANGED <<world, ghosts>>

\* A scan meets damage, or a read or a clock fails.
ReadFails ==
  /\ \/ at \in {"Opening", "Answering", "Arming", "Firing", "Reading"}
     \/ Running
  /\ GoesDown /\ UNCHANGED world

\* A swap fails, before or after the seal that decides it: the call has
\* failed, the boot stops, and which run is booted next is the bank's to say.
SwapFails ==
  /\ MayContinue /\ NothingFollows /\ run < LastRun
  /\ Stands("Running", "Failed") /\ source' = "Taken" /\ pos' = 0 /\ obs' = <<>>
  /\ Swapped \/ UNCHANGED <<bank, ghosts>>
  /\ UNCHANGED <<world, kernel, version, hand, timer>>

\* A boundary is asked for, or the workflow ends, with an effect handed out;
\* or an answer is brought for none.
Misused ==
  /\ \/ at = "Performing" /\ Stands("Running", "EffectOutstanding")
     \/ Running /\ Stands("Running", "NoEffectOutstanding")
  /\ UNCHANGED <<bank, world, scan, kernel, version, hand, timer>> /\ Untold

\* A watchdog: memory goes, and the boot clock starts again.
Reset ==
  /\ GoesDown
  /\ bootClock' = 0 /\ UNCHANGED <<fw, rtc>>

\* What no barrier covered may be erased again or, behind a body that is
\* there, stay spent.
PowerLoss ==
  /\ at' = "Down" /\ Blank
  /\ Bank!PowerLoss
  /\ LET loose == torn + IF log' = log THEN 0 ELSE Width(log[Len(log)])
     IN  /\ torn' \in (IF WriteThrough THEN torn ELSE 0) .. loose
         /\ room' = room + loose - torn'
  /\ bootClock' = 0
  /\ UNCHANGED <<run, header, waited, fw, rtc, ghosts>>

\* The persistent clock is set back.
ClockBack ==
  /\ rtc' \in 0 .. rtc /\ rtc' # rtc
  /\ UNCHANGED <<bank, fw, bootClock, at, scan, kernel, version, stop, hand, timer, obs, ghosts>>

\* Other firmware is installed between two boots.
Update ==
  /\ at = "Down" /\ fw' \in Versions
  /\ UNCHANGED <<bank, bootClock, rtc, at, scan, kernel, version, stop, hand, timer, obs, ghosts>>

\* Time passes, up to a bound that leaves an open timer the time it takes.
TimerIsOpen == log # <<>> /\ log[Len(log)].type = "TimerScheduled"
Latest == IF TimerIsOpen THEN Ticks ELSE Early

Tick ==
  /\ bootClock < Latest \/ rtc < Latest
  /\ bootClock' = IF bootClock < Latest THEN bootClock + 1 ELSE bootClock
  /\ rtc' = IF rtc < Latest THEN rtc + 1 ELSE rtc
  /\ waited' = IF TimerIsOpen /\ waited < Ticks THEN waited + 1 ELSE waited
  /\ UNCHANGED <<log, firm, clean, room, torn, run, header, fw, at, scan, kernel, version, stop, hand, timer, obs, ghosts>>
-----------------------------------------------------------------------------
Init ==
  /\ log = <<>> /\ firm = 0 /\ clean = TRUE /\ run = 0 /\ waited = 0
  /\ room = BankRoom /\ torn = 0
  /\ fw \in Versions /\ header = fw
  /\ bootClock = 0 /\ rtc = 0
  /\ at = "Down" /\ source = "Taken" /\ pos = 0
  /\ Machine!Init
  /\ version = NoArg /\ stop = "None" /\ hand = NoRecord /\ timer = NoTimer /\ obs = <<>>
  /\ told = <<>> /\ performed = {}

Drive ==
  \/ Boot \/ BeginRecorded \/ BeginFresh \/ Conclude
  \/ AskEffect \/ Schedule \/ Replay \/ Redeliver \/ Perform
  \/ AskTimer \/ Arm \/ Fired \/ Rearm \/ PollAgain \/ Read \/ NotYet \/ Fire
  \/ AskGate \/ Mark \/ Refused
  \/ Return \/ End \/ ContinueAsNew

Resolves == \E type \in OutcomeTypes, val \in Payloads : Resolve(type, val)

Fault ==
  \/ WriteFails \/ ReadFails \/ SwapFails \/ Misused
  \/ Reset \/ PowerLoss \/ ClockBack \/ Update

Next == Drive \/ Resolves \/ Pending \/ Tick \/ Fault

Spec == Init /\ [][Next]_vars

\* The device is booted again and again and time passes; the world answers in
\* the end, whether there is room for its answer or not; and a workflow that is
\* refused room again and again asks for a new run in the end.
Fairness ==
  /\ WF_vars(Drive) /\ WF_vars(Tick)
  /\ SF_vars(Resolves \/ Refused) /\ SF_vars(ContinueAsNew)
FairSpec == Spec /\ Fairness
-----------------------------------------------------------------------------
(* Properties                                                              *)

\* Every variable has the type its Rust counterpart has.
TypeOK ==
  /\ log \in Seq(Records) /\ firm \in 0 .. Len(log) /\ clean \in BOOLEAN
  /\ room \in Nat /\ torn \in Nat
  /\ run \in 0 .. LastRun /\ header \in Versions /\ fw \in Versions
  /\ bootClock \in 0 .. Ticks /\ rtc \in 0 .. Ticks /\ waited \in 0 .. Ticks
  /\ at \in Places /\ stop \in Stops
  /\ source \in {"Taken", "Scanning", "Writing", "Spent"} /\ pos \in 0 .. Len(log)
  /\ Machine!TypeOK
  /\ version \in Versions \cup {NoArg}
  /\ hand \in Steps
  /\ timer \in [floor : 0 .. Ticks, reading : 0 .. Ticks]
  /\ performed \subseteq Records

\* An effect that was ever performed has its schedule record where no power
\* loss can take it, under the same identity and for the same request, through
\* every crash and redelivery (effect.rs, "the intent is durable before the
\* dispatch"; docs/architecture.md, section 07).
PerformedIsScheduled ==
  \A e \in performed : \E i \in 1 .. firm : log[i] = e

\* The effect in the driver's hands is the one boundary history leaves open:
\* an effect whose outcome is on media is never performed again, and the
\* outcome that is about to be written answers the last schedule record.
HandIsTheOpenEffect ==
  hand # NoRecord /\ at \in {"Dispatching", "Performing"} =>
    log # <<>> /\ log[Len(log)] = hand /\ hand.type = "EffectScheduled"

\* Whatever failed, and whatever firmware runs it, a workflow is told the same
\* things in the same order each time it is started in a run; so what it was
\* told was on media first (boundary.rs, resolve and gate; README, "replays").
ReplayIsStable ==
  /\ Len(obs) <= Len(told)
  /\ \A i \in 1 .. Len(obs) : obs[i] = told[i]

\* A workflow that is a function of what it was told is never found to be
\* another one, and the history the driver writes is never found malformed,
\* nor a driver call out of turn (transition.rs, replay.rs).
NeverDiverges ==
  stop \notin {"NondeterministicWorkflow", "MalformedHistory", "HistoryContinues"}

\* Take away the boots, and what is left on a write-through device is the
\* workflow run by a machine whose memory never fails: through every crash,
\* failed write and redelivery the bank goes from one record to the next only
\* as that machine would, each record is what the workflow asks for there, no
\* run is left before its time, nothing is taken back, and a boundary is given
\* up only when more of its answers were lost than the reserve allows for
\* (README, "durable execution"; docs/architecture.md, section 08;
\* capacity.rs, exit_bytes_after).
Unbroken == INSTANCE Execution WITH history <- log, lost <- torn, Allowance <- OutcomeBytes
ImplementsExecution == Unbroken!Spec

\* A timer fires no earlier than it was asked to: a persistent deadline not
\* before the clock read its instant, a boot interval not before that much
\* time went by since it was armed, whichever boots it went by in and wherever
\* the boot clock started again (timer.rs, rearmed_at and evaluate).
TimersNeverEarly ==
  [][\A i \in 1 .. Len(log') :
       i = Len(log) + 1 /\ log'[i].type = "TimerFired" =>
         LET spec == log[Len(log)].arg
         IN  IF spec.clock = "AfterBoot" THEN waited >= spec.deadline
                                         ELSE timer.reading >= spec.deadline]_log

\* No live call gives an effect up: the swap "forfeits an effect's identity on
\* purpose only when a *crash* leaves one behind -- never as the ordinary answer
\* to a live call" (drive.rs:2459).
NoEffectForfeited ==
  [][run' # run => log = <<>> \/ log[Len(log)].type # "EffectScheduled"]_run

\* One torn answer never costs a run its boundary: what is open when a run is
\* left for the next one had more bytes torn than the widest outcome takes,
\* which is what the reserve sets aside for it, across every boot the answers
\* were tried in (capacity.rs, exit_bytes_after and for_layout, "a single torn
\* outcome write can permanently strand the run").
OneTornAnswerIsSpared ==
  [][run' # run => \/ log = <<>> \/ ~OpensBoundary(log[Len(log)])
                   \/ torn > OutcomeBytes]_run

\* Once faults stop, a run comes to its end, unless its bank was damaged or
\* the firmware left on the board cannot replay it; or else there is no room
\* left in the last run there is, and it is told so for ever (README,
\* "finishes").
Ended ==
  \/ log # <<>> /\ log[Len(log)].type \in TerminalTypes
  \/ ~clean
  \/ header \notin Supported
  \/ \E i \in 1 .. Len(log) : log[i].type \in {"RunStarted", "VersionMarker"}
                              /\ log[i].val \notin Supported
RunEnds == (<>[][~Fault]_vars) => (<>[]Ended) \/ []<>(stop = "RunIdExhausted")
=============================================================================
