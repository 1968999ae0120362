---------------------------- MODULE Driver_proofs ----------------------------
(***************************************************************************)
(* What the driver promises, for every workflow that asks within its       *)
(* vocabulary, every number of runs and records and every order of         *)
(* faults.                                                                 *)
(*                                                                         *)
(* The argument has four parts.  Whatever the driver does, a step does     *)
(* one of five things to the bank (BankStep): it writes a record that      *)
(* history allows and whose time has come, keeps the bank, swaps it for    *)
(* the next run's, cuts it back at a power loss, or turns a clock or the   *)
(* firmware. That much keeps BankInv.                                      *)
(*                                                                         *)
(* And where the driver stands within a call, the replay machine stands    *)
(* with it (Placed): what the machine consumed is what the bank holds up   *)
(* to the scan, and a boundary is granted, open or settled in the one      *)
(* exactly when it is in the other.  Memory follows from each action,      *)
(* call by call; the machine's own lemmas are cited through Kernel.        *)
(*                                                                         *)
(* Then comes the workflow (Faithful): what the bank holds is a story that *)
(* the workflow itself asked for, record by record, and what a boot tells  *)
(* it is the tale of that story up to the scan.  So it asks for the same   *)
(* things again and is told the same things again.                         *)
(*                                                                         *)
(* Last comes the room.  What a boundary was opened with is there or went  *)
(* into its torn answers (Reserved), so an answer is refused only once too *)
(* much was torn (Stranded); and so the bank, without the boots, goes the  *)
(* way of an execution in which an answer may be lost, and nothing else.   *)
(***************************************************************************)
EXTENDS Driver, Tales, TLAPS

Kernel == INSTANCE ReplayMachine_proofs
History == INSTANCE RunHistory WITH history <- log
-----------------------------------------------------------------------------
(* The kernel, as its own proofs know it                                   *)

\* The vocabulary is one and the same.
LEMMA Vocabulary ==
  /\ Kernel!Records = Records /\ Kernel!Steps = Steps /\ Kernel!Seqs = Seqs
  /\ Kernel!EndOfHistory = EndOfHistory /\ Kernel!NoRecord = NoRecord
  /\ Kernel!Specs = Specs /\ Kernel!Exhausted = Exhausted
  /\ Kernel!BoundaryTypes = BoundaryTypes /\ Kernel!OutcomeTypes = OutcomeTypes
  /\ Kernel!TerminalTypes = TerminalTypes
  /\ Kernel!KernelErrors = Machine!KernelErrors
  /\ \A r : Kernel!OpensBoundary(r) <=> OpensBoundary(r)
<1>1. /\ Kernel!BoundaryTypes = BoundaryTypes /\ Kernel!OutcomeTypes = OutcomeTypes
      /\ Kernel!TerminalTypes = TerminalTypes /\ Kernel!Seqs = Seqs
      /\ Kernel!Asks = Asks /\ Kernel!Specs = Specs
      /\ Kernel!EndOfHistory = EndOfHistory /\ Kernel!Exhausted = Exhausted
      /\ Kernel!KernelErrors = Machine!KernelErrors
  BY DEF Kernel!BoundaryTypes, BoundaryTypes, Kernel!OutcomeTypes, OutcomeTypes,
         Kernel!TerminalTypes, TerminalTypes, Kernel!Seqs, Seqs, Kernel!Asks, Asks,
         Kernel!Specs, Specs, Kernel!ClockKinds, ClockKinds,
         Kernel!EndOfHistory, EndOfHistory, Kernel!Exhausted, Exhausted,
         Kernel!KernelErrors, Machine!KernelErrors
<1>2. Kernel!Records = Records
  BY <1>1 DEF Kernel!Records, Records
<1> QED
  BY <1>1, <1>2 DEF Kernel!Steps, Steps, Kernel!NoRecord, NoRecord,
                    Kernel!OpensBoundary, OpensBoundary

\* And so are the machine's operations.
LEMMA SameMachine ==
  /\ \A r : Machine!Advance(r) => Kernel!Advance(r)
  /\ \A kind, input, step : Machine!Intent(kind, input, step) => Kernel!Intent(kind, input, step)
  /\ \A step : Machine!Outcome(step) => Kernel!Outcome(step)
  /\ \A spec, persistent, step :
       Machine!TimerIntent(spec, persistent, step) => Kernel!TimerIntent(spec, persistent, step)
  /\ \A step : Machine!TimerOutcome(step) => Kernel!TimerOutcome(step)
  /\ \A gate, oldest, current, step :
       Machine!VersionIntent(gate, oldest, current, step)
         => Kernel!VersionIntent(gate, oldest, current, step)
<1> USE DEF Machine!Halted, Kernel!Halted, Machine!Diverged, Kernel!Diverged,
      Machine!Divergences, Kernel!Divergences, Machine!Diverge, Kernel!Diverge,
      Machine!Refuse, Kernel!Refuse, Machine!Consume, Kernel!Consume,
      Machine!Halt, Kernel!Halt, Machine!Fresh, Kernel!Fresh, Machine!Answer, Kernel!Answer,
      Machine!Accepts, Kernel!Accepts, Machine!After, Kernel!After,
      Machine!StateAfter, Kernel!StateAfter, Machine!NextAfter, Kernel!NextAfter,
      Machine!HaltedAt, Kernel!HaltedAt, Machine!Refusal, Kernel!Refusal,
      Machine!ClaimRefused, Kernel!ClaimRefused, Machine!ClaimHeard, Kernel!ClaimHeard,
      Machine!Frontier, Kernel!Frontier, Machine!ForeignRecord, Kernel!ForeignRecord,
      Machine!BoundaryTypes, Machine!TerminalTypes, Machine!OutcomeTypes,
      Kernel!BoundaryTypes, Kernel!TerminalTypes, Kernel!OutcomeTypes,
      Machine!OpensBoundary, Kernel!OpensBoundary, Machine!NoRecord, Kernel!NoRecord,
      Machine!EndOfHistory, Kernel!EndOfHistory, Machine!Exhausted, Kernel!Exhausted
<1>1. \A r : Machine!Advance(r) => Kernel!Advance(r)
  BY DEF Machine!Advance, Kernel!Advance
<1>2. \A kind, input, step : Machine!Intent(kind, input, step) => Kernel!Intent(kind, input, step)
  BY DEF Machine!Intent, Kernel!Intent, Machine!RecordedEffect, Kernel!RecordedEffect,
         Machine!EffectDivergence, Kernel!EffectDivergence
<1>3. \A step : Machine!Outcome(step) => Kernel!Outcome(step)
  BY DEF Machine!Outcome, Kernel!Outcome
<1>4. \A spec, persistent, step :
        Machine!TimerIntent(spec, persistent, step) => Kernel!TimerIntent(spec, persistent, step)
  BY DEF Machine!TimerIntent, Kernel!TimerIntent, Machine!RecordedTimer, Kernel!RecordedTimer,
         Machine!Admits, Kernel!Admits
<1>5. \A step : Machine!TimerOutcome(step) => Kernel!TimerOutcome(step)
  BY DEF Machine!TimerOutcome, Kernel!TimerOutcome
<1>6. \A gate, oldest, current, step :
        Machine!VersionIntent(gate, oldest, current, step)
          => Kernel!VersionIntent(gate, oldest, current, step)
  BY DEF Machine!VersionIntent, Kernel!VersionIntent, Machine!RecordedGate, Kernel!RecordedGate
<1> QED
  BY <1>1, <1>2, <1>3, <1>4, <1>5, <1>6

\* What the kernel's proofs call typed is what the driver's type invariant says.
LEMMA SameTypes == Kernel!TypeOK <=> Machine!TypeOK
<1>1. /\ Kernel!Seqs = Machine!Seqs /\ Kernel!EndOfHistory = Machine!EndOfHistory
      /\ Kernel!OutcomeTypes = Machine!OutcomeTypes
      /\ Kernel!TerminalTypes = Machine!TerminalTypes
      /\ Kernel!Asks = Machine!Asks /\ Kernel!Specs = Machine!Specs
  BY DEF Kernel!Seqs, Machine!Seqs, Kernel!EndOfHistory, Machine!EndOfHistory,
         Kernel!OutcomeTypes, Machine!OutcomeTypes, Kernel!TerminalTypes, Machine!TerminalTypes,
         Kernel!Asks, Machine!Asks, Kernel!Specs, Machine!Specs,
         Kernel!ClockKinds, Machine!ClockKinds
<1>2. Kernel!Records = Machine!Records
  BY <1>1 DEF Kernel!Records, Machine!Records
<1>3. Kernel!Steps = Machine!Steps
  BY <1>1, <1>2 DEF Kernel!Steps, Machine!Steps
<1>4. /\ Kernel!States = Machine!States /\ Kernel!Divergences = Machine!Divergences
      /\ Kernel!Grants = Machine!Grants /\ Kernel!KernelErrors = Machine!KernelErrors
  BY DEF Kernel!States, Machine!States, Kernel!Divergences, Machine!Divergences,
         Kernel!Grants, Machine!Grants, Kernel!KernelErrors, Machine!KernelErrors
<1> QED
  BY <1>1, <1>2, <1>3, <1>4 DEF Kernel!TypeOK, Machine!TypeOK

\* What the kernel knows of the last record it consumed.
LEMMA Standing ==
  ASSUME Kernel!IInv
  PROVE  /\ accepted \in Seq(Records)
         /\ cursor.state = "BeforeRun" => accepted = <<>>
         /\ cursor.state \in {"Replaying", "AwaitingOutcome", "AwaitingTimer"} =>
              /\ accepted # <<>> /\ Len(accepted) \in 1 .. Len(accepted)
              /\ accepted[Len(accepted)] \in Records
         /\ cursor.state = "Replaying" =>
              /\ ~OpensBoundary(accepted[Len(accepted)])
              /\ accepted[Len(accepted)].type \notin TerminalTypes
         /\ cursor.state = "AwaitingOutcome" =>
              cursor.open = accepted[Len(accepted)] /\ cursor.open.type = "EffectScheduled"
         /\ cursor.state = "AwaitingTimer" =>
              cursor.open = accepted[Len(accepted)] /\ cursor.open.type = "TimerScheduled"
<1>1. accepted \in Seq(Records)
  BY Vocabulary DEF Kernel!IInv, Kernel!TypeOK
<1>2. cursor.state = "BeforeRun" => accepted = <<>>
  BY DEF Kernel!IInv, Kernel!CursorTracksHistory
<1>3. ASSUME cursor.state \in {"Replaying", "AwaitingOutcome", "AwaitingTimer"}
      PROVE  /\ accepted # <<>>
             /\ cursor.state = Kernel!StateAfter(accepted[Len(accepted)])
             /\ OpensBoundary(accepted[Len(accepted)]) => cursor.open = accepted[Len(accepted)]
  BY <1>3, Vocabulary DEF Kernel!IInv, Kernel!CursorTracksHistory, Kernel!LastAccepted
<1>4. ASSUME accepted # <<>>
      PROVE  Len(accepted) \in 1 .. Len(accepted) /\ accepted[Len(accepted)] \in Records
  BY <1>1, <1>4
<1>5. cursor.state = "Replaying" =>
        /\ ~OpensBoundary(accepted[Len(accepted)])
        /\ accepted[Len(accepted)].type \notin TerminalTypes
  BY <1>3, Vocabulary DEF Kernel!StateAfter, OpensBoundary, TerminalTypes
<1>6. cursor.state = "AwaitingOutcome" => accepted[Len(accepted)].type = "EffectScheduled"
  BY <1>3 DEF Kernel!StateAfter, Kernel!TerminalTypes
<1>7. cursor.state = "AwaitingTimer" => accepted[Len(accepted)].type = "TimerScheduled"
  BY <1>3 DEF Kernel!StateAfter, Kernel!TerminalTypes
<1> QED
  BY <1>1, <1>2, <1>3, <1>4, <1>5, <1>6, <1>7 DEF OpensBoundary
-----------------------------------------------------------------------------
(* What a call of the kernel can come to                                   *)

\* The call was refused, and the boot is over.
Refusing == answer'.kind \in Machine!KernelErrors

\* The call consumed a record its table accepts.
Consuming(r, grant, state, to) ==
  /\ answer'.kind = grant /\ r \in Records /\ Kernel!Accepts(cursor, r)
  /\ accepted' = Append(accepted, r)
  /\ cursor'.state = state /\ phase' = to
  /\ OpensBoundary(r) => cursor'.open = r

\* The call changed nothing but the answer.
Granting(grant) ==
  /\ answer'.kind = grant
  /\ UNCHANGED <<cursor, phase, accepted>>

\* What a consumed record makes of the cursor.
LEMMA ConsumedState ==
  ASSUME Kernel!IInv, NEW r, NEW grant, NEW to, Kernel!Consume(r, grant, to)
  PROVE  /\ Kernel!Accepts(cursor, r) /\ accepted' = Append(accepted, r)
         /\ cursor'.state = Kernel!StateAfter(r) /\ phase' = to /\ answer'.kind = grant
         /\ answer'.val = r.val
         /\ OpensBoundary(r) => cursor'.open = r
BY DEF Kernel!Consume, Kernel!Answer, Kernel!After, Kernel!IInv, Kernel!TypeOK,
       Kernel!OpensBoundary, OpensBoundary

\* A halt answers with one of the machine's errors.
LEMMA HaltRefuses ==
  ASSUME NEW r, Kernel!Halt(r)
  PROVE  Refusing
BY DEF Kernel!Halt, Kernel!Fresh, Kernel!Refusal, Refusing, Machine!KernelErrors

\* So do a refusal and a divergence.
LEMMA RefuseRefuses ==
  ASSUME NEW error \in Machine!KernelErrors, Kernel!Refuse(error)
  PROVE  Refusing
BY DEF Kernel!Refuse, Kernel!Fresh, Refusing

\* A divergence refuses too.
LEMMA DivergeRefuses ==
  ASSUME NEW d, Kernel!Diverge(d)
  PROVE  Refusing
BY DEF Kernel!Diverge, Kernel!Fresh, Refusing, Machine!KernelErrors

\* advance consumes the record it is given, or refuses; and a settled
\* machine whose cursor accepts the record does not refuse it.
LEMMA Advances ==
  ASSUME Kernel!IInv, NEW r \in Records, Machine!Advance(r)
  PROVE  /\ Kernel!IInv'
         /\ \/ Refusing
            \/ Consuming(r, "Step", Kernel!StateAfter(r), "Settled")
         /\ phase = "Settled" /\ Kernel!Accepts(cursor, r) =>
              Consuming(r, "Step", Kernel!StateAfter(r), "Settled")
<1>1. r \in Kernel!Records /\ Kernel!Advance(r)
  BY Vocabulary, SameMachine
<1>2. Kernel!SmallStep
  BY <1>1, Kernel!AdvanceIsSmall, MaxSeqAssumption, VersionsAssumption
<1>3. Kernel!IInv'
  BY <1>2, Kernel!SmallStepIInv, MaxSeqAssumption, VersionsAssumption
<1>4. ASSUME Kernel!Consume(r, "Step", "Settled")
      PROVE  Consuming(r, "Step", Kernel!StateAfter(r), "Settled")
  BY <1>4, ConsumedState DEF Consuming
<1>5. CASE Kernel!Halted /\ Kernel!Refuse(cursor.error)
  <2>1. cursor.error \in Machine!KernelErrors
    BY <1>5, Vocabulary DEF Kernel!IInv, Kernel!HaltHasError
  <2>2. Refusing
    BY <1>5, <2>1, RefuseRefuses
  <2>3. ~Kernel!Accepts(cursor, r)
    BY <1>5 DEF Kernel!Halted, Kernel!Accepts
  <2> QED BY <1>3, <2>2, <2>3
<1>6. CASE ~Kernel!Halted /\ phase # "Settled" /\ Kernel!Refuse("NondeterministicWorkflow")
  BY <1>3, <1>6, RefuseRefuses DEF Machine!KernelErrors
<1>7. CASE ~Kernel!Halted /\ phase = "Settled" /\ Kernel!Consume(r, "Step", "Settled")
  BY <1>3, <1>4, <1>7
<1>8. CASE ~Kernel!Halted /\ phase = "Settled" /\ Kernel!Halt(r)
  <2>1. Refusing
    BY <1>8, HaltRefuses
  <2>2. ~Kernel!Accepts(cursor, r)
    BY <1>8 DEF Kernel!Halt
  <2> QED BY <1>3, <2>1, <2>2
<1> QED BY <1>1, <1>5, <1>6, <1>7, <1>8 DEF Kernel!Advance


\* A claim is heard while the cursor replays and the machine is settled.
LEMMA Hears ==
  ASSUME cursor.state = "Replaying", phase = "Settled"
  PROVE  Kernel!ClaimHeard /\ ~Kernel!ClaimRefused
BY DEF Kernel!ClaimHeard, Kernel!ClaimRefused, Kernel!Halted, Kernel!Diverged, Kernel!Divergences

\* The end of history grants the next identity, or refuses for want of one.
LEMMA FrontierGrants ==
  ASSUME Kernel!IInv, NEW grant, Kernel!Frontier(grant)
  PROVE  \/ Refusing
         \/ Granting(grant) /\ answer'.seq = cursor.next /\ cursor.next \in Seqs
<1>1. ASSUME Kernel!Refuse("IdExhausted")
      PROVE  Refusing
  BY <1>1, RefuseRefuses DEF Machine!KernelErrors
<1>2. ASSUME cursor.next # Kernel!Exhausted
      PROVE  cursor.next \in Seqs
  BY <1>2, MaxSeqAssumption DEF Kernel!IInv, Kernel!TypeOK, Kernel!Exhausted, Seqs
<1> QED
  BY <1>1, <1>2 DEF Kernel!Frontier, Kernel!Fresh, Granting

\* A record no claim of its kind can match ends the boot.
LEMMA ForeignEnds ==
  ASSUME Kernel!IInv, NEW r, NEW own, Kernel!ForeignRecord(r, own)
  PROVE  Refusing \/ answer'.kind = "Finished"
BY HaltRefuses, DivergeRefuses, ConsumedState DEF Kernel!ForeignRecord

\* What a claim comes to: a grant where history ends, the record history has
\* of it, or the end of the boot.
Claiming(step, grant, own, state, to) ==
  \/ step = EndOfHistory /\ Granting(grant) /\ answer'.seq = cursor.next /\ cursor.next \in Seqs
  \/ Consuming(step, "Recorded", state, to) /\ step.type = own
  \/ Refusing \/ answer'.kind = "Finished"

\* Asking for an effect is such a claim.
LEMMA EffectClaim ==
  ASSUME Kernel!IInv, cursor.state = "Replaying", phase = "Settled",
         NEW kind \in Kinds, NEW input \in Inputs, NEW step \in Steps,
         Machine!Intent(kind, input, step)
  PROVE  /\ Kernel!IInv'
         /\ Claiming(step, "Schedule", "EffectScheduled", "AwaitingOutcome", "AwaitingOutcome")
<1>1. step \in Kernel!Steps /\ Kernel!Intent(kind, input, step)
  BY Vocabulary, SameMachine
<1>2. Kernel!SmallStep
  BY <1>1, Kernel!IntentIsSmall, MaxSeqAssumption, VersionsAssumption
<1>3. Kernel!IInv'
  BY <1>2, Kernel!SmallStepIInv, MaxSeqAssumption, VersionsAssumption
<1>4. CASE step = Kernel!EndOfHistory /\ Kernel!Frontier("Schedule")
  BY <1>3, <1>4, FrontierGrants, Vocabulary DEF Claiming
<1>5. CASE step.type = "EffectScheduled" /\ Kernel!RecordedEffect(kind, input, step)
  <2>1. CASE Kernel!Refuse("IdExhausted")
    BY <1>3, <2>1, RefuseRefuses DEF Claiming, Machine!KernelErrors
  <2>2. CASE \E d : Kernel!Diverge(d)
    BY <1>3, <2>2, DivergeRefuses DEF Claiming
  <2>3. CASE Kernel!Consume(step, "Recorded", "AwaitingOutcome")
    <3>1. step \in Records
      BY <1>5 DEF Steps, EndOfHistory
    <3>2. Consuming(step, "Recorded", "AwaitingOutcome", "AwaitingOutcome")
      BY <1>5, <2>3, <3>1, ConsumedState DEF Consuming, Kernel!StateAfter, Kernel!TerminalTypes
    <3> QED BY <1>3, <1>5, <3>2 DEF Claiming
  <2> QED BY <1>5, <2>1, <2>2, <2>3 DEF Kernel!RecordedEffect
<1>6. CASE Kernel!ForeignRecord(step, "EffectScheduled")
  BY <1>3, <1>6, ForeignEnds DEF Claiming
<1> QED BY <1>1, <1>4, <1>5, <1>6, Hears DEF Kernel!Intent

\* Asking for a timer is one.
LEMMA TimerClaim ==
  ASSUME Kernel!IInv, cursor.state = "Replaying", phase = "Settled",
         NEW spec \in Specs, NEW step \in Steps,
         Machine!TimerIntent(spec, Persistent, step)
  PROVE  /\ Kernel!IInv'
         /\ Claiming(step, "Schedule", "TimerScheduled", "AwaitingTimer", "AwaitingFiring")
<1>1. /\ step \in Kernel!Steps /\ spec \in Kernel!Specs
      /\ Kernel!TimerIntent(spec, Persistent, step)
  BY Vocabulary, SameMachine
<1>0. Persistent \in BOOLEAN
  BY DriverAssumption
<1>2. Kernel!SmallStep
  BY <1>0, <1>1, Kernel!TimerIntentIsSmall, MaxSeqAssumption, VersionsAssumption
<1>3. Kernel!IInv'
  BY <1>2, Kernel!SmallStepIInv, MaxSeqAssumption, VersionsAssumption
<1>4. CASE step = Kernel!EndOfHistory /\ Kernel!Frontier("Schedule")
  BY <1>3, <1>4, FrontierGrants, Vocabulary DEF Claiming
<1>7. CASE Kernel!Refuse("NoPersistentClock")
  BY <1>3, <1>7, RefuseRefuses DEF Claiming, Machine!KernelErrors
<1>5. CASE step.type = "TimerScheduled" /\ Kernel!RecordedTimer(spec, Persistent, step)
  <2>1. CASE \E e \in {"IdExhausted", "IncompatibleWorkflow"} : Kernel!Refuse(e)
    BY <1>3, <2>1, RefuseRefuses DEF Claiming, Machine!KernelErrors
  <2>2. CASE \E d : Kernel!Diverge(d)
    BY <1>3, <2>2, DivergeRefuses DEF Claiming
  <2>3. CASE Kernel!Consume(step, "Recorded", "AwaitingFiring")
    <3>1. step \in Records
      BY <1>5 DEF Steps, EndOfHistory
    <3>2. Consuming(step, "Recorded", "AwaitingTimer", "AwaitingFiring")
      BY <1>5, <2>3, <3>1, ConsumedState DEF Consuming, Kernel!StateAfter, Kernel!TerminalTypes
    <3> QED BY <1>3, <1>5, <3>2 DEF Claiming
  <2> QED BY <1>5, <2>1, <2>2, <2>3 DEF Kernel!RecordedTimer
<1>6. CASE Kernel!ForeignRecord(step, "TimerScheduled")
  BY <1>3, <1>6, ForeignEnds DEF Claiming
<1> QED BY <1>1, <1>4, <1>5, <1>6, <1>7, Hears DEF Kernel!TimerIntent

\* Asking at a version gate is one.
LEMMA GateClaim ==
  ASSUME Kernel!IInv, cursor.state = "Replaying", phase = "Settled",
         NEW gate \in Gates, fw \in Versions, NEW step \in Steps,
         Machine!VersionIntent(gate, Oldest, fw, step)
  PROVE  /\ Kernel!IInv'
         /\ Claiming(step, "Record", "VersionMarker", "Replaying", "Settled")
<1>1. step \in Kernel!Steps /\ Kernel!VersionIntent(gate, Oldest, fw, step)
  BY Vocabulary, SameMachine
<1>0. Oldest \in Versions
  BY DriverAssumption
<1>2. Kernel!SmallStep
  BY <1>0, <1>1, Kernel!VersionIntentIsSmall, MaxSeqAssumption, VersionsAssumption
<1>3. Kernel!IInv'
  BY <1>2, Kernel!SmallStepIInv, MaxSeqAssumption, VersionsAssumption
<1>4. CASE step = Kernel!EndOfHistory /\ Kernel!Frontier("Record")
  BY <1>3, <1>4, FrontierGrants, Vocabulary DEF Claiming
<1>5. CASE step.type = "VersionMarker" /\ Kernel!RecordedGate(gate, Oldest, fw, step)
  <2>1. CASE \E e \in {"IdExhausted", "IncompatibleWorkflow"} : Kernel!Refuse(e)
    BY <1>3, <2>1, RefuseRefuses DEF Claiming, Machine!KernelErrors
  <2>2. CASE \E d : Kernel!Diverge(d)
    BY <1>3, <2>2, DivergeRefuses DEF Claiming
  <2>3. CASE Kernel!Consume(step, "Recorded", phase)
    <3>1. step \in Records
      BY <1>5 DEF Steps, EndOfHistory
    <3>2. Consuming(step, "Recorded", "Replaying", "Settled")
      BY <1>5, <2>3, <3>1, ConsumedState DEF Consuming, Kernel!StateAfter, Kernel!TerminalTypes
    <3> QED BY <1>3, <1>5, <3>2 DEF Claiming
  <2> QED BY <1>5, <2>1, <2>2, <2>3 DEF Kernel!RecordedGate
<1>6. CASE Kernel!ForeignRecord(step, "VersionMarker")
  BY <1>3, <1>6, ForeignEnds DEF Claiming
<1> QED BY <1>1, <1>4, <1>5, <1>6, Hears DEF Kernel!VersionIntent

\* What the second half of a claim comes to: the boundary stays open and is
\* asked for again, its outcome is consumed, or the boot ends.
Settling(step, again, grant) ==
  \/ /\ step = EndOfHistory /\ answer'.kind = again
     /\ UNCHANGED <<cursor, accepted>> /\ phase' = "Settled"
  \/ Consuming(step, grant, "Replaying", "Settled")
  \/ Refusing

\* An outcome history holds settles the open effect, or is refused.
LEMMA EffectSettles ==
  ASSUME Kernel!IInv, cursor.state = "AwaitingOutcome", phase = "AwaitingOutcome",
         NEW step \in Steps, Machine!Outcome(step)
  PROVE  Kernel!IInv' /\ Settling(step, "Redeliver", "Replayed")
<1>1. step \in Kernel!Steps /\ Kernel!Outcome(step)
  BY Vocabulary, SameMachine
<1>2. Kernel!SmallStep
  BY <1>1, Kernel!OutcomeIsSmall, MaxSeqAssumption, VersionsAssumption
<1>3. Kernel!IInv'
  BY <1>2, Kernel!SmallStepIInv, MaxSeqAssumption, VersionsAssumption
<1>4. CASE step = Kernel!EndOfHistory
  BY <1>1, <1>3, <1>4, Vocabulary DEF Kernel!Outcome, Kernel!Halted, Kernel!Fresh, Settling
<1>5. CASE step # Kernel!EndOfHistory
  <2>1. step \in Records
    BY <1>5, Vocabulary DEF Steps
  <2>2. CASE Kernel!Halt(step)
    BY <1>3, <2>2, HaltRefuses DEF Settling
  <2>3. CASE Kernel!Consume(step, "Replayed", "Settled")
    <3>1. Kernel!StateAfter(step) = "Replaying"
      BY <2>3 DEF Kernel!Consume, Kernel!Accepts, Kernel!StateAfter,
             Kernel!OutcomeTypes, Kernel!TerminalTypes
    <3> QED BY <1>3, <2>1, <2>3, <3>1, ConsumedState DEF Settling, Consuming
  <2> QED BY <1>1, <1>5, <2>2, <2>3 DEF Kernel!Outcome, Kernel!Halted
<1> QED BY <1>4, <1>5

\* A firing history holds settles the open timer, or is refused.
LEMMA TimerSettles ==
  ASSUME Kernel!IInv, cursor.state = "AwaitingTimer", phase = "AwaitingFiring",
         NEW step \in Steps, Machine!TimerOutcome(step)
  PROVE  /\ Kernel!IInv' /\ Settling(step, "Rearm", "Fired")
         /\ answer'.kind = "Rearm" => answer'.val = cursor.open.val
<1>1. step \in Kernel!Steps /\ Kernel!TimerOutcome(step)
  BY Vocabulary, SameMachine
<1>2. Kernel!SmallStep
  BY <1>1, Kernel!TimerOutcomeIsSmall, MaxSeqAssumption, VersionsAssumption
<1>3. Kernel!IInv'
  BY <1>2, Kernel!SmallStepIInv, MaxSeqAssumption, VersionsAssumption
<1>4. CASE step = Kernel!EndOfHistory
  BY <1>1, <1>3, <1>4, Vocabulary DEF Kernel!TimerOutcome, Kernel!Halted, Kernel!Answer, Settling
<1>5. CASE step # Kernel!EndOfHistory
  <2>1. step \in Records
    BY <1>5, Vocabulary DEF Steps
  <2>2. CASE Kernel!Halt(step)
    BY <1>3, <2>2, HaltRefuses DEF Settling, Refusing, Machine!KernelErrors
  <2>3. CASE Kernel!Consume(step, "Fired", "Settled")
    <3>1. Kernel!StateAfter(step) = "Replaying"
      BY <2>3 DEF Kernel!Consume, Kernel!Accepts, Kernel!StateAfter,
             Kernel!OutcomeTypes, Kernel!TerminalTypes
    <3> QED BY <1>3, <2>1, <2>3, <3>1, ConsumedState DEF Settling, Consuming
  <2> QED BY <1>1, <1>5, <2>2, <2>3 DEF Kernel!TimerOutcome, Kernel!Halted
<1> QED BY <1>4, <1>5

-----------------------------------------------------------------------------
(* The invariant                                                           *)

\* The bank and the board have their types, and a run's bank opens with the
\* record that started it.
BankTyped ==
  /\ log \in Seq(Records) /\ firm \in 0 .. Len(log) /\ clean \in BOOLEAN
  /\ room \in Nat /\ torn \in Nat
  /\ run \in 0 .. LastRun /\ header \in Versions /\ fw \in Versions
  /\ bootClock \in 0 .. Ticks /\ rtc \in 0 .. Ticks /\ waited \in 0 .. Ticks
  /\ performed \subseteq Records
  /\ log # <<>> => log[1].type = "RunStarted"

\* What a timer recorded was a reading; and since it was recorded the boot
\* clock has gained no more than the time that went by, wherever it restarted.
Clocked ==
  /\ \A i \in 1 .. Len(log) : log[i].type = "TimerScheduled" => log[i].val \in 0 .. Ticks
  /\ log # <<>> /\ log[Len(log)].type = "TimerScheduled"
       /\ log[Len(log)].arg.clock = "AfterBoot" =>
         bootClock - log[Len(log)].val <= waited

\* On a write-through device the whole bank is durable, and every effect that
\* was performed is scheduled there.
Durable ==
  WriteThrough => /\ firm = Len(log)
                  /\ \A e \in performed : \E i \in 1 .. Len(log) : log[i] = e

BankInv == BankTyped /\ Clocked /\ Durable

\* The driver's memory has its types.
MemTyped ==
  /\ at \in Places /\ stop \in Stops
  /\ source \in {"Taken", "Scanning", "Writing", "Spent"} /\ pos \in 0 .. Len(log)
  /\ version \in Versions \cup {NoArg} /\ hand \in Steps
  /\ timer \in [floor : 0 .. Ticks, reading : 0 .. Ticks]

\* What the machine consumed is what the bank holds, up to where the scan
\* stands or, once it ended, to the end.
Reached == IF source = "Scanning" THEN pos ELSE Len(log)
Agrees ==
  /\ source # "Taken" /\ Len(accepted) = Reached
  /\ \A i \in 1 .. Reached : accepted[i] = log[i]

\* A boot that may still do something stands there.
Following ==
  at \notin {"Down", "Ending"} /\ stop \in {"None", "NearCapacity", "WaitingUntil"} => Agrees

\* A timer is in hand.
Timing == at \in {"Reading", "Measuring"} \/ (at = "Running" /\ stop = "WaitingUntil")

\* Where the driver stands, the machine stands with it.
AtRest ==
  /\ at # "Running" => stop = "None"
  /\ at \in {"Down", "Opening"} =>
       pos = 0 /\ cursor.state = "BeforeRun" /\ phase = "Settled"
  /\ at = "Opening" => source = "Scanning"
  /\ at = "Running" /\ stop = "None" => cursor.state = "Replaying" /\ phase = "Settled"
  /\ at = "Running" /\ stop = "NearCapacity" =>
       /\ source \in {"Writing", "Spent"}
       /\ cursor.state \in {"Replaying", "AwaitingOutcome", "AwaitingTimer"}
AtGrant ==
  at \in {"Scheduling", "Arming", "Marking"} =>
    /\ source = "Writing" /\ cursor.state = "Replaying" /\ phase = "Settled"
    /\ answer.seq = cursor.next /\ cursor.next \in Seqs
    /\ Wish.op = CASE at = "Scheduling" -> "effect"
                   [] at = "Arming"     -> "wait"
                   [] at = "Marking"    -> "gate"
AtBoundary ==
  /\ at = "Answering" => cursor.state = "AwaitingOutcome" /\ phase = "AwaitingOutcome"
  /\ at = "Firing" => cursor.state = "AwaitingTimer" /\ phase = "AwaitingFiring"
  /\ at \in {"Dispatching", "Performing"} =>
       /\ source = "Spent" /\ cursor.state = "AwaitingOutcome" /\ phase = "Settled"
       /\ hand = cursor.open
  /\ Timing => source = "Writing" /\ cursor.state = "AwaitingTimer" /\ phase = "Settled"
AtEnd ==
  at = "Ending" =>
    /\ log # <<>> /\ accepted # <<>>
    /\ accepted[Len(accepted)].type \in TerminalTypes
    /\ History!Follows(log[Len(log)], accepted[Len(accepted)])

\* A timer in hand is measured from where no more than the time that went by
\* since it was armed lies behind the boot clock.
Measured ==
  Timing /\ cursor.open.arg.clock = "AfterBoot" =>
    /\ bootClock - timer.floor <= waited
    /\ at = "Measuring" => timer.reading <= bootClock

Placed == Following /\ AtRest /\ AtGrant /\ AtBoundary /\ AtEnd /\ Measured
Memory == Kernel!IInv /\ MemTyped /\ Placed
IInv == BankInv /\ Memory

-----------------------------------------------------------------------------
(* What a step does to the bank                                            *)

\* A record is written whose timer, if it has one, stood as recorded, and
\* which fires no timer early.
Timely(rec) ==
  /\ rec.type = "TimerScheduled" => rec.val = Now(rec.arg)
  /\ rec.type = "TimerFired" =>
       LET spec == log[Len(log)].arg
       IN  IF spec.clock = "AfterBoot" THEN waited >= spec.deadline
                                       ELSE timer.reading >= spec.deadline

Writes ==
  /\ \E rec \in Records :
       /\ History!Legal(rec) /\ Timely(rec) /\ Admits(rec)
       /\ Written(rec) \/ Unwritten(rec)
  /\ UNCHANGED <<world, performed>>

Keeps ==
  /\ UNCHANGED <<bank, world>>
  /\ \/ UNCHANGED performed
     \/ \E i \in 1 .. Len(log) : performed' = performed \cup {log[i]}

Swaps ==
  /\ Swapped /\ run < LastRun /\ UNCHANGED world

Cuts ==
  /\ Bank!PowerLoss /\ bootClock' = 0
  /\ room' \in Nat /\ torn' \in Nat
  /\ WriteThrough => UNCHANGED <<room, torn>>
  /\ UNCHANGED <<run, header, waited, fw, rtc, performed>>

Turns == (Reset \/ ClockBack \/ Update \/ Tick) /\ UNCHANGED performed

BankStep == Writes \/ Keeps \/ Swaps \/ Cuts \/ Turns

\* A sequence with one more element.
LEMMA Appended ==
  ASSUME NEW S, NEW s \in Seq(S), NEW e \in S
  PROVE  /\ Append(s, e) \in Seq(S) /\ Append(s, e) # <<>>
         /\ Len(s) \in Nat /\ Len(Append(s, e)) = Len(s) + 1
         /\ Append(s, e)[Len(s) + 1] = e
         /\ \A i \in 1 .. Len(s) : Append(s, e)[i] = s[i]
         /\ s = <<>> <=> Len(s) = 0
OBVIOUS

\* What is admitted fits, with all that the run must still be able to write.
LEMMA Admitted ==
  ASSUME NEW rec \in Records
  PROVE  /\ Width(rec) \in Nat /\ ExitBytesAfter(rec) \in Nat
         /\ room \in Nat /\ Admits(rec) => room - Width(rec) \in Nat /\ Width(rec) <= room
         /\ Answers(rec) => Width(rec) <= OutcomeBytes
         /\ rec.type \in TerminalTypes => Width(rec) <= TerminalBytes
<1>1. /\ Width(rec) \in Nat /\ OutcomeBytes \in Nat /\ TerminalBytes \in Nat
      /\ Answers(rec) => Width(rec) <= OutcomeBytes
      /\ rec.type \in TerminalTypes => Width(rec) <= TerminalBytes
  BY ReserveAssumption
<1>2. ExitBytesAfter(rec) \in Nat
  BY <1>1 DEF ExitBytesAfter
<1>3. ASSUME room \in Nat, Admits(rec)
      PROVE  room - Width(rec) \in Nat /\ Width(rec) <= room
  BY <1>1, <1>2, <1>3 DEF Admits
<1> QED BY <1>1, <1>2, <1>3

\* A bank that a legal record is written to, or half written, keeps its invariant.
LEMMA WritesBank ==
  ASSUME BankInv, Writes
  PROVE  BankInv'
<1>1. PICK rec \in Records : /\ History!Legal(rec) /\ Timely(rec) /\ Admits(rec)
                             /\ Written(rec) \/ Unwritten(rec)
  BY DEF Writes
<1>0. room' \in Nat /\ torn' \in Nat
  <2>1. room \in Nat /\ torn \in Nat
    BY DEF BankInv, BankTyped
  <2>2. Width(rec) \in Nat /\ room - Width(rec) \in Nat
    BY <1>1, <2>1, Admitted
  <2> QED BY <1>1, <2>1, <2>2 DEF Written, Unwritten, Fills
<1>2. UNCHANGED <<run, header, fw, bootClock, rtc, performed>>
  BY <1>1 DEF Writes, Written, Unwritten, world
<1>3. log \in Seq(Records) /\ firm \in 0 .. Len(log) /\ Len(log) \in Nat /\ Ticks \in Nat
  BY DriverAssumption DEF BankInv, BankTyped
<1>4. /\ WriteThrough \in BOOLEAN /\ clean \in BOOLEAN
      /\ waited \in 0 .. Ticks /\ bootClock \in 0 .. Ticks /\ rtc \in 0 .. Ticks
  BY DriverAssumption DEF BankInv, BankTyped
<1>5. CASE log' = log
  <2>1. UNCHANGED waited /\ firm' \in {firm, Len(log)}
    <3>1. CASE Written(rec)
      BY <1>3, <1>5, <3>1, Appended DEF Written
    <3>2. CASE Unwritten(rec)
      BY <1>3, <1>5, <3>2, Appended DEF Unwritten
    <3> QED BY <1>1, <3>1, <3>2
  <2>2. clean' \in BOOLEAN
    BY <1>1, <1>4 DEF Written, Unwritten
  <2>3. BankTyped'
    BY <1>0, <1>2, <1>3, <1>5, <2>1, <2>2 DEF BankInv, BankTyped
  <2>4. Clocked' /\ Durable'
    BY <1>2, <1>5, <2>1 DEF BankInv, Clocked, Durable
  <2> QED BY <2>3, <2>4 DEF BankInv
<1>6. CASE log' = Append(log, rec)
  <2>0. /\ log' \in Seq(Records) /\ log' # <<>> /\ Len(log') = Len(log) + 1
        /\ log'[Len(log) + 1] = rec /\ log'[Len(log')] = rec
        /\ \A i \in 1 .. Len(log) : log'[i] = log[i]
        /\ log = <<>> <=> Len(log) = 0
    BY <1>3, <1>6, Appended
  <2>1. waited' = 0 \/ UNCHANGED waited
    BY <1>1 DEF Written, Unwritten
  <2>2. waited' = 0
    <3>1. log # Append(log, rec)
      BY <1>3, Appended
    <3> QED BY <1>1, <1>6, <3>1 DEF Written, Unwritten
  <2>3. clean' \in BOOLEAN
    BY <1>1, <1>4 DEF Written, Unwritten
  <2>4. firm' \in 0 .. Len(log') /\ (WriteThrough => firm' = Len(log'))
    <3>1. log # Append(log, rec)
      BY <1>3, Appended
    <3>2. CASE Written(rec)
      BY <1>3, <2>0, <3>2 DEF Written
    <3>3. CASE Unwritten(rec)
      BY <1>3, <1>4, <1>6, <2>0, <3>1, <3>3 DEF Unwritten
    <3> QED BY <1>1, <3>2, <3>3
  <2>5. log'[1].type = "RunStarted"
    <3>1. CASE log = <<>>
      BY <1>1, <2>0, <3>1 DEF History!Legal
    <3>2. CASE log # <<>>
      BY <1>3, <2>0, <3>2 DEF BankInv, BankTyped
    <3> QED BY <3>1, <3>2
  <2>6. BankTyped'
    BY <1>0, <1>2, <1>3, <1>4, <2>0, <2>2, <2>3, <2>4, <2>5 DEF BankInv, BankTyped
  <2>7. rec.type = "TimerScheduled" =>
          rec.val \in 0 .. Ticks /\ (rec.arg.clock = "AfterBoot" => rec.val = bootClock)
    BY <1>1, <1>4 DEF Timely, Now
  <2>8. Clocked'
    <3>1. ASSUME NEW i \in 1 .. Len(log'), log'[i].type = "TimerScheduled"
          PROVE  log'[i].val \in 0 .. Ticks
      <4>1. CASE i \in 1 .. Len(log)
        BY <2>0, <3>1, <4>1 DEF BankInv, Clocked
      <4>2. CASE i = Len(log) + 1
        BY <2>0, <2>7, <3>1, <4>2
      <4> QED BY <1>3, <2>0, <4>1, <4>2
    <3>2. rec.type = "TimerScheduled" /\ rec.arg.clock = "AfterBoot" => bootClock' - rec.val <= waited'
      BY <1>2, <1>3, <1>4, <2>2, <2>7
    <3> QED BY <2>0, <3>1, <3>2 DEF Clocked
  <2>9. Durable'
    <3>1. ASSUME WriteThrough, NEW e \in performed
          PROVE  \E i \in 1 .. Len(log') : log'[i] = e
      <4>1. PICK i \in 1 .. Len(log) : log[i] = e
        BY <3>1 DEF BankInv, Durable
      <4>2. i \in 1 .. Len(log') /\ log'[i] = e
        BY <1>3, <2>0, <4>1
      <4> QED BY <4>2
    <3> QED BY <1>2, <2>4, <3>1 DEF Durable
  <2> QED BY <2>6, <2>8, <2>9 DEF BankInv
<1>7. log' = log \/ log' = Append(log, rec)
  BY <1>1 DEF Written, Unwritten
<1> QED BY <1>5, <1>6, <1>7

\* So does one that is left as it is while what it holds is performed.
LEMMA KeepsBank ==
  ASSUME BankInv, Keeps
  PROVE  BankInv'
<1>1. UNCHANGED <<log, firm, clean, room, torn, run, header, waited, fw, bootClock, rtc>>
  BY DEF Keeps, bank, world
<1>2. log \in Seq(Records)
  BY DEF BankInv, BankTyped
<1>3. performed' \subseteq Records
  BY <1>2 DEF Keeps, BankInv, BankTyped
<1>4. BankTyped' /\ Clocked'
  BY <1>1, <1>3 DEF BankInv, BankTyped, Clocked
<1>5. Durable'
  BY <1>1 DEF Keeps, BankInv, Durable
<1> QED BY <1>4, <1>5 DEF BankInv

\* And the empty bank of the next run.
LEMMA SwapsBank ==
  ASSUME BankInv, Swaps
  PROVE  BankInv'
<1>1. /\ log' = <<>> /\ firm' = 0 /\ clean' = TRUE /\ waited' = 0 /\ run' = run + 1
      /\ room' = BankRoom /\ torn' = 0
      /\ header' = fw /\ performed' = {} /\ run < LastRun
      /\ UNCHANGED <<fw, bootClock, rtc>>
  BY DEF Swaps, Swapped, world
<1>2. Len(log') = 0 /\ log' \in Seq(Records)
  BY <1>1
<1>3. clean' \in BOOLEAN
  BY <1>1
<1>4. BankTyped'
  BY <1>1, <1>2, <1>3, DriverAssumption, ReserveAssumption DEF BankInv, BankTyped
<1>5. Clocked' /\ Durable'
  BY <1>1, <1>2 DEF Clocked, Durable
<1> QED BY <1>4, <1>5 DEF BankInv

\* And one that a power loss cut back to what was durable.
LEMMA CutsBank ==
  ASSUME BankInv, Cuts
  PROVE  BankInv'
<1>1. /\ log' \in {log, SubSeq(log, 1, firm)} /\ firm' = Len(log') /\ clean' \in BOOLEAN
      /\ room' \in Nat /\ torn' \in Nat
      /\ bootClock' = 0 /\ UNCHANGED <<run, header, waited, fw, rtc, performed>>
  BY DEF Cuts, Bank!PowerLoss
<1>2. log \in Seq(Records) /\ firm \in 0 .. Len(log) /\ Len(log) \in Nat /\ Ticks \in Nat
  BY DriverAssumption DEF BankInv, BankTyped
<1>3. /\ log' \in Seq(Records) /\ Len(log') \in {Len(log), firm} /\ Len(log') <= Len(log)
      /\ Len(log') \in Nat
      /\ \A i \in 1 .. Len(log') : log'[i] = log[i]
  BY <1>1, <1>2
<1>4. BankTyped'
  <2>1. log' # <<>> => log'[1].type = "RunStarted"
    BY <1>2, <1>3 DEF BankInv, BankTyped
  <2> QED BY <1>1, <1>2, <1>3, <2>1 DEF BankInv, BankTyped
<1>5. Clocked'
  <2>1. \A i \in 1 .. Len(log') : log'[i].type = "TimerScheduled" => log'[i].val \in 0 .. Ticks
    BY <1>2, <1>3 DEF BankInv, Clocked
  <2>2. waited' \in 0 .. Ticks
    BY <1>1 DEF BankInv, BankTyped
  <2>3. ASSUME log' # <<>>, log'[Len(log')].type = "TimerScheduled"
        PROVE  bootClock' - log'[Len(log')].val <= waited'
    <3>1. Len(log') \in 1 .. Len(log')
      BY <1>3, <2>3
    <3>2. log'[Len(log')].val \in 0 .. Ticks
      BY <2>1, <2>3, <3>1
    <3> QED BY <1>1, <1>2, <2>2, <3>2
  <2> QED BY <2>1, <2>3 DEF Clocked
<1>6. Durable'
  BY <1>1, <1>2, <1>3 DEF BankInv, Durable
<1> QED BY <1>4, <1>5, <1>6 DEF BankInv

\* Neither bound on time lets the clock gain on the time that went by.
LEMMA KeepsUp ==
  ASSUME NEW T \in Nat, NEW b \in 0 .. T, NEW w \in 0 .. T, NEW v \in 0 .. T, b - v <= w,
         NEW c \in 0 .. T, c \in {b, b + 1}
  PROVE  c - v <= IF w < T THEN w + 1 ELSE w
OBVIOUS

\* And one whose board goes on: time passes, clocks are set, firmware changes.
LEMMA TurnsBank ==
  ASSUME BankInv, Turns
  PROVE  BankInv'
<1>1. UNCHANGED <<log, firm, clean, room, torn, run, header, performed>>
  BY DEF Turns, Reset, ClockBack, Update, Tick, GoesDown, bank
<1>2. log \in Seq(Records) /\ Len(log) \in Nat /\ Ticks \in Nat
  BY DriverAssumption DEF BankInv, BankTyped
<1>3. waited \in 0 .. Ticks /\ bootClock \in 0 .. Ticks /\ rtc \in 0 .. Ticks /\ Early \in 0 .. Ticks
  BY DriverAssumption DEF BankInv, BankTyped
<1>4. Durable'
  BY <1>1 DEF BankInv, Durable
<1>5. \A i \in 1 .. Len(log) : log[i].type = "TimerScheduled" => log[i].val \in 0 .. Ticks
  BY DEF BankInv, Clocked
<1>6. ASSUME log # <<>>
      PROVE  Len(log) \in 1 .. Len(log)
  BY <1>2, <1>6
<1>7. CASE Reset
  <2>1. bootClock' = 0 /\ UNCHANGED <<fw, rtc, waited>>
    BY <1>7 DEF Reset, GoesDown, bank
  <2>2. BankTyped'
    BY <1>1, <1>2, <2>1 DEF BankInv, BankTyped
  <2>3. Clocked'
    BY <1>1, <1>2, <1>3, <1>5, <1>6, <2>1 DEF Clocked
  <2> QED BY <1>4, <2>2, <2>3 DEF BankInv
<1>8. CASE ClockBack
  <2>1. rtc' \in 0 .. Ticks /\ UNCHANGED <<fw, bootClock, waited>>
    BY <1>2, <1>3, <1>8 DEF ClockBack, bank
  <2> QED BY <1>1, <1>4, <2>1 DEF BankInv, BankTyped, Clocked
<1>9. CASE Update
  <2>1. fw' \in Versions /\ UNCHANGED <<rtc, bootClock, waited>>
    BY <1>9 DEF Update, bank
  <2> QED BY <1>1, <1>4, <2>1 DEF BankInv, BankTyped, Clocked
<1>10. CASE Tick
  <2>1. /\ UNCHANGED fw
        /\ bootClock' \in {bootClock, bootClock + 1} /\ bootClock' \in 0 .. Ticks
        /\ rtc' \in 0 .. Ticks
    BY <1>2, <1>3, <1>10 DEF Tick, Latest
  <2>2. waited' = IF TimerIsOpen /\ waited < Ticks THEN waited + 1 ELSE waited
    BY <1>10 DEF Tick
  <2>3. waited' \in 0 .. Ticks
    BY <1>2, <1>3, <2>2
  <2>4. BankTyped'
    BY <1>1, <2>1, <2>3 DEF BankInv, BankTyped
  <2>5. ASSUME log # <<>>, log[Len(log)].type = "TimerScheduled", log[Len(log)].arg.clock = "AfterBoot"
        PROVE  bootClock' - log[Len(log)].val <= waited'
    <3>1. TimerIsOpen
      BY <2>5 DEF TimerIsOpen
    <3>2. log[Len(log)].val \in 0 .. Ticks /\ bootClock - log[Len(log)].val <= waited
      BY <1>5, <1>6, <2>5 DEF BankInv, Clocked
    <3>3. waited' = IF waited < Ticks THEN waited + 1 ELSE waited
      BY <2>2, <3>1
    <3> QED BY <1>2, <1>3, <2>1, <3>2, <3>3, KeepsUp
  <2>6. Clocked'
    BY <1>1, <1>5, <2>5 DEF Clocked
  <2> QED BY <1>4, <2>4, <2>6 DEF BankInv
<1> QED BY <1>7, <1>8, <1>9, <1>10 DEF Turns

\* Whichever of the five a step does, the bank's part of the invariant stays.
LEMMA BankInvariant ==
  ASSUME BankInv, BankStep
  PROVE  BankInv'
BY WritesBank, KeepsBank, SwapsBank, CutsBank, TurnsBank DEF BankStep

-----------------------------------------------------------------------------
(* What a step does to what the machine has seen of the bank               *)

\* What peek offers, and where the scan stands then.
LEMMA Offers ==
  ASSUME BankTyped, MemTyped
  PROVE  /\ Offered \in Steps
         /\ Offered # EndOfHistory =>
              /\ source = "Scanning" /\ pos + 1 \in 1 .. Len(log)
              /\ Offered = log[pos + 1] /\ Offered \in Records
         /\ Offered = EndOfHistory => Reached = Len(log)
<1>1. log \in Seq(Records) /\ pos \in 0 .. Len(log) /\ Len(log) \in Nat
  BY DEF BankTyped, MemTyped
<1>2. CASE source = "Scanning" /\ pos < Len(log)
  <2>1. pos + 1 \in 1 .. Len(log) /\ Offered = log[pos + 1] /\ Offered \in Records
    BY <1>1, <1>2 DEF Offered
  <2>2. Offered # EndOfHistory
    BY <2>1 DEF Records, EndOfHistory, OutcomeTypes, TerminalTypes
  <2> QED BY <1>2, <2>1, <2>2 DEF Steps
<1>3. CASE ~(source = "Scanning" /\ pos < Len(log))
  <2>1. Offered = EndOfHistory
    BY <1>3 DEF Offered
  <2>2. Reached = Len(log)
    BY <1>1, <1>3 DEF Reached
  <2> QED BY <2>1, <2>2 DEF Steps
<1> QED BY <1>2, <1>3

\* Whatever comes of it, a peek leaves the scan somewhere in the bank.
LEMMA PeekTyped ==
  ASSUME BankTyped, MemTyped, Peeks, log' = log
  PROVE  pos' \in 0 .. Len(log') /\ source' \in {"Taken", "Scanning", "Writing", "Spent"}
<1>1. pos \in 0 .. Len(log) /\ Len(log) \in Nat
  BY DEF BankTyped, MemTyped
<1>2. Offered = EndOfHistory => pos' = pos
  BY DEF Peeks
<1>3. Offered # EndOfHistory => pos' = pos + 1 /\ pos + 1 \in 1 .. Len(log)
  BY Offers DEF Peeks
<1>4. source' \in {"Taken", "Scanning", "Writing", "Spent"}
  BY DEF Peeks, MemTyped
<1> QED BY <1>1, <1>2, <1>3, <1>4

\* A record the machine consumes from the scan moves the scan past it.
LEMMA Scans ==
  ASSUME BankTyped, MemTyped, Agrees, accepted \in Seq(Records),
         Offered # EndOfHistory, Peeks, accepted' = Append(accepted, Offered), log' = log
  PROVE  Agrees' /\ source' = source /\ pos' \in 0 .. Len(log')
<1>1. /\ source = "Scanning" /\ pos + 1 \in 1 .. Len(log)
      /\ Offered = log[pos + 1] /\ Offered \in Records
  BY Offers
<1>2. log \in Seq(Records) /\ pos \in 0 .. Len(log) /\ Len(log) \in Nat
  BY DEF BankTyped, MemTyped
<1>3. source' = "Scanning" /\ pos' = pos + 1
  BY <1>1 DEF Peeks
<1>4. Len(accepted) = pos /\ \A i \in 1 .. pos : accepted[i] = log[i]
  BY <1>1 DEF Agrees, Reached
<1>5. /\ Len(accepted') = pos + 1 /\ accepted'[pos + 1] = log[pos + 1]
      /\ \A i \in 1 .. pos : accepted'[i] = log[i]
  BY <1>1, <1>4, Appended
<1>6. \A i \in 1 .. pos + 1 : accepted'[i] = log'[i]
  BY <1>2, <1>5
<1> QED BY <1>1, <1>2, <1>3, <1>5, <1>6 DEF Agrees, Reached

\* The end of history opens the writer, behind all the bank holds.
LEMMA ScanEnds ==
  ASSUME BankTyped, MemTyped, Agrees, Offered = EndOfHistory, Peeks,
         accepted' = accepted, log' = log
  PROVE  /\ Agrees' /\ Reached' = Len(log') /\ source' = "Writing"
         /\ pos' \in 0 .. Len(log')
<1>1. Reached = Len(log) /\ pos \in 0 .. Len(log)
  BY Offers DEF MemTyped
<1>2. source' = "Writing" /\ pos' = pos
  BY DEF Peeks
<1> QED BY <1>1, <1>2 DEF Agrees, Reached

\* What is written is consumed.
LEMMA Grows ==
  ASSUME BankTyped, Agrees, Reached = Len(log), accepted \in Seq(Records), NEW rec \in Records,
         log' = Append(log, rec), accepted' = Append(accepted, rec),
         source' \in {"Writing", "Spent"}
  PROVE  Agrees'
<1>1. log \in Seq(Records) /\ Len(log) \in Nat
  BY DEF BankTyped
<1>2. Len(accepted) = Len(log) /\ \A i \in 1 .. Len(log) : accepted[i] = log[i]
  BY DEF Agrees
<1>3. /\ Len(log') = Len(log) + 1 /\ log'[Len(log) + 1] = rec
      /\ \A i \in 1 .. Len(log) : log'[i] = log[i]
  BY <1>1, Appended
<1>4. /\ Len(accepted') = Len(log) + 1 /\ accepted'[Len(log) + 1] = rec
      /\ \A i \in 1 .. Len(log) : accepted'[i] = accepted[i]
  BY <1>2, Appended
<1>5. \A i \in 1 .. Len(log) + 1 : accepted'[i] = log'[i]
  BY <1>1, <1>2, <1>3, <1>4
<1> QED BY <1>3, <1>4, <1>5 DEF Agrees, Reached

\* Nothing is consumed, and the scan is let be or given up with all of it read.
LEMMA Rests ==
  ASSUME BankTyped, MemTyped, Agrees, accepted' = accepted, log' = log, pos' = pos,
         source' = source \/ (Reached = Len(log) /\ source' \in {"Writing", "Spent"})
  PROVE  Agrees'
BY DEF Agrees, Reached

\* With the whole bank seen, the last record consumed is the bank's last.
LEMMA Whole ==
  ASSUME BankTyped, Agrees, Reached = Len(log), accepted \in Seq(Records)
  PROVE  /\ accepted = <<>> <=> log = <<>>
         /\ accepted # <<>> => Len(log) \in 1 .. Len(log) /\ log[Len(log)] = accepted[Len(accepted)]
<1>1. log \in Seq(Records) /\ Len(log) \in Nat
  BY DEF BankTyped
<1>2. Len(accepted) = Len(log) /\ \A i \in 1 .. Len(log) : accepted[i] = log[i]
  BY DEF Agrees
<1>3. (accepted = <<>> <=> Len(accepted) = 0) /\ (log = <<>> <=> Len(log) = 0)
  BY <1>1
<1> QED BY <1>1, <1>2, <1>3

\* And a record the machine would consume may follow in the bank.
LEMMA MayFollow ==
  ASSUME Kernel!IInv, BankTyped, Agrees, Reached = Len(log),
         NEW rec \in Records, Kernel!Accepts(cursor, rec)
  PROVE  History!Legal(rec)
<1>1. Kernel!History!Legal(rec)
  BY Vocabulary, Kernel!AcceptsLegal, MaxSeqAssumption, VersionsAssumption
<1>2. accepted \in Seq(Records)
  BY Standing
<1>3. /\ accepted = <<>> <=> log = <<>>
      /\ accepted # <<>> => log[Len(log)] = accepted[Len(accepted)]
  BY <1>2, Whole
<1> QED
  BY <1>1, <1>3 DEF Kernel!History!Legal, History!Legal, Kernel!History!Follows, History!Follows,
     Kernel!History!Opens, History!Opens, Kernel!History!BoundaryTypes, History!BoundaryTypes,
     Kernel!History!TerminalTypes, History!TerminalTypes,
     Kernel!History!OutcomeTypes, History!OutcomeTypes
-----------------------------------------------------------------------------
(* Where a step leaves the driver                                          *)

\* Stops a boot does not go on from.
Over == Stops \ {"None", "NearCapacity", "WaitingUntil"}

\* A boot that is over owes its memory nothing but its types.
LEMMA StoppedPlaced ==
  ASSUME at' = "Running", stop' \in Over
  PROVE  Placed'
BY DEF Over, Placed, Following, AtRest, AtGrant, AtBoundary, AtEnd, Measured, Timing

\* And one that has not begun, little more.
LEMMA DownPlaced ==
  ASSUME at' = "Down", stop' = "None", pos' = 0,
         cursor'.state = "BeforeRun", phase' = "Settled"
  PROVE  Placed'
BY DEF Placed, Following, AtRest, AtGrant, AtBoundary, AtEnd, Measured, Timing

\* Whose kernel is as it was made.
LEMMA BlankMemory ==
  ASSUME at' = "Down", Blank, Len(log') \in Nat
  PROVE  Memory'
<1>1. Kernel!IInv'
  <2>1. /\ cursor' = [state |-> "BeforeRun", next |-> 0, open |-> Kernel!NoRecord, error |-> "None"]
        /\ phase' = "Settled" /\ answer' = Kernel!Fresh("None", 0) /\ accepted' = <<>>
    BY Vocabulary DEF Blank, Machine!Fresh, Kernel!Fresh
  <2>2. Kernel!NoRecord \in Kernel!Steps
    BY DEF Kernel!NoRecord, Kernel!Steps
  <2>3. Kernel!TypeOK'
    BY <2>1, <2>2, MaxSeqAssumption
       DEF Kernel!TypeOK, Kernel!States, Kernel!Fresh, Kernel!Grants, Kernel!Seqs
  <2>4. /\ Kernel!CursorTracksHistory' /\ Kernel!PhaseMatchesCursor'
        /\ Kernel!NewestIdentity' /\ Kernel!NextFollowsLast' /\ Kernel!HaltHasError'
    BY <2>1 DEF Kernel!CursorTracksHistory, Kernel!PhaseMatchesCursor, Kernel!NewestIdentity,
                Kernel!NextFollowsLast, Kernel!HaltHasError, Kernel!Halted
  <2> QED BY <2>3, <2>4 DEF Kernel!IInv
<1>2. MemTyped'
  <2>1. timer' \in [floor : 0 .. Ticks, reading : 0 .. Ticks]
    BY DriverAssumption DEF Blank, NoTimer
  <2>2. hand' \in Steps /\ pos' \in 0 .. Len(log')
    BY DEF Blank, Steps, NoRecord, EndOfHistory
  <2>3. version' \in Versions \cup {NoArg} /\ at' \in Places /\ stop' \in Stops
        /\ source' \in {"Taken", "Scanning", "Writing", "Spent"}
    BY DEF Blank, Places, Stops
  <2> QED BY <2>1, <2>2, <2>3 DEF MemTyped
<1>3. Placed'
  BY DownPlaced DEF Blank
<1> QED BY <1>1, <1>2, <1>3 DEF Memory

\* The places a boot that goes on may stand at, one by one.
LEMMA RunningPlaced ==
  ASSUME at' = "Running", stop' = "None",
         Agrees', cursor'.state = "Replaying", phase' = "Settled"
  PROVE  Placed'
BY DEF Placed, Following, AtRest, AtGrant, AtBoundary, AtEnd, Measured, Timing

\* A boot that was refused room, with all of history behind it.
LEMMA RefusedPlaced ==
  ASSUME at' = "Running", stop' = "NearCapacity", Agrees', source' \in {"Writing", "Spent"},
         cursor'.state \in {"Replaying", "AwaitingOutcome", "AwaitingTimer"}
  PROVE  Placed'
BY DEF Placed, Following, AtRest, AtGrant, AtBoundary, AtEnd, Measured, Timing

\* A granted boundary, about to be written.
LEMMA GrantPlaced ==
  ASSUME at' \in {"Scheduling", "Arming", "Marking"}, stop' = "None", Agrees',
         source' = "Writing", cursor'.state = "Replaying", phase' = "Settled",
         answer'.seq = cursor'.next, cursor'.next \in Seqs,
         Wish'.op = CASE at' = "Scheduling" -> "effect"
                      [] at' = "Arming"     -> "wait"
                      [] at' = "Marking"    -> "gate"
  PROVE  Placed'
BY DEF Placed, Following, AtRest, AtGrant, AtBoundary, AtEnd, Measured, Timing

\* A boundary history holds, about to be settled from it.
LEMMA RecordedPlaced ==
  ASSUME at' \in {"Answering", "Firing"}, stop' = "None", Agrees',
         at' = "Answering" => cursor'.state = "AwaitingOutcome" /\ phase' = "AwaitingOutcome",
         at' = "Firing" => cursor'.state = "AwaitingTimer" /\ phase' = "AwaitingFiring"
  PROVE  Placed'
BY DEF Placed, Following, AtRest, AtGrant, AtBoundary, AtEnd, Measured, Timing

\* An effect of which history ends with the schedule, handed out.
LEMMA DispatchPlaced ==
  ASSUME at' \in {"Dispatching", "Performing"}, stop' = "None", Agrees',
         source' = "Spent", cursor'.state = "AwaitingOutcome", phase' = "Settled",
         hand' = cursor'.open
  PROVE  Placed'
BY DEF Placed, Following, AtRest, AtGrant, AtBoundary, AtEnd, Measured, Timing

\* An open timer, being measured or waited for.
LEMMA TimingPlaced ==
  ASSUME \/ at' \in {"Reading", "Measuring"} /\ stop' = "None"
         \/ at' = "Running" /\ stop' = "WaitingUntil",
         Agrees', source' = "Writing", cursor'.state = "AwaitingTimer", phase' = "Settled",
         cursor'.open.arg.clock = "AfterBoot" =>
           /\ bootClock' - timer'.floor <= waited'
           /\ at' = "Measuring" => timer'.reading <= bootClock'
  PROVE  Placed'
BY DEF Placed, Following, AtRest, AtGrant, AtBoundary, AtEnd, Measured, Timing

\* A refusal ends the boot, wherever the driver meant to go.
LEMMA RefusalEnds ==
  ASSUME Refusing, NEW grant, NEW where, Follow(grant, where), grant \notin Machine!KernelErrors
  PROVE  at' = "Running" /\ stop' \in Over
BY DEF Refusing, Follow, Stands, Over, Stops, Machine!KernelErrors

\* A grant goes where the driver meant to go.
LEMMA GrantGoes ==
  ASSUME NEW grant, NEW where, Follow(grant, where), answer'.kind = grant
  PROVE  at' = where /\ stop' = "None"
BY DEF Follow, Stands

\* The workflow asks within the program's vocabulary.
ProgramIsTyped ==
  \A r, v, o :
    LET w == Program(r, v, o)
    IN  /\ w.op = "effect" => w.arg \in Asks
        /\ w.op = "wait" => w.arg \in Specs
        /\ w.op = "gate" => w.arg \in Gates
        /\ w.op = "return" => w.arg \in TerminalTypes /\ w.val \in Payloads

\* So does the workflow of the current run.
LEMMA WishTyped ==
  ASSUME ProgramIsTyped
  PROVE  /\ Wish.op = "effect" => Wish.arg \in Asks
         /\ Wish.op = "wait" => Wish.arg \in Specs
         /\ Wish.op = "gate" => Wish.arg \in Gates
         /\ Wish.op = "return" => Wish.arg \in TerminalTypes /\ Wish.val \in Payloads
BY DEF ProgramIsTyped, Wish
-----------------------------------------------------------------------------
(* Claims                                                                  *)

\* Wherever a claim ends, the driver stands where the machine does.
LEMMA ClaimPlaced ==
  ASSUME IInv, Running, Peeks, UNCHANGED <<log, run, version, hand, timer>>,
         answer'.kind # "Recorded" => obs' = obs,
         NEW grant \in {"Schedule", "Record"}, NEW own, NEW state, NEW to,
         NEW fresh, NEW recorded,
         Claiming(Offered, grant, own, state, to), Claimed(fresh, recorded),
         \/ /\ fresh = "Scheduling" /\ Wish.op = "effect" /\ recorded = "Answering"
            /\ state = "AwaitingOutcome" /\ to = "AwaitingOutcome"
         \/ /\ fresh = "Arming" /\ Wish.op = "wait" /\ recorded = "Firing"
            /\ state = "AwaitingTimer" /\ to = "AwaitingFiring"
         \/ /\ fresh = "Marking" /\ Wish.op = "gate" /\ recorded = "Running"
            /\ state = "Replaying" /\ to = "Settled"
  PROVE  MemTyped' /\ Placed'
<1>1. /\ BankTyped /\ MemTyped /\ Kernel!IInv /\ accepted \in Seq(Records)
      /\ Agrees /\ cursor.state = "Replaying" /\ phase = "Settled"
  BY Standing DEF IInv, BankInv, Memory, Placed, Following, AtRest, Running
<1>2. pos \in 0 .. Len(log)
  BY <1>1 DEF MemTyped
<1>3. source' \in {"Taken", "Scanning", "Writing", "Spent"}
  BY <1>1 DEF MemTyped, Peeks
<1>4. ASSUME at' \in Places, stop' \in Stops, pos' \in 0 .. Len(log')
      PROVE  MemTyped'
  BY <1>1, <1>3, <1>4 DEF MemTyped
<1>5. CASE Offered = EndOfHistory /\ Granting(grant) /\ answer'.seq = cursor.next /\ cursor.next \in Seqs
  <2>1. Agrees' /\ source' = "Writing" /\ pos' \in 0 .. Len(log')
    BY <1>1, <1>5, ScanEnds DEF Granting
  <2>2. at' = fresh /\ stop' = "None"
    BY <1>5 DEF Granting, Claimed, Stands
  <2>3. Wish' = Wish
    BY <1>5 DEF Granting, Wish
  <2>4. UNCHANGED <<cursor, phase>> /\ answer'.seq = cursor'.next /\ cursor'.next \in Seqs
    BY <1>5 DEF Granting
  <2>5. Wish'.op = CASE at' = "Scheduling" -> "effect"
                     [] at' = "Arming"     -> "wait"
                     [] at' = "Marking"    -> "gate"
    BY <2>2, <2>3
  <2>6. at' \in {"Scheduling", "Arming", "Marking"}
    BY <2>2
  <2>7. Placed'
    BY <1>1, <2>1, <2>2, <2>4, <2>5, <2>6, GrantPlaced
  <2> QED BY <1>4, <2>1, <2>2, <2>6, <2>7 DEF Places, Stops
<1>6. CASE Consuming(Offered, "Recorded", state, to)
  <2>1. Offered # EndOfHistory
    BY <1>6 DEF Consuming, Records, EndOfHistory, OutcomeTypes, TerminalTypes
  <2>2. accepted' = Append(accepted, Offered) /\ cursor'.state = state /\ phase' = to
    BY <1>6 DEF Consuming
  <2>3. Agrees' /\ pos' \in 0 .. Len(log')
    BY <1>1, <2>1, <2>2, Scans
  <2>4. at' = recorded /\ stop' = "None"
    BY <1>6 DEF Consuming, Claimed, Stands
  <2>5. Placed'
    BY <2>2, <2>3, <2>4, RunningPlaced, RecordedPlaced
  <2> QED BY <1>4, <2>3, <2>4, <2>5 DEF Places, Stops
<1>7. CASE Refusing \/ answer'.kind = "Finished"
  <2>1. at' = "Running" /\ stop' \in Over
    BY <1>7 DEF Refusing, Claimed, Stands, Over, Stops, Machine!KernelErrors
  <2>2. pos' \in 0 .. Len(log')
    BY <1>1, PeekTyped
  <2> QED BY <1>4, <2>1, <2>2, StoppedPlaced DEF Places, Over
<1> QED BY <1>5, <1>6, <1>7 DEF Claiming

LEMMA AskEffectStep ==
  ASSUME IInv, ProgramIsTyped, AskEffect
  PROVE  BankStep /\ Memory'
<1>1. /\ Running /\ Wish.op = "effect" /\ Peeks /\ Claimed("Scheduling", "Answering")
      /\ Machine!Intent(Wish.arg.kind, Wish.arg.input, Offered)
      /\ UNCHANGED <<bank, world, version, hand, timer, obs, performed>>
  BY DEF AskEffect, Claims, Untold, ghosts
<1>2. /\ Kernel!IInv /\ BankTyped /\ MemTyped
      /\ cursor.state = "Replaying" /\ phase = "Settled"
  BY <1>1 DEF IInv, BankInv, Memory, Placed, AtRest, Running
<1>3. Wish.arg.kind \in Kinds /\ Wish.arg.input \in Inputs
  BY <1>1, WishTyped DEF Asks
<1>4. Offered \in Steps
  BY <1>2, Offers
<1>5. /\ Kernel!IInv'
      /\ Claiming(Offered, "Schedule", "EffectScheduled", "AwaitingOutcome", "AwaitingOutcome")
  BY <1>1, <1>2, <1>3, <1>4, EffectClaim
<1>6. MemTyped' /\ Placed'
  BY <1>1, <1>5, ClaimPlaced DEF bank
<1>7. BankStep
  BY <1>1 DEF BankStep, Keeps
<1> QED BY <1>5, <1>6, <1>7 DEF Memory

LEMMA AskTimerStep ==
  ASSUME IInv, ProgramIsTyped, AskTimer
  PROVE  BankStep /\ Memory'
<1>1. /\ Running /\ Wish.op = "wait" /\ Peeks /\ Claimed("Arming", "Firing")
      /\ Machine!TimerIntent(Wish.arg, Persistent, Offered)
      /\ UNCHANGED <<bank, world, version, hand, timer, obs, performed>>
  BY DEF AskTimer, Claims, Untold, ghosts
<1>2. /\ Kernel!IInv /\ BankTyped /\ MemTyped
      /\ cursor.state = "Replaying" /\ phase = "Settled"
  BY <1>1 DEF IInv, BankInv, Memory, Placed, AtRest, Running
<1>3. Wish.arg \in Specs
  BY <1>1, WishTyped
<1>4. Offered \in Steps
  BY <1>2, Offers
<1>5. /\ Kernel!IInv'
      /\ Claiming(Offered, "Schedule", "TimerScheduled", "AwaitingTimer", "AwaitingFiring")
  BY <1>1, <1>2, <1>3, <1>4, TimerClaim
<1>6. MemTyped' /\ Placed'
  BY <1>1, <1>5, ClaimPlaced DEF bank
<1>7. BankStep
  BY <1>1 DEF BankStep, Keeps
<1> QED BY <1>5, <1>6, <1>7 DEF Memory

LEMMA AskGateStep ==
  ASSUME IInv, ProgramIsTyped, AskGate
  PROVE  BankStep /\ Memory'
<1>1. /\ Running /\ Wish.op = "gate" /\ Peeks /\ Claimed("Marking", "Running")
      /\ Machine!VersionIntent(Wish.arg, Oldest, fw, Offered)
      /\ UNCHANGED <<bank, world, version, hand, timer, performed>>
      /\ answer'.kind # "Recorded" => obs' = obs
  BY DEF AskGate, Claims, Untold, Observe, ghosts
<1>2. /\ Kernel!IInv /\ BankTyped /\ MemTyped
      /\ cursor.state = "Replaying" /\ phase = "Settled"
  BY <1>1 DEF IInv, BankInv, Memory, Placed, AtRest, Running
<1>3. Wish.arg \in Gates /\ fw \in Versions
  BY <1>1, <1>2, WishTyped DEF BankTyped
<1>4. Offered \in Steps
  BY <1>2, Offers
<1>5. /\ Kernel!IInv'
      /\ Claiming(Offered, "Record", "VersionMarker", "Replaying", "Settled")
  BY <1>1, <1>2, <1>3, <1>4, GateClaim
<1>6. MemTyped' /\ Placed'
  BY <1>1, <1>5, ClaimPlaced DEF bank
<1>7. BankStep
  BY <1>1 DEF BankStep, Keeps
<1> QED BY <1>5, <1>6, <1>7 DEF Memory

-----------------------------------------------------------------------------
(* What is written                                                         *)

\* The record in hand is the one that history and the machine have next.
Ready(rec, state) ==
  /\ rec \in Records /\ Timely(rec)
  /\ Agrees /\ Reached = Len(log) /\ phase = "Settled"
  /\ Kernel!Accepts(cursor, rec) /\ Kernel!StateAfter(rec) = state

\* To write it, or to fail at that, leaves the bank legal.
LEMMA ReadyWrites ==
  ASSUME IInv, NEW rec, NEW state, Ready(rec, state), Admits(rec),
         Written(rec) \/ Unwritten(rec), UNCHANGED <<world, performed>>
  PROVE  BankStep
<1>1. History!Legal(rec)
  BY MayFollow DEF Ready, IInv, BankInv, Memory
<1> QED BY <1>1 DEF Ready, Writes, BankStep

\* Once it is written the machine takes it.
LEMMA ReadyTaken ==
  ASSUME IInv, NEW rec, NEW state, Ready(rec, state), Written(rec), Machine!Advance(rec),
         source' \in {"Writing", "Spent"}
  PROVE  /\ Kernel!IInv' /\ answer'.kind = "Step" /\ Agrees' /\ Len(log') \in Nat
         /\ cursor'.state = state /\ phase' = "Settled" /\ log' = Append(log, rec)
         /\ accepted' = Append(accepted, rec)
         /\ OpensBoundary(rec) => cursor'.open = rec
         /\ Len(log) <= Len(log')
<1>1. BankTyped /\ Kernel!IInv /\ accepted \in Seq(Records) /\ rec \in Records
  BY Standing DEF IInv, BankInv, Memory, Ready
<1>2. Kernel!IInv' /\ Consuming(rec, "Step", Kernel!StateAfter(rec), "Settled")
  BY <1>1, Advances DEF Ready
<1>3. log' = Append(log, rec)
  BY DEF Written
<1>4. accepted' = Append(accepted, rec)
  BY <1>2 DEF Consuming
<1>5. Agrees'
  BY <1>1, <1>3, <1>4, Grows DEF Ready
<1>6. Len(log') \in Nat /\ Len(log) <= Len(log')
  BY <1>1, <1>3, Appended DEF BankTyped
<1> QED BY <1>2, <1>3, <1>5, <1>6 DEF Consuming, Ready

\* A granted boundary is next, whichever it is.
LEMMA GrantReady ==
  ASSUME IInv, at \in {"Scheduling", "Arming", "Marking"},
         NEW rec \in Records, rec.type \in BoundaryTypes, rec.seq = answer.seq,
         rec.type = "TimerScheduled" => rec.val = Now(rec.arg)
  PROVE  Ready(rec, Kernel!StateAfter(rec))
<1>1. stop = "None" /\ Agrees
  BY DEF IInv, Memory, Placed, AtRest, Following
<1>2. /\ source = "Writing" /\ cursor.state = "Replaying" /\ phase = "Settled"
      /\ answer.seq = cursor.next
  BY DEF IInv, Memory, Placed, AtGrant
<1>3. Reached = Len(log)
  BY <1>2 DEF Reached
<1>4. Kernel!Accepts(cursor, rec)
  BY <1>2, Vocabulary DEF Kernel!Accepts
<1>5. Timely(rec)
  BY DEF Timely, BoundaryTypes
<1> QED BY <1>1, <1>2, <1>3, <1>4, <1>5 DEF Ready

\* The schedule record of a granted effect may be written.
LEMMA EffectReady ==
  ASSUME IInv, ProgramIsTyped, at = "Scheduling"
  PROVE  Ready(EffectScheduled, "AwaitingOutcome") /\ EffectScheduled \in Steps
<1>1. Wish.op = "effect" /\ answer.seq \in Seqs
  BY DEF IInv, Memory, Placed, AtGrant
<1>2. EffectScheduled \in Records
  BY <1>1, WishTyped DEF EffectScheduled, Boundary, Records
<1>3. Kernel!StateAfter(EffectScheduled) = "AwaitingOutcome"
  BY DEF Kernel!StateAfter, EffectScheduled, Boundary, Kernel!TerminalTypes
<1>4. Ready(EffectScheduled, Kernel!StateAfter(EffectScheduled))
  BY <1>2, GrantReady DEF EffectScheduled, Boundary, BoundaryTypes
<1> QED BY <1>2, <1>3, <1>4 DEF Steps

\* So may that of a granted timer.
LEMMA TimerReady ==
  ASSUME IInv, ProgramIsTyped, at = "Arming"
  PROVE  Ready(TimerScheduled, "AwaitingTimer") /\ TimerScheduled.val \in 0 .. Ticks
<1>1. Wish.op = "wait" /\ answer.seq \in Seqs
  BY DEF IInv, Memory, Placed, AtGrant
<1>2. Now(Wish.arg) \in 0 .. Ticks /\ Now(Wish.arg) \in Readings
  BY DriverAssumption DEF IInv, BankInv, BankTyped, Now
<1>3. TimerScheduled \in Records
  BY <1>1, <1>2, WishTyped DEF TimerScheduled, Boundary, Records
<1>4. Kernel!StateAfter(TimerScheduled) = "AwaitingTimer"
  BY DEF Kernel!StateAfter, TimerScheduled, Boundary, Kernel!TerminalTypes
<1>5. Ready(TimerScheduled, Kernel!StateAfter(TimerScheduled))
  BY <1>3, GrantReady DEF TimerScheduled, Boundary, BoundaryTypes
<1> QED BY <1>2, <1>4, <1>5 DEF TimerScheduled, Boundary

\* So may the marker of a granted gate.
LEMMA MarkerReady ==
  ASSUME IInv, ProgramIsTyped, at = "Marking"
  PROVE  Ready(VersionMarker, "Replaying")
<1>1. Wish.op = "gate" /\ answer.seq \in Seqs
  BY DEF IInv, Memory, Placed, AtGrant
<1>2. fw \in Versions
  BY DEF IInv, BankInv, BankTyped
<1>3. VersionMarker \in Records
  BY <1>1, <1>2, WishTyped DEF VersionMarker, Boundary, Records
<1>4. Kernel!StateAfter(VersionMarker) = "Replaying"
  BY DEF Kernel!StateAfter, VersionMarker, Boundary, Kernel!TerminalTypes
<1>5. Ready(VersionMarker, Kernel!StateAfter(VersionMarker))
  BY <1>3, GrantReady DEF VersionMarker, Boundary, BoundaryTypes
<1> QED BY <1>4, <1>5

\* So may an outcome the world answers with.
LEMMA OutcomeReady ==
  ASSUME IInv, at = "Performing", NEW type \in OutcomeTypes, NEW val \in Payloads
  PROVE  Ready(Outcome(type, val), "Replaying")
<1>1. stop = "None" /\ Agrees
  BY DEF IInv, Memory, Placed, AtRest, Following
<1>2. source = "Spent" /\ cursor.state = "AwaitingOutcome" /\ phase = "Settled" /\ Kernel!IInv
  BY DEF IInv, Memory, Placed, AtBoundary
<1>3. cursor.open \in Records
  BY <1>2, Standing
<1>4. cursor.open.seq \in Seqs
  BY <1>3, Kernel!RecordTypes, Vocabulary, MaxSeqAssumption, VersionsAssumption DEF Steps
<1>5. Outcome(type, val) \in Records
  BY <1>4 DEF Outcome, Records
<1>6. Kernel!Accepts(cursor, Outcome(type, val))
  BY <1>2, Vocabulary DEF Kernel!Accepts, Outcome
<1>7. Kernel!StateAfter(Outcome(type, val)) = "Replaying"
  BY DEF Kernel!StateAfter, Outcome, Kernel!TerminalTypes, OutcomeTypes
<1>8. Timely(Outcome(type, val))
  BY DEF Timely, Outcome, OutcomeTypes
<1>9. Reached = Len(log)
  BY <1>2 DEF Reached
<1> QED BY <1>1, <1>2, <1>5, <1>6, <1>7, <1>8, <1>9 DEF Ready

\* A timer in hand is the bank's open last record.
LEMMA TimerInHand ==
  ASSUME IInv, Timing
  PROVE  /\ Agrees /\ Reached = Len(log) /\ phase = "Settled" /\ source = "Writing"
         /\ cursor.state = "AwaitingTimer" /\ cursor.open \in Records
         /\ cursor.open.type = "TimerScheduled" /\ Len(log) \in 1 .. Len(log) /\ log # <<>>
         /\ log[Len(log)] = cursor.open /\ cursor.open.arg \in Specs
<1>1. Agrees
  BY DEF IInv, Memory, Placed, AtRest, Following, Timing
<1>2. source = "Writing" /\ cursor.state = "AwaitingTimer" /\ phase = "Settled" /\ Kernel!IInv
  BY DEF IInv, Memory, Placed, AtBoundary
<1>3. Reached = Len(log)
  BY <1>2 DEF Reached
<1>4. /\ cursor.open \in Records /\ cursor.open.type = "TimerScheduled"
      /\ accepted # <<>> /\ cursor.open = accepted[Len(accepted)] /\ accepted \in Seq(Records)
  BY <1>2, Standing
<1>5. Len(log) \in 1 .. Len(log) /\ log[Len(log)] = cursor.open /\ log # <<>>
  BY <1>1, <1>3, <1>4, Whole DEF IInv, BankInv
<1>6. cursor.open.arg \in Specs
  BY <1>4 DEF Records, OutcomeTypes, TerminalTypes
<1> QED BY <1>1, <1>2, <1>3, <1>4, <1>5, <1>6

\* So may the firing of a timer whose time has come.
LEMMA FiringReady ==
  ASSUME IInv, Passes
  PROVE  Ready(TimerFired, "Replaying")
<1>1. /\ Agrees /\ Reached = Len(log) /\ phase = "Settled"
      /\ cursor.state = "AwaitingTimer" /\ cursor.open \in Records
      /\ log[Len(log)] = cursor.open /\ cursor.open.arg \in Specs
  BY TimerInHand DEF Passes, Timing
<1>2. cursor.open.seq \in Seqs
  BY <1>1, Kernel!RecordTypes, Vocabulary, MaxSeqAssumption, VersionsAssumption DEF Steps
<1>3. TimerFired \in Records
  BY <1>2 DEF TimerFired, Outcome, Records
<1>4. Kernel!Accepts(cursor, TimerFired)
  BY <1>1 DEF Kernel!Accepts, TimerFired, Outcome
<1>5. Kernel!StateAfter(TimerFired) = "Replaying"
  BY DEF Kernel!StateAfter, TimerFired, Outcome, Kernel!TerminalTypes
<1>6. Timely(TimerFired)
  <2>1. CASE cursor.open.arg.clock = "AfterBoot"
    <3>1. bootClock - timer.floor <= waited /\ timer.reading <= bootClock
      BY <2>1 DEF IInv, Memory, Placed, Measured, Timing, Passes
    <3>2. timer.reading - timer.floor >= cursor.open.arg.deadline
      BY <2>1 DEF Passes, Elapsed
    <3>3. cursor.open.arg.deadline \in Int
      <4>1. cursor.open.arg.deadline \in Deadlines
        BY <1>1 DEF Specs
      <4>2. Deadlines \subseteq Nat
        BY DriverAssumption
      <4>3. cursor.open.arg.deadline \in Nat
        BY <4>1, <4>2
      <4> QED BY <4>3
    <3>4. /\ timer.floor \in Int /\ timer.reading \in Int
          /\ bootClock \in Int /\ waited \in Int
      BY DriverAssumption DEF IInv, BankInv, BankTyped, Memory, MemTyped
    <3>5. waited >= cursor.open.arg.deadline
      BY <3>1, <3>2, <3>3, <3>4
    <3> QED BY <1>1, <2>1, <3>5 DEF Timely, TimerFired, Outcome
  <2>2. CASE cursor.open.arg.clock # "AfterBoot"
    BY <1>1, <2>2 DEF Passes, Elapsed, Timely, TimerFired, Outcome
  <2> QED BY <2>1, <2>2
<1> QED BY <1>1, <1>3, <1>4, <1>5, <1>6 DEF Ready

\* The record that starts a run is its bank's first.
LEMMA StartReady ==
  ASSUME IInv, at = "Opening", log = <<>>
  PROVE  Ready(Started, "Replaying")
<1>1. /\ source = "Scanning" /\ pos = 0 /\ cursor.state = "BeforeRun" /\ phase = "Settled"
      /\ stop = "None" /\ Agrees
  BY DEF IInv, Memory, Placed, AtRest, Following
<1>2. Started \in Records
  BY DEF IInv, BankInv, BankTyped, Started, Records
<1>3. Kernel!Accepts(cursor, Started)
  BY <1>1 DEF Kernel!Accepts, Started
<1>4. Kernel!StateAfter(Started) = "Replaying"
  BY DEF Kernel!StateAfter, Started, Kernel!TerminalTypes
<1>5. Timely(Started) /\ Reached = Len(log)
  BY <1>1 DEF Timely, Started, Reached
<1> QED BY <1>1, <1>2, <1>3, <1>4, <1>5 DEF Ready

\* The record a run ends with may follow the bank's last.
LEMMA EndWrites ==
  ASSUME IInv, at = "Ending", Admits(accepted[Len(accepted)]),
         Written(accepted[Len(accepted)]) \/ Unwritten(accepted[Len(accepted)]),
         UNCHANGED <<world, performed>>
  PROVE  BankStep
<1>1. /\ log # <<>> /\ accepted # <<>> /\ accepted[Len(accepted)].type \in TerminalTypes
      /\ History!Follows(log[Len(log)], accepted[Len(accepted)])
  BY DEF IInv, Memory, Placed, AtEnd
<1>2. accepted \in Seq(Records)
  BY Standing DEF IInv, Memory
<1>3. accepted[Len(accepted)] \in Records
  BY <1>1, <1>2
<1>4. History!Legal(accepted[Len(accepted)])
  BY <1>1 DEF History!Legal
<1>5. Timely(accepted[Len(accepted)])
  BY <1>1 DEF Timely, TerminalTypes
<1> QED BY <1>3, <1>4, <1>5 DEF Writes, BankStep

-----------------------------------------------------------------------------
(* Boots                                                                   *)

\* What a step that leaves the bank alone owes.
LEMMA KeepsStep ==
  ASSUME UNCHANGED <<bank, world, performed>>
  PROVE  BankStep
BY DEF BankStep, Keeps

\* What a step that leaves a boot owes.
LEMMA DownStep ==
  ASSUME IInv, at' = "Down", Blank, BankStep
  PROVE  BankStep /\ Memory'
<1>1. log' \in Seq(Records)
  BY BankInvariant DEF IInv, BankInv, BankTyped
<1> QED BY <1>1, BlankMemory

\* A boot that gives up touches no bank.
LEMMA GoesDownStep ==
  ASSUME IInv, GoesDown, UNCHANGED world
  PROVE  BankStep /\ Memory'
<1>1. at' = "Down" /\ Blank /\ UNCHANGED <<bank, world, performed>>
  BY DEF GoesDown, ghosts
<1> QED BY <1>1, KeepsStep, DownStep

\* A boot begins by scanning.
LEMMA BootStep ==
  ASSUME IInv, Boot
  PROVE  BankStep /\ Memory'
<1>1. /\ at' = "Opening" /\ source' = "Scanning" /\ at = "Down"
      /\ UNCHANGED <<log, pos, cursor, phase, answer, accepted, version, stop, hand, timer>>
  BY DEF Boot, bank, kernel
<1>2. /\ stop = "None" /\ pos = 0 /\ cursor.state = "BeforeRun" /\ phase = "Settled"
      /\ Kernel!IInv /\ MemTyped
  BY <1>1 DEF IInv, Memory, Placed, AtRest
<1>3. accepted = <<>>
  BY <1>2, Standing
<1>4. Kernel!IInv'
  BY <1>1, <1>2, Kernel!StepIInv, MaxSeqAssumption, VersionsAssumption DEF Kernel!vars
<1>5. MemTyped'
  BY <1>1, <1>2 DEF MemTyped, Places
<1>6. Agrees'
  BY <1>1, <1>2, <1>3 DEF Agrees, Reached
<1>7. Placed'
  BY <1>1, <1>2, <1>6 DEF Placed, Following, AtRest, AtGrant, AtBoundary, AtEnd, Measured, Timing
<1>8. BankStep
  BY KeepsStep DEF Boot, ghosts
<1> QED BY <1>4, <1>5, <1>7, <1>8 DEF Memory

\* The kernel is let be.
LEMMA KernelRests ==
  ASSUME Kernel!IInv, UNCHANGED kernel
  PROVE  Kernel!IInv'
BY Kernel!StepIInv, MaxSeqAssumption, VersionsAssumption DEF Kernel!vars, kernel

\* A run whose start is on media is begun from it.
LEMMA BeginRecordedStep ==
  ASSUME IInv, BeginRecorded
  PROVE  BankStep /\ Memory'
<1>1. CASE GoesDown
  BY <1>1, GoesDownStep DEF BeginRecorded
<1>2. CASE /\ log[1].val \in Supported
           /\ Machine!Advance(log[1]) /\ Peeks /\ Follow("Step", "Running")
           /\ version' = log[1].val
           /\ UNCHANGED <<bank, hand, timer, obs, ghosts>>
  <2>1. at = "Opening" /\ log # <<>> /\ UNCHANGED <<log, world, performed, hand, timer>>
    BY <1>2 DEF BeginRecorded, ghosts, bank
  <2>2. /\ source = "Scanning" /\ pos = 0 /\ stop = "None" /\ phase = "Settled" /\ Agrees
        /\ cursor.state = "BeforeRun" /\ Kernel!IInv /\ BankTyped /\ MemTyped
        /\ accepted \in Seq(Records)
    BY <2>1, Standing DEF IInv, BankInv, Memory, Placed, AtRest, Following
  <2>3. log[1] \in Records /\ log[1].type = "RunStarted" /\ Len(log) \in Nat /\ Len(log) > 0
    BY <2>1, <2>2 DEF BankTyped
  <2>4. Offered = log[1] /\ Offered # EndOfHistory
    <3>1. Offered = log[1]
      BY <2>2, <2>3 DEF Offered
    <3>2. Offered # EndOfHistory
      BY <2>3, <3>1 DEF EndOfHistory
    <3> QED BY <3>1, <3>2
  <2>5. /\ Kernel!IInv' /\ answer'.kind = "Step" /\ accepted' = Append(accepted, Offered)
        /\ cursor'.state = "Replaying" /\ phase' = "Settled"
    <3>1. Kernel!Accepts(cursor, log[1])
      BY <2>2, <2>3 DEF Kernel!Accepts
    <3>2. Kernel!StateAfter(log[1]) = "Replaying"
      BY <2>3 DEF Kernel!StateAfter, Kernel!TerminalTypes
    <3> QED BY <1>2, <2>2, <2>3, <2>4, <3>1, <3>2, Advances DEF Consuming
  <2>6. Agrees' /\ source' = source /\ pos' \in 0 .. Len(log')
    BY <1>2, <2>1, <2>2, <2>4, <2>5, Scans
  <2>7. at' = "Running" /\ stop' = "None"
    BY <1>2, <2>5, GrantGoes
  <2>8. version' \in Versions \cup {NoArg}
    BY <1>2, <2>3 DEF Records, OutcomeTypes, TerminalTypes
  <2>9. MemTyped'
    BY <2>1, <2>2, <2>6, <2>7, <2>8 DEF MemTyped, Places, Stops
  <2>10. Placed'
    BY <2>5, <2>6, <2>7, RunningPlaced
  <2>11. BankStep
    BY <1>2, <2>1, KeepsStep
  <2> QED BY <2>5, <2>9, <2>10, <2>11 DEF Memory
<1> QED BY <1>1, <1>2 DEF BeginRecorded

\* A run without one writes it.
LEMMA BeginFreshStep ==
  ASSUME IInv, BeginFresh
  PROVE  BankStep /\ Memory'
<1>1. CASE GoesDown
  BY <1>1, GoesDownStep DEF BeginFresh
<1>2. CASE /\ header \in Supported /\ Admits(Started)
           /\ Written(Started) /\ Machine!Advance(Started) /\ Peeks /\ Follow("Step", "Running")
           /\ version' = fw
           /\ UNCHANGED <<hand, timer, obs, ghosts>>
  <2>1. at = "Opening" /\ log = <<>> /\ UNCHANGED <<world, performed, hand, timer>>
    BY <1>2 DEF BeginFresh, ghosts
  <2>2. pos = 0 /\ BankTyped /\ MemTyped
    BY <2>1 DEF IInv, BankInv, Memory, Placed, AtRest
  <2>3. Offered = EndOfHistory /\ source' = "Writing" /\ pos' = 0
    BY <1>2, <2>1, <2>2 DEF Offered, Peeks
  <2>4. Ready(Started, "Replaying")
    BY <2>1, StartReady
  <2>5. /\ Kernel!IInv' /\ answer'.kind = "Step" /\ Agrees' /\ Len(log') \in Nat
        /\ cursor'.state = "Replaying" /\ phase' = "Settled"
    BY <1>2, <2>3, <2>4, ReadyTaken
  <2>6. at' = "Running" /\ stop' = "None"
    BY <1>2, <2>5, GrantGoes
  <2>7. MemTyped'
    BY <1>2, <2>1, <2>2, <2>3, <2>5, <2>6 DEF MemTyped, BankTyped, Places, Stops
  <2>8. Placed'
    BY <2>5, <2>6, RunningPlaced
  <2>9. BankStep
    BY <1>2, <2>1, <2>4, ReadyWrites
  <2> QED BY <2>5, <2>7, <2>8, <2>9 DEF Memory
<1> QED BY <1>1, <1>2 DEF BeginFresh

-----------------------------------------------------------------------------
(* Effects                                                                 *)

\* What a boot that goes on knows where it stands.
LEMMA Going ==
  ASSUME IInv
  PROVE  /\ BankTyped /\ MemTyped /\ Kernel!IInv /\ accepted \in Seq(Records)
         /\ Len(log) \in Nat /\ pos \in 0 .. Len(log) /\ log \in Seq(Records)
         /\ at \notin {"Down", "Ending"} /\ stop \in {"None", "NearCapacity", "WaitingUntil"} => Agrees
         /\ at # "Running" => stop = "None"
BY Standing DEF IInv, BankInv, BankTyped, Memory, MemTyped, Placed, Following, AtRest

\* A granted effect is written, and handed out.
LEMMA ScheduleStep ==
  ASSUME IInv, ProgramIsTyped, Schedule
  PROVE  BankStep /\ Memory'
<1>1. /\ at = "Scheduling" /\ Written(EffectScheduled) /\ Machine!Advance(EffectScheduled)
      /\ Admits(EffectScheduled)
      /\ hand' = EffectScheduled /\ source' = "Spent" /\ Follow("Step", "Dispatching")
      /\ UNCHANGED <<world, pos, version, timer, performed>>
  BY DEF Schedule, Untold, ghosts
<1>2. Ready(EffectScheduled, "AwaitingOutcome") /\ EffectScheduled \in Steps
  BY <1>1, EffectReady
<1>3. OpensBoundary(EffectScheduled)
  BY DEF EffectScheduled, Boundary, OpensBoundary
<1>4. /\ Kernel!IInv' /\ answer'.kind = "Step" /\ Agrees' /\ Len(log') \in Nat
      /\ cursor'.state = "AwaitingOutcome" /\ phase' = "Settled"
      /\ cursor'.open = hand' /\ Len(log) <= Len(log')
  BY <1>1, <1>2, <1>3, ReadyTaken
<1>5. at' = "Dispatching" /\ stop' = "None"
  BY <1>1, <1>4, GrantGoes
<1>6. Placed'
  BY <1>1, <1>4, <1>5, DispatchPlaced
<1>7. MemTyped'
  BY <1>1, <1>2, <1>4, <1>5, Going DEF MemTyped, Places, Stops
<1>8. BankStep
  BY <1>1, <1>2, ReadyWrites
<1> QED BY <1>4, <1>6, <1>7, <1>8 DEF Memory

\* An effect whose outcome history holds is answered from it.
LEMMA ReplayStep ==
  ASSUME IInv, Replay
  PROVE  BankStep /\ Memory'
<1>1. /\ at = "Answering" /\ Machine!Outcome(Offered) /\ Peeks
      /\ answer'.kind # "Redeliver" /\ Follow("Replayed", "Running")
      /\ UNCHANGED <<bank, world, version, timer, hand, performed>> /\ log' = log
  BY DEF Replay, Answering, Observe, Untold, ghosts, bank
<1>2. /\ BankTyped /\ MemTyped /\ Kernel!IInv /\ Agrees /\ accepted \in Seq(Records)
      /\ cursor.state = "AwaitingOutcome" /\ phase = "AwaitingOutcome"
  BY <1>1, Going DEF IInv, Memory, Placed, AtBoundary
<1>3. Offered \in Steps
  BY <1>2, Offers
<1>4. Kernel!IInv' /\ Settling(Offered, "Redeliver", "Replayed")
  BY <1>1, <1>2, <1>3, EffectSettles
<1>5. pos' \in 0 .. Len(log') /\ source' \in {"Taken", "Scanning", "Writing", "Spent"}
  BY <1>1, <1>2, PeekTyped
<1>6. BankStep
  BY <1>1, KeepsStep
<1>7. CASE Consuming(Offered, "Replayed", "Replaying", "Settled")
  <2>1. Offered # EndOfHistory
    BY <1>7 DEF Consuming, Records, EndOfHistory, OutcomeTypes, TerminalTypes
  <2>2. Agrees'
    BY <1>1, <1>2, <1>7, <2>1, Scans DEF Consuming
  <2>3. at' = "Running" /\ stop' = "None"
    BY <1>1, <1>7, GrantGoes DEF Consuming
  <2>4. Placed'
    BY <1>7, <2>2, <2>3, RunningPlaced DEF Consuming
  <2>5. MemTyped'
    BY <1>1, <1>2, <1>5, <2>3 DEF MemTyped, Places, Stops
  <2> QED BY <1>4, <1>6, <2>4, <2>5 DEF Memory
<1>8. CASE Refusing
  <2>1. at' = "Running" /\ stop' \in Over
    BY <1>1, <1>8, RefusalEnds DEF Machine!KernelErrors
  <2>2. MemTyped'
    BY <1>1, <1>2, <1>5, <2>1 DEF MemTyped, Places, Over
  <2> QED BY <1>4, <1>6, <2>1, <2>2, StoppedPlaced DEF Memory
<1> QED BY <1>1, <1>4, <1>7, <1>8 DEF Settling

\* An effect history ends with is handed out again.
LEMMA RedeliverStep ==
  ASSUME IInv, Redeliver
  PROVE  BankStep /\ Memory'
<1>1. /\ at = "Answering" /\ Machine!Outcome(Offered) /\ answer'.kind = "Redeliver"
      /\ pos' = pos /\ source' = "Spent" /\ hand' = cursor.open /\ Follow("Redeliver", "Dispatching")
      /\ UNCHANGED <<bank, world, version, timer, performed>> /\ log' = log
  BY DEF Redeliver, Untold, ghosts, bank
<1>2. /\ BankTyped /\ MemTyped /\ Kernel!IInv /\ Agrees
      /\ cursor.state = "AwaitingOutcome" /\ phase = "AwaitingOutcome"
  BY <1>1, Going DEF IInv, Memory, Placed, AtBoundary
<1>3. Offered \in Steps
  BY <1>2, Offers
<1>4. Kernel!IInv' /\ Settling(Offered, "Redeliver", "Replayed")
  BY <1>1, <1>2, <1>3, EffectSettles
<1>5. /\ Offered = EndOfHistory /\ cursor' = cursor /\ accepted' = accepted
      /\ phase' = "Settled"
  BY <1>1, <1>4 DEF Settling, Consuming, Refusing, Machine!KernelErrors
<1>6. Agrees'
  BY <1>1, <1>2, <1>5, Offers, Rests
<1>7. at' = "Dispatching" /\ stop' = "None"
  BY <1>1, GrantGoes
<1>8. Placed'
  BY <1>1, <1>2, <1>5, <1>6, <1>7, DispatchPlaced
<1>9. cursor.open \in Steps
  BY <1>2, Vocabulary DEF Kernel!IInv, Kernel!TypeOK
<1>10. MemTyped'
  BY <1>1, <1>2, <1>7, <1>9 DEF MemTyped, Places, Stops
<1>11. BankStep
  BY <1>1, KeepsStep
<1> QED BY <1>4, <1>8, <1>10, <1>11 DEF Memory

\* What is handed out is the bank's open last record.
LEMMA EffectInHand ==
  ASSUME IInv, at \in {"Dispatching", "Performing"}
  PROVE  /\ Agrees /\ log # <<>> /\ Len(log) \in 1 .. Len(log)
         /\ log[Len(log)] = hand /\ hand.type = "EffectScheduled"
<1>1. Agrees /\ Kernel!IInv /\ accepted \in Seq(Records) /\ BankTyped
  BY Going
<1>2. source = "Spent" /\ cursor.state = "AwaitingOutcome" /\ hand = cursor.open
  BY DEF IInv, Memory, Placed, AtBoundary
<1>3. /\ accepted # <<>> /\ cursor.open = accepted[Len(accepted)]
      /\ cursor.open.type = "EffectScheduled"
  BY <1>1, <1>2, Standing
<1>4. Reached = Len(log)
  BY <1>2 DEF Reached
<1> QED BY <1>1, <1>2, <1>3, <1>4, Whole

\* The world is asked for what was handed out.
LEMMA PerformStep ==
  ASSUME IInv, Perform
  PROVE  BankStep /\ Memory'
<1>1. /\ at = "Dispatching" /\ at' = "Performing" /\ performed' = performed \cup {hand}
      /\ UNCHANGED <<bank, world, source, pos, version, stop, hand, timer>>
      /\ UNCHANGED kernel /\ log' = log
  BY DEF Perform, scan, bank
<1>2. /\ BankTyped /\ MemTyped /\ Kernel!IInv /\ stop = "None" /\ Agrees
      /\ source = "Spent" /\ cursor.state = "AwaitingOutcome" /\ phase = "Settled"
      /\ hand = cursor.open
  BY <1>1, Going DEF IInv, Memory, Placed, AtBoundary
<1>3. Kernel!IInv' /\ cursor' = cursor /\ phase' = phase /\ accepted' = accepted
  BY <1>1, <1>2, KernelRests DEF kernel
<1>4. Agrees'
  BY <1>1, <1>2, <1>3, Rests
<1>5. Placed'
  BY <1>1, <1>2, <1>3, <1>4, DispatchPlaced
<1>6. MemTyped'
  BY <1>1, <1>2 DEF MemTyped, Places
<1>7. BankStep
  BY <1>1, EffectInHand DEF BankStep, Keeps
<1> QED BY <1>3, <1>5, <1>6, <1>7 DEF Memory

\* A boot that stops where it stands owes nothing more.
LEMMA StopsStep ==
  ASSUME IInv, at' = "Running", stop' \in Over,
         UNCHANGED <<bank, world, scan, kernel, version, hand, timer, performed>>
  PROVE  BankStep /\ Memory'
<1>1. Kernel!IInv'
  BY Going, KernelRests
<1>2. MemTyped'
  BY Going DEF MemTyped, Places, Over, scan, bank
<1> QED BY <1>1, <1>2, StoppedPlaced, KeepsStep DEF Memory

\* The world does not answer yet.
LEMMA PendingStep ==
  ASSUME IInv, Pending
  PROVE  BankStep /\ Memory'
<1>1. at' = "Running" /\ stop' \in Over
  BY DEF Pending, Stands, Over, Stops
<1> QED BY <1>1, StopsStep DEF Pending, Untold, ghosts

\* The world answers, and its answer is written.
LEMMA ResolveStep ==
  ASSUME IInv, NEW type \in OutcomeTypes, NEW val \in Payloads, Resolve(type, val)
  PROVE  BankStep /\ Memory'
<1>1. /\ at = "Performing" /\ Written(Outcome(type, val)) /\ Machine!Advance(Outcome(type, val))
      /\ Admits(Outcome(type, val))
      /\ hand' = NoRecord /\ source' = "Writing" /\ Follow("Step", "Running")
      /\ UNCHANGED <<world, pos, version, timer, performed>>
  BY DEF Resolve, Observe
<1>2. Ready(Outcome(type, val), "Replaying")
  BY <1>1, OutcomeReady
<1>3. /\ Kernel!IInv' /\ answer'.kind = "Step" /\ Agrees' /\ Len(log') \in Nat
      /\ cursor'.state = "Replaying" /\ phase' = "Settled" /\ Len(log) <= Len(log')
  BY <1>1, <1>2, ReadyTaken
<1>4. at' = "Running" /\ stop' = "None"
  BY <1>1, <1>3, GrantGoes
<1>5. Placed'
  BY <1>3, <1>4, RunningPlaced
<1>6. hand' \in Steps
  BY <1>1 DEF NoRecord, Steps
<1>7. MemTyped'
  BY <1>1, <1>3, <1>4, <1>6, Going DEF MemTyped, Places, Stops
<1>8. BankStep
  BY <1>1, <1>2, ReadyWrites
<1> QED BY <1>3, <1>5, <1>7, <1>8 DEF Memory

-----------------------------------------------------------------------------
(* Timers and gates                                                        *)

\* A granted timer is written, and measured from then on.
LEMMA ArmStep ==
  ASSUME IInv, ProgramIsTyped, Arm
  PROVE  BankStep /\ Memory'
<1>1. /\ at = "Arming" /\ Written(TimerScheduled) /\ Machine!Advance(TimerScheduled)
      /\ Admits(TimerScheduled) /\ Follow("Step", "Reading")
      /\ timer' = [floor |-> TimerScheduled.val, reading |-> 0]
      /\ UNCHANGED <<world, source, pos, version, hand, performed>>
  BY DEF Arm, Untold, ghosts, scan
<1>2. Ready(TimerScheduled, "AwaitingTimer") /\ TimerScheduled.val \in 0 .. Ticks
  BY <1>1, TimerReady
<1>3. source = "Writing" /\ source' = "Writing"
  BY <1>1 DEF IInv, Memory, Placed, AtGrant
<1>4. OpensBoundary(TimerScheduled)
  BY DEF TimerScheduled, Boundary, OpensBoundary
<1>5. /\ Kernel!IInv' /\ answer'.kind = "Step" /\ Agrees' /\ Len(log') \in Nat
      /\ cursor'.state = "AwaitingTimer" /\ phase' = "Settled"
      /\ cursor'.open = TimerScheduled /\ Len(log) <= Len(log')
  BY <1>1, <1>2, <1>3, <1>4, ReadyTaken
<1>6. at' = "Reading" /\ stop' = "None"
  BY <1>1, <1>5, GrantGoes
<1>7. cursor'.open.arg.clock = "AfterBoot" => bootClock' - timer'.floor <= waited'
  <2>1. ASSUME cursor'.open.arg.clock = "AfterBoot"
        PROVE  timer'.floor = bootClock
    BY <1>1, <1>5, <2>1 DEF TimerScheduled, Boundary, Now
  <2>2. bootClock' = bootClock /\ bootClock \in Int /\ waited' = 0
    BY <1>1, DriverAssumption DEF world, Written, IInv, BankInv, BankTyped
  <2> QED BY <2>1, <2>2
<1>8. Placed'
  BY <1>3, <1>5, <1>6, <1>7, TimingPlaced
<1>9. timer' \in [floor : 0 .. Ticks, reading : 0 .. Ticks]
  BY <1>1, <1>2, DriverAssumption
<1>10. MemTyped'
  BY <1>1, <1>5, <1>6, <1>9, Going DEF MemTyped, Places, Stops
<1>11. BankStep
  BY <1>1, <1>2, ReadyWrites
<1> QED BY <1>5, <1>8, <1>10, <1>11 DEF Memory

\* A timer whose firing history holds is answered from it.
LEMMA FiredStep ==
  ASSUME IInv, Fired
  PROVE  BankStep /\ Memory'
<1>1. /\ at = "Firing" /\ Machine!TimerOutcome(Offered) /\ Peeks
      /\ answer'.kind # "Rearm" /\ Follow("Fired", "Running")
      /\ UNCHANGED <<bank, world, version, timer, hand, performed>> /\ log' = log
  BY DEF Fired, Observe, Untold, ghosts, bank
<1>2. /\ BankTyped /\ MemTyped /\ Kernel!IInv /\ Agrees /\ accepted \in Seq(Records)
      /\ cursor.state = "AwaitingTimer" /\ phase = "AwaitingFiring"
  BY <1>1, Going DEF IInv, Memory, Placed, AtBoundary
<1>3. Offered \in Steps
  BY <1>2, Offers
<1>4. Kernel!IInv' /\ Settling(Offered, "Rearm", "Fired")
  BY <1>1, <1>2, <1>3, TimerSettles
<1>5. pos' \in 0 .. Len(log') /\ source' \in {"Taken", "Scanning", "Writing", "Spent"}
  BY <1>1, <1>2, PeekTyped
<1>6. BankStep
  BY <1>1, KeepsStep
<1>7. CASE Consuming(Offered, "Fired", "Replaying", "Settled")
  <2>1. Offered # EndOfHistory
    BY <1>7 DEF Consuming, Records, EndOfHistory, OutcomeTypes, TerminalTypes
  <2>2. Agrees'
    BY <1>1, <1>2, <1>7, <2>1, Scans DEF Consuming
  <2>3. at' = "Running" /\ stop' = "None"
    BY <1>1, <1>7, GrantGoes DEF Consuming
  <2>4. Placed'
    BY <1>7, <2>2, <2>3, RunningPlaced DEF Consuming
  <2>5. MemTyped'
    BY <1>1, <1>2, <1>5, <2>3 DEF MemTyped, Places, Stops
  <2> QED BY <1>4, <1>6, <2>4, <2>5 DEF Memory
<1>8. CASE Refusing
  <2>1. at' = "Running" /\ stop' \in Over
    BY <1>1, <1>8, RefusalEnds DEF Machine!KernelErrors
  <2>2. MemTyped'
    BY <1>1, <1>2, <1>5, <2>1 DEF MemTyped, Places, Over
  <2> QED BY <1>4, <1>6, <2>1, <2>2, StoppedPlaced DEF Memory
<1> QED BY <1>1, <1>4, <1>7, <1>8 DEF Settling

\* A timer history ends with is measured again.
LEMMA RearmStep ==
  ASSUME IInv, Rearm
  PROVE  BankStep /\ Memory'
<1>1. /\ at = "Firing" /\ Machine!TimerOutcome(Offered) /\ Peeks
      /\ answer'.kind = "Rearm" /\ Follow("Rearm", "Measuring")
      /\ timer' = [floor |-> RearmedAt(cursor.open.arg, answer'.val),
                   reading |-> Now(cursor.open.arg)]
      /\ UNCHANGED <<bank, world, version, hand, performed, log, bootClock, waited>>
  BY DEF Rearm, Untold, ghosts, bank, world
<1>2. /\ BankTyped /\ MemTyped /\ Kernel!IInv /\ Agrees /\ accepted \in Seq(Records)
      /\ cursor.state = "AwaitingTimer" /\ phase = "AwaitingFiring"
  BY <1>1, Going DEF IInv, Memory, Placed, AtBoundary
<1>3. Offered \in Steps
  BY <1>2, Offers
<1>4. /\ Kernel!IInv' /\ Settling(Offered, "Rearm", "Fired") /\ answer'.val = cursor.open.val
  BY <1>1, <1>2, <1>3, TimerSettles
<1>5. /\ Offered = EndOfHistory /\ cursor' = cursor /\ accepted' = accepted
      /\ phase' = "Settled"
  BY <1>1, <1>4 DEF Settling, Consuming, Refusing, Machine!KernelErrors
<1>6. /\ Agrees' /\ source' = "Writing" /\ pos' \in 0 .. Len(log') /\ Reached = Len(log)
  BY <1>1, <1>2, <1>5, Offers, ScanEnds
<1>7. at' = "Measuring" /\ stop' = "None"
  BY <1>1, GrantGoes
<1>8. /\ log # <<>> /\ Len(log) \in 1 .. Len(log) /\ log[Len(log)] = cursor.open
      /\ cursor.open.type = "TimerScheduled"
  BY <1>2, <1>6, Standing, Whole
<1>9. /\ cursor.open.val \in 0 .. Ticks
      /\ cursor.open.arg.clock = "AfterBoot" => bootClock - cursor.open.val <= waited
  BY <1>8 DEF IInv, BankInv, Clocked
<1>10. bootClock \in 0 .. Ticks /\ rtc \in 0 .. Ticks /\ waited \in 0 .. Ticks /\ Ticks \in Nat
  BY <1>2, DriverAssumption DEF BankTyped
<1>11. timer' \in [floor : 0 .. Ticks, reading : 0 .. Ticks]
  <2>1. Now(cursor.open.arg) \in 0 .. Ticks
    BY <1>10 DEF Now
  <2>2. RearmedAt(cursor.open.arg, answer'.val) \in 0 .. Ticks
    BY <1>4, <1>9, <2>1 DEF RearmedAt
  <2> QED BY <1>1, <2>1, <2>2
<1>12. ASSUME cursor.open.arg.clock = "AfterBoot"
       PROVE  bootClock' - timer'.floor <= waited' /\ timer'.reading <= bootClock'
  <2>1. timer'.reading = bootClock
    BY <1>1, <1>12 DEF Now
  <2>2. timer'.floor = IF bootClock < cursor.open.val THEN bootClock ELSE cursor.open.val
    BY <1>1, <1>4, <1>12 DEF RearmedAt, Now
  <2> QED BY <1>1, <1>9, <1>10, <1>12, <2>1, <2>2
<1>13. Placed'
  BY <1>2, <1>5, <1>6, <1>7, <1>12, TimingPlaced
<1>14. MemTyped'
  BY <1>1, <1>2, <1>6, <1>7, <1>11 DEF MemTyped, Places, Stops
<1>15. BankStep
  BY <1>1, KeepsStep
<1> QED BY <1>4, <1>13, <1>14, <1>15 DEF Memory

\* A timer in hand stays in hand while the driver reads or measures.
LEMMA TimingStep ==
  ASSUME IInv, Timing, UNCHANGED <<bank, world, scan, kernel, version, hand, performed>>,
         \/ at' \in {"Reading", "Measuring"} /\ stop' = "None"
         \/ at' = "Running" /\ stop' = "WaitingUntil",
         timer' \in [floor : 0 .. Ticks, reading : 0 .. Ticks], timer'.floor = timer.floor,
         at' = "Measuring" /\ cursor.open.arg.clock = "AfterBoot" => timer'.reading <= bootClock
  PROVE  BankStep /\ Memory'
<1>1. UNCHANGED <<log, waited, bootClock, source, pos, cursor, phase, accepted>>
  BY DEF bank, world, scan, kernel
<1>2. /\ Agrees /\ source = "Writing" /\ cursor.state = "AwaitingTimer" /\ phase = "Settled"
      /\ BankTyped /\ MemTyped
  BY TimerInHand, Going
<1>3. Agrees'
  BY <1>1, <1>2, Rests
<1>4. cursor.open.arg.clock = "AfterBoot" => bootClock - timer.floor <= waited
  BY DEF IInv, Memory, Placed, Measured
<1>5. Placed'
  BY <1>1, <1>2, <1>3, <1>4, TimingPlaced
<1>6. MemTyped'
  BY <1>1, <1>2 DEF MemTyped, Places, Stops
<1>7. Kernel!IInv'
  BY Going, KernelRests
<1> QED BY <1>5, <1>6, <1>7, KeepsStep DEF Memory

\* A boot that waits for a timer polls it again.
LEMMA PollAgainStep ==
  ASSUME IInv, PollAgain
  PROVE  BankStep /\ Memory'
<1>1. Timing /\ at' = "Reading" /\ stop' = "None" /\ timer' = timer
  BY DEF PollAgain, Timing, Stands
<1>2. timer' \in [floor : 0 .. Ticks, reading : 0 .. Ticks]
  BY <1>1, Going DEF MemTyped
<1>3. UNCHANGED <<bank, world, scan, kernel, version, hand, performed>>
  BY DEF PollAgain, Untold, ghosts
<1> QED BY <1>1, <1>2, <1>3, TimingStep

\* Reading the clock moves nothing else.
LEMMA ReadStep ==
  ASSUME IInv, Read
  PROVE  BankStep /\ Memory'
<1>1. /\ Timing /\ at' = "Measuring" /\ timer' = [timer EXCEPT !.reading = Now(cursor.open.arg)]
      /\ UNCHANGED <<bank, world, scan, kernel, version, stop, hand, performed>>
  BY DEF Read, Timing, Untold, ghosts
<1>2. stop' = "None"
  BY <1>1, Going DEF Read
<1>3. timer \in [floor : 0 .. Ticks, reading : 0 .. Ticks]
  BY Going DEF MemTyped
<1>4. Now(cursor.open.arg) \in 0 .. Ticks
  BY Going DEF BankTyped, Now
<1>5. /\ timer' \in [floor : 0 .. Ticks, reading : 0 .. Ticks]
      /\ timer'.floor = timer.floor /\ timer'.reading = Now(cursor.open.arg)
  BY <1>1, <1>3, <1>4
<1>6. bootClock \in Int
  BY Going, DriverAssumption DEF BankTyped
<1>7. cursor.open.arg.clock = "AfterBoot" => timer'.reading <= bootClock
  BY <1>5, <1>6 DEF Now
<1> QED BY <1>1, <1>2, <1>5, <1>7, TimingStep

\* A timer short of its deadline waits.
LEMMA NotYetStep ==
  ASSUME IInv, NotYet
  PROVE  BankStep /\ Memory'
<1>1. /\ Timing /\ at' = "Running" /\ stop' \in {"ClockWentBackwards", "WaitingUntil"}
      /\ UNCHANGED <<bank, world, scan, kernel, version, hand, timer, performed>>
  BY DEF NotYet, Timing, Stands, Untold, ghosts
<1>2. CASE stop' = "ClockWentBackwards"
  BY <1>1, <1>2, StopsStep DEF Over, Stops
<1>3. CASE stop' = "WaitingUntil"
  <2>1. timer' \in [floor : 0 .. Ticks, reading : 0 .. Ticks] /\ timer' = timer
    BY <1>1, Going DEF MemTyped
  <2> QED BY <1>1, <1>3, <2>1, TimingStep
<1> QED BY <1>1, <1>2, <1>3

\* One at its deadline fires, and its firing is written.
LEMMA FireStep ==
  ASSUME IInv, Fire
  PROVE  BankStep /\ Memory'
<1>1. /\ Passes /\ Written(TimerFired) /\ Machine!Advance(TimerFired) /\ Follow("Step", "Running")
      /\ timer' = NoTimer /\ Admits(TimerFired)
      /\ UNCHANGED <<world, source, pos, version, hand, performed>>
  BY DEF Fire, Observe, scan
<1>2. Ready(TimerFired, "Replaying") /\ source' = "Writing"
  BY <1>1, FiringReady, TimerInHand DEF Passes, Timing
<1>3. /\ Kernel!IInv' /\ answer'.kind = "Step" /\ Agrees' /\ Len(log') \in Nat
      /\ cursor'.state = "Replaying" /\ phase' = "Settled" /\ Len(log) <= Len(log')
  BY <1>1, <1>2, ReadyTaken
<1>4. at' = "Running" /\ stop' = "None"
  BY <1>1, <1>3, GrantGoes
<1>5. Placed'
  BY <1>3, <1>4, RunningPlaced
<1>6. timer' \in [floor : 0 .. Ticks, reading : 0 .. Ticks]
  BY <1>1, DriverAssumption DEF NoTimer
<1>7. MemTyped'
  BY <1>1, <1>2, <1>3, <1>4, <1>6, Going DEF MemTyped, Places, Stops
<1>8. BankStep
  BY <1>1, <1>2, ReadyWrites
<1> QED BY <1>3, <1>5, <1>7, <1>8 DEF Memory

\* A granted gate writes its marker.
LEMMA MarkStep ==
  ASSUME IInv, ProgramIsTyped, Mark
  PROVE  BankStep /\ Memory'
<1>1. /\ at = "Marking" /\ Written(VersionMarker) /\ Machine!Advance(VersionMarker)
      /\ Admits(VersionMarker) /\ Follow("Step", "Running")
      /\ UNCHANGED <<world, source, pos, version, hand, timer, performed>>
  BY DEF Mark, Observe, scan
<1>2. Ready(VersionMarker, "Replaying") /\ source' = "Writing"
  BY <1>1, MarkerReady DEF IInv, Memory, Placed, AtGrant
<1>3. /\ Kernel!IInv' /\ answer'.kind = "Step" /\ Agrees' /\ Len(log') \in Nat
      /\ cursor'.state = "Replaying" /\ phase' = "Settled" /\ Len(log) <= Len(log')
  BY <1>1, <1>2, ReadyTaken
<1>4. at' = "Running" /\ stop' = "None"
  BY <1>1, <1>3, GrantGoes
<1>5. Placed'
  BY <1>3, <1>4, RunningPlaced
<1>6. MemTyped'
  BY <1>1, <1>2, <1>3, <1>4, Going DEF MemTyped, Places, Stops
<1>7. BankStep
  BY <1>1, <1>2, ReadyWrites
<1> QED BY <1>3, <1>5, <1>6, <1>7 DEF Memory

\* What the reserve refuses is not written; where history may go on, it can
\* still be left.
LEMMA RefusedStep ==
  ASSUME IInv, Refused
  PROVE  BankStep /\ Memory'
<1>1. CASE at \in {"Opening", "Ending"}
  BY <1>1, GoesDownStep DEF Refused
<1>2. CASE at \notin {"Opening", "Ending"}
  <2>1. /\ at \in {"Scheduling", "Performing", "Arming", "Measuring", "Marking"}
        /\ at' = "Running" /\ stop' = "NearCapacity" /\ log' = log
        /\ source' = IF at \in {"Scheduling", "Performing"} THEN "Spent" ELSE source
        /\ hand' \in {hand, NoRecord}
        /\ UNCHANGED <<bank, world, pos, kernel, version, timer, performed>>
    BY <1>2 DEF Refused, Due, Passes, Stands, Untold, ghosts, bank
  <2>2. BankTyped /\ MemTyped /\ Agrees
    BY <2>1, Going
  <2>3. /\ source \in {"Writing", "Spent"}
        /\ cursor.state \in {"Replaying", "AwaitingOutcome", "AwaitingTimer"}
    BY <2>1 DEF IInv, Memory, Placed, AtGrant, AtBoundary, Timing
  <2>4. Reached = Len(log) /\ source' \in {"Writing", "Spent"}
    BY <2>1, <2>3 DEF Reached
  <2>5. Kernel!IInv' /\ cursor' = cursor /\ phase' = phase /\ accepted' = accepted
    BY <2>1, Going, KernelRests DEF kernel
  <2>6. Agrees'
    BY <2>1, <2>2, <2>4, <2>5, Rests
  <2>7. Placed'
    BY <2>1, <2>3, <2>4, <2>5, <2>6, RefusedPlaced
  <2>8. hand' \in Steps
    BY <2>1, <2>2 DEF MemTyped, NoRecord, Steps
  <2>9. MemTyped'
    BY <2>1, <2>2, <2>4, <2>8 DEF MemTyped, Places, Stops
  <2> QED BY <2>1, <2>5, <2>7, <2>9, KeepsStep DEF Memory
<1> QED BY <1>1, <1>2

-----------------------------------------------------------------------------
(* The end of a run, and what goes wrong                                   *)

\* A run at its terminal record, written or about to be.
LEMMA EndingPlaced ==
  ASSUME at' = "Ending", stop' = "None", log' # <<>>, accepted' # <<>>,
         accepted'[Len(accepted')].type \in TerminalTypes,
         History!Follows(log'[Len(log')], accepted'[Len(accepted')])
  PROVE  Placed'
BY DEF Placed, Following, AtRest, AtGrant, AtBoundary, AtEnd, Measured, Timing

\* The workflow returns.
LEMMA ReturnStep ==
  ASSUME IInv, ProgramIsTyped, Return
  PROVE  BankStep /\ Memory'
<1>1. /\ at = "Running" /\ stop = "None" /\ Wish.op = "return" /\ Peeks /\ log' = log
      /\ UNCHANGED <<bank, world, version, hand, timer, performed>>
  BY DEF Return, Claims, Running, Untold, ghosts, bank
<1>2. /\ BankTyped /\ MemTyped /\ Kernel!IInv /\ Agrees /\ accepted \in Seq(Records)
      /\ cursor.state = "Replaying" /\ phase = "Settled"
  BY <1>1, Going DEF IInv, Memory, Placed, AtRest
<1>3. pos' \in 0 .. Len(log') /\ source' \in {"Taken", "Scanning", "Writing", "Spent"}
  BY <1>1, <1>2, PeekTyped
<1>4. BankStep
  BY <1>1, KeepsStep
<1>5. ASSUME at' \in Places, stop' \in Stops
      PROVE  MemTyped'
  BY <1>1, <1>2, <1>3, <1>5 DEF MemTyped
<1>6. CASE /\ Offered = EndOfHistory
           /\ Machine!Advance(Terminal(Wish.arg, Wish.val)) /\ Follow("Step", "Ending")
  <2> DEFINE rec == Terminal(Wish.arg, Wish.val)
  <2>1. rec \in Records /\ rec.type \in TerminalTypes
    BY <1>1, WishTyped DEF Terminal, Records
  <2>2. Kernel!Accepts(cursor, rec)
    BY <1>2, <2>1, Vocabulary DEF Kernel!Accepts
  <2> HIDE DEF rec
  <2>3. Kernel!IInv' /\ answer'.kind = "Step" /\ accepted' = Append(accepted, rec)
    <3>1. Machine!Advance(rec)
      BY <1>6 DEF rec
    <3> QED BY <1>2, <2>1, <2>2, <3>1, Advances DEF Consuming
  <2>4. at' = "Ending" /\ stop' = "None"
    BY <1>6, <2>3, GrantGoes
  <2>5. Reached = Len(log)
    BY <1>2, <1>6, Offers
  <2>6. log # <<>>
    BY <1>2, <2>5, Standing, Whole
  <2>7. History!Follows(log[Len(log)], rec)
    BY <1>2, <2>1, <2>2, <2>5, <2>6, MayFollow DEF History!Legal
  <2>8. accepted' # <<>> /\ accepted'[Len(accepted')] = rec
    BY <1>2, <2>1, <2>3, Appended
  <2>9. Placed'
    BY <1>1, <2>1, <2>4, <2>6, <2>7, <2>8, EndingPlaced
  <2> QED BY <1>4, <1>5, <2>3, <2>4, <2>9 DEF Memory, Places, Stops
<1>7. CASE /\ Offered.type \in TerminalTypes
           /\ Machine!Advance(Offered)
           /\ Stands("Running", IF answer'.kind # "Step" THEN answer'.kind
                                ELSE IF pos' = Len(log) THEN "Finished" ELSE "HistoryContinues")
  <2>1. Offered \in Records
    BY <1>2, <1>7, Offers DEF EndOfHistory, TerminalTypes
  <2>2. Kernel!IInv' /\ (Refusing \/ answer'.kind = "Step")
    BY <1>2, <1>7, <2>1, Advances DEF Consuming
  <2>3. at' = "Running" /\ stop' \in Over
    BY <1>7, <2>2 DEF Stands, Refusing, Over, Stops, Machine!KernelErrors
  <2> QED BY <1>4, <1>5, <2>2, <2>3, StoppedPlaced DEF Memory, Places, Over
<1>8. CASE Stands("Running", "HistoryContinues") /\ UNCHANGED kernel
  <2>1. at' = "Running" /\ stop' \in Over
    BY <1>8 DEF Stands, Over, Stops
  <2>2. Kernel!IInv'
    BY <1>2, <1>8, KernelRests
  <2> QED BY <1>4, <1>5, <2>1, <2>2, StoppedPlaced DEF Memory, Places, Over
<1> QED BY <1>6, <1>7, <1>8 DEF Return

\* Its terminal record is written.
LEMMA EndStep ==
  ASSUME IInv, End
  PROVE  BankStep /\ Memory'
<1>1. /\ at = "Ending" /\ Written(accepted[Len(accepted)]) /\ Admits(accepted[Len(accepted)])
      /\ at' = "Running" /\ stop' \in Over
      /\ UNCHANGED <<world, source, pos, version, hand, timer, performed>> /\ UNCHANGED kernel
  BY DEF End, Stands, Untold, ghosts, scan, Over, Stops
<1>2. BankStep
  BY <1>1, EndWrites
<1>3. Len(log') \in Nat /\ Len(log) <= Len(log')
  <2>1. accepted # <<>> /\ accepted \in Seq(Records)
    BY <1>1, Going DEF IInv, Memory, Placed, AtEnd
  <2>2. accepted[Len(accepted)] \in Records
    BY <2>1
  <2>3. Len(log') = Len(log) + 1
    BY <1>1, <2>2, Going, Appended DEF Written
  <2> QED BY <2>3, Going
<1>4. MemTyped'
  BY <1>1, <1>3, Going DEF MemTyped, Places, Over
<1>5. Kernel!IInv'
  BY <1>1, Going, KernelRests
<1> QED BY <1>1, <1>2, <1>4, <1>5, StoppedPlaced DEF Memory

\* A run that asks to be left has nothing of it open.
LEMMA NothingOpen ==
  ASSUME IInv, MayContinue, stop = "None", NothingFollows
  PROVE  log = <<>> \/ ~OpensBoundary(log[Len(log)])
<1>1. at = "Running"
  BY DEF MayContinue
<1>2. /\ Agrees /\ Kernel!IInv /\ BankTyped /\ accepted \in Seq(Records)
      /\ cursor.state = "Replaying"
  BY <1>1, Going DEF IInv, Memory, Placed, AtRest
<1>3. Reached = Len(log)
  BY DEF NothingFollows, Reached
<1> QED BY <1>2, <1>3, Standing, Whole

\* The next run is installed.
LEMMA ContinueAsNewStep ==
  ASSUME IInv, ContinueAsNew
  PROVE  BankStep /\ Memory'
<1>1. /\ MayContinue /\ UNCHANGED <<world, version, hand, timer>> /\ UNCHANGED kernel
  BY DEF ContinueAsNew
<1>2. CASE /\ NothingFollows /\ run < LastRun /\ Stands("Running", "Migrated")
           /\ Swapped /\ source' = "Taken" /\ pos' = 0 /\ obs' = <<>>
  <2>1. BankStep
    BY <1>1, <1>2 DEF Swaps, BankStep
  <2>2. at' = "Running" /\ stop' \in Over
    BY <1>2 DEF Stands, Over, Stops
  <2>3. Len(log') = 0
    BY <1>2 DEF Swapped
  <2>4. MemTyped'
    BY <1>1, <1>2, <2>2, <2>3, Going DEF MemTyped, Places, Over
  <2>5. Kernel!IInv'
    BY <1>1, Going, KernelRests
  <2> QED BY <2>1, <2>2, <2>4, <2>5, StoppedPlaced DEF Memory
<1>3. CASE \/ /\ Stands("Running", "HistoryContinues")
              /\ UNCHANGED <<bank, scan>> /\ Untold
           \/ /\ Stands("Running", "RunIdExhausted")
              /\ UNCHANGED <<bank, scan>> /\ Untold
  <2>1. at' = "Running" /\ stop' \in Over
    BY <1>3 DEF Stands, Over, Stops
  <2> QED BY <1>1, <1>3, <2>1, StopsStep DEF Untold, ghosts
<1> QED BY <1>2, <1>3 DEF ContinueAsNew

\* What is due where the driver stands is ready, or ends a run.
LEMMA DueReady ==
  ASSUME IInv, ProgramIsTyped, NEW rec, Due(rec)
  PROVE  \/ \E state : Ready(rec, state)
         \/ at = "Ending" /\ rec = accepted[Len(accepted)]
<1>1. CASE at = "Opening" /\ log = <<>> /\ rec = Started
  BY <1>1, StartReady
<1>2. CASE at = "Scheduling" /\ rec = EffectScheduled
  BY <1>2, EffectReady
<1>3. CASE at = "Performing" /\ \E type \in OutcomeTypes, val \in Payloads : rec = Outcome(type, val)
  BY <1>3, OutcomeReady
<1>4. CASE at = "Arming" /\ rec = TimerScheduled
  BY <1>4, TimerReady
<1>5. CASE Passes /\ rec = TimerFired
  BY <1>5, FiringReady
<1>6. CASE at = "Marking" /\ rec = VersionMarker
  BY <1>6, MarkerReady
<1> QED BY <1>1, <1>2, <1>3, <1>4, <1>5, <1>6 DEF Due

\* A write that fails leaves the record readable or not, and ends the boot.
LEMMA WriteFailsStep ==
  ASSUME IInv, ProgramIsTyped, WriteFails
  PROVE  BankStep /\ Memory'
<1>1. at' = "Down" /\ Blank /\ UNCHANGED <<world, performed>>
  BY DEF WriteFails, ghosts
<1>2. PICK rec \in Records : Due(rec) /\ Admits(rec) /\ Unwritten(rec)
  BY DEF WriteFails
<1>3. BankStep
  BY <1>1, <1>2, DueReady, ReadyWrites, EndWrites
<1> QED BY <1>1, <1>3, DownStep

\* A swap that fails leaves the old run or the new one.
LEMMA SwapFailsStep ==
  ASSUME IInv, SwapFails
  PROVE  BankStep /\ Memory'
<1>1. /\ at' = "Running" /\ stop' \in Over /\ source' = "Taken" /\ pos' = 0
      /\ UNCHANGED <<world, version, hand, timer>> /\ UNCHANGED kernel
      /\ MayContinue /\ NothingFollows /\ run < LastRun
  BY DEF SwapFails, Stands, Over, Stops
<1>2. BankStep /\ Len(log') \in Nat
  <2>1. CASE Swapped
    BY <1>1, <2>1 DEF Swaps, BankStep, Swapped
  <2>2. CASE UNCHANGED <<bank, ghosts>>
    BY <1>1, <2>2, KeepsStep, Going DEF ghosts, bank
  <2> QED BY <2>1, <2>2 DEF SwapFails
<1>3. MemTyped'
  BY <1>1, <1>2, Going DEF MemTyped, Places, Over
<1>4. Kernel!IInv'
  BY <1>1, Going, KernelRests
<1> QED BY <1>1, <1>2, <1>3, <1>4, StoppedPlaced DEF Memory

\* A call out of order ends the boot.
LEMMA MisusedStep ==
  ASSUME IInv, Misused
  PROVE  BankStep /\ Memory'
<1>1. at' = "Running" /\ stop' \in Over
  BY DEF Misused, Stands, Over, Stops
<1> QED BY <1>1, StopsStep DEF Misused, Untold, ghosts

\* A reset forgets what was in memory.
LEMMA ResetStep ==
  ASSUME IInv, Reset
  PROVE  BankStep /\ Memory'
<1>1. at' = "Down" /\ Blank /\ UNCHANGED performed
  BY DEF Reset, GoesDown, ghosts
<1>2. BankStep
  BY <1>1 DEF BankStep, Turns
<1> QED BY <1>1, <1>2, DownStep

\* What of a sum is given back is no more than was in it.
LEMMA Given ==
  ASSUME NEW a \in Nat, NEW b \in Nat, NEW c \in Nat, c <= b
  PROVE  a + b - c \in Nat
OBVIOUS

\* A power loss may also take what was not durable.
LEMMA PowerLossStep ==
  ASSUME IInv, PowerLoss
  PROVE  BankStep /\ Memory'
<1>1. at' = "Down" /\ Blank
  BY DEF PowerLoss
<1>2. room' \in Nat /\ torn' \in Nat /\ (WriteThrough => UNCHANGED <<room, torn>>)
  <2> DEFINE loose == torn + IF log' = log THEN 0 ELSE Width(log[Len(log)])
  <2>1. /\ torn' \in (IF WriteThrough THEN torn ELSE 0) .. loose
        /\ room' = room + loose - torn'
    BY DEF PowerLoss
  <2>2. room \in Nat /\ torn \in Nat /\ log \in Seq(Records) /\ firm \in 0 .. Len(log)
    BY Going DEF BankTyped
  <2>3. log' \in {log, SubSeq(log, 1, firm)}
    BY DEF PowerLoss, Bank!PowerLoss
  <2>4. ASSUME log' # log
        PROVE  Width(log[Len(log)]) \in Nat
    <3>1. log # <<>>
      BY <2>2, <2>3, <2>4
    <3>2. log[Len(log)] \in Records
      BY <2>2, <3>1
    <3> QED BY <3>2, ReserveAssumption
  <2>5. WriteThrough => log' = log
    <3>1. WriteThrough => firm = Len(log)
      BY DEF IInv, BankInv, Durable
    <3>2. SubSeq(log, 1, Len(log)) = log
      BY <2>2
    <3> QED BY <2>3, <3>1, <3>2
  <2>6. loose \in Nat /\ (WriteThrough => loose = torn)
    BY <2>2, <2>4, <2>5
  <2> HIDE DEF loose
  <2>7. torn' \in Nat /\ torn' <= loose
    BY <2>1, <2>2, <2>6
  <2>8. room' \in Nat
    <3>1. room' = room + loose - torn'
      BY <2>1
    <3>2. room \in Nat /\ loose \in Nat /\ torn' \in Nat /\ torn' <= loose
      BY <2>2, <2>6, <2>7
    <3> QED BY <3>1, <3>2, Given
  <2>9. ASSUME WriteThrough
        PROVE  UNCHANGED <<room, torn>>
    <3>1. torn' = torn
      BY <2>1, <2>2, <2>6, <2>9
    <3> QED BY <2>1, <2>2, <2>6, <2>9, <3>1
  <2> QED BY <2>7, <2>8, <2>9
<1>3. BankStep
  BY <1>2 DEF PowerLoss, ghosts, Cuts, BankStep
<1> QED BY <1>1, <1>3, DownStep

\* While the board alone goes on, the driver stands where it stood.
LEMMA TurnStep ==
  ASSUME IInv, ClockBack \/ Update \/ Tick
  PROVE  BankStep /\ Memory'
<1>1. /\ UNCHANGED <<log, run, at, version, stop, hand, timer, obs, performed, source, pos>>
      /\ UNCHANGED kernel /\ UNCHANGED scan
  BY DEF ClockBack, Update, Tick, bank, ghosts, scan
<1>2. BankStep
  BY <1>1 DEF BankStep, Turns
<1>3. Kernel!IInv' /\ UNCHANGED <<cursor, phase, answer, accepted>>
  BY <1>1, Going, KernelRests DEF kernel
<1>4. MemTyped'
  BY <1>1, Going DEF MemTyped
<1>5. Following' /\ AtRest' /\ AtBoundary' /\ AtEnd'
  BY <1>1, <1>3 DEF IInv, Memory, Placed, Following, Agrees, Reached,
                    AtRest, AtBoundary, AtEnd, Timing
<1>6. AtGrant'
  BY <1>1, <1>3 DEF IInv, Memory, Placed, AtGrant, Wish
<1>7. Measured'
  <2>1. SUFFICES ASSUME Timing, cursor.open.arg.clock = "AfterBoot"
                 PROVE  /\ bootClock' - timer.floor <= waited'
                        /\ at = "Measuring" => timer.reading <= bootClock'
    BY <1>1, <1>3 DEF Measured, Timing
  <2>2. /\ bootClock - timer.floor <= waited
        /\ at = "Measuring" => timer.reading <= bootClock
    BY <2>1 DEF IInv, Memory, Placed, Measured
  <2>3. CASE ClockBack \/ Update
    BY <2>2, <2>3 DEF ClockBack, Update, bank
  <2>4. CASE Tick
    <3>1. TimerIsOpen
      BY <2>1, TimerInHand DEF TimerIsOpen
    <3>2. Ticks \in Nat /\ Early \in 0 .. Ticks /\ Latest \in 0 .. Ticks
      BY DriverAssumption DEF Latest
    <3>3. bootClock \in 0 .. Ticks /\ waited \in 0 .. Ticks
      BY Going DEF BankTyped
    <3>4. timer.floor \in 0 .. Ticks /\ timer.reading \in 0 .. Ticks
      BY Going DEF MemTyped
    <3>5. bootClock' = IF bootClock < Latest THEN bootClock + 1 ELSE bootClock
      BY <2>4 DEF Tick
    <3>6. bootClock' \in {bootClock, bootClock + 1} /\ bootClock' \in 0 .. Ticks
      BY <3>2, <3>3, <3>5
    <3>7. waited' = IF waited < Ticks THEN waited + 1 ELSE waited
      BY <2>4, <3>1 DEF Tick
    <3>8. bootClock' - timer.floor <= waited'
      BY <2>2, <3>2, <3>3, <3>4, <3>6, <3>7, KeepsUp
    <3>9. at = "Measuring" => timer.reading <= bootClock'
      BY <2>2, <3>3, <3>4, <3>6
    <3> QED BY <3>8, <3>9
  <2> QED BY <2>3, <2>4
<1> QED BY <1>2, <1>3, <1>4, <1>5, <1>6, <1>7 DEF Memory, Placed

-----------------------------------------------------------------------------
(* The theorems                                                            *)

\* Whatever the step, the bank takes one of its own and the memory keeps.
LEMMA StepsTaken ==
  ASSUME IInv, ProgramIsTyped, Next
  PROVE  BankStep /\ Memory'
<1>1. CASE Boot \/ BeginRecorded \/ BeginFresh
  BY <1>1, BootStep, BeginRecordedStep, BeginFreshStep
<1>2. CASE Conclude \/ ReadFails
  BY <1>2, GoesDownStep DEF Conclude, ReadFails
<1>3. CASE AskEffect \/ Schedule \/ Replay \/ Redeliver \/ Perform
  BY <1>3, AskEffectStep, ScheduleStep, ReplayStep, RedeliverStep, PerformStep
<1>4. CASE AskTimer \/ Arm \/ Fired \/ Rearm
  BY <1>4, AskTimerStep, ArmStep, FiredStep, RearmStep
<1>5. CASE PollAgain \/ Read \/ NotYet \/ Fire
  BY <1>5, PollAgainStep, ReadStep, NotYetStep, FireStep
<1>6. CASE AskGate \/ Mark \/ Refused
  BY <1>6, AskGateStep, MarkStep, RefusedStep
<1>7. CASE Return \/ End \/ ContinueAsNew
  BY <1>7, ReturnStep, EndStep, ContinueAsNewStep
<1>8. CASE Resolves \/ Pending
  BY <1>8, ResolveStep, PendingStep DEF Resolves
<1>9. CASE WriteFails \/ SwapFails \/ Misused
  BY <1>9, WriteFailsStep, SwapFailsStep, MisusedStep
<1>10. CASE Reset \/ PowerLoss
  BY <1>10, ResetStep, PowerLossStep
<1>11. CASE ClockBack \/ Update \/ Tick
  BY <1>11, TurnStep
<1> QED
  BY <1>1, <1>2, <1>3, <1>4, <1>5, <1>6, <1>7, <1>8, <1>9, <1>10, <1>11 DEF Next, Drive, Fault

\* A device as it leaves the factory satisfies the invariant.
LEMMA InitIInv == Init => IInv
<1> SUFFICES ASSUME Init
             PROVE  IInv
  OBVIOUS
<1>1. /\ log = <<>> /\ Len(log) = 0 /\ firm = 0 /\ run = 0 /\ waited = 0
      /\ fw \in Versions /\ header = fw /\ bootClock = 0 /\ rtc = 0
      /\ at = "Down" /\ source = "Taken" /\ pos = 0
      /\ version = NoArg /\ stop = "None" /\ hand = NoRecord /\ timer = NoTimer /\ performed = {}
  BY DEF Init
<1>2. clean \in BOOLEAN
  BY DEF Init
<1>0. room \in Nat /\ torn \in Nat
  BY ReserveAssumption DEF Init
<1>3. BankTyped
  BY <1>0, <1>1, <1>2, DriverAssumption DEF BankTyped
<1>4. Clocked /\ Durable
  BY <1>1 DEF Clocked, Durable
<1>5. Machine!Init
  BY DEF Init
<1>6. Kernel!Init
  BY <1>5 DEF Machine!Init, Kernel!Init, Machine!Fresh, Kernel!Fresh,
              Machine!NoRecord, Kernel!NoRecord, Machine!EndOfHistory, Kernel!EndOfHistory
<1>7. Kernel!IInv
  BY <1>6, Kernel!InitIInv, MaxSeqAssumption, VersionsAssumption
<1>8. timer \in [floor : 0 .. Ticks, reading : 0 .. Ticks]
  BY <1>1, DriverAssumption DEF NoTimer
<1>9. MemTyped
  BY <1>1, <1>8 DEF MemTyped, Places, Stops, NoRecord, Steps
<1>10. cursor.state = "BeforeRun" /\ phase = "Settled"
  BY <1>5 DEF Machine!Init
<1>11. Placed
  BY <1>1, <1>10 DEF Placed, Following, AtRest, AtGrant, AtBoundary, AtEnd, Measured, Timing
<1> QED BY <1>3, <1>4, <1>7, <1>9, <1>11 DEF IInv, BankInv, Memory

\* What changes nothing preserves it.
LEMMA StutterIInv ==
  ASSUME IInv, UNCHANGED vars
  PROVE  IInv'
<1>1. /\ UNCHANGED <<bank, world, version, stop, hand, timer, obs, performed, at, source, pos>>
      /\ UNCHANGED kernel /\ UNCHANGED <<log, run>>
  BY DEF vars, ghosts, scan, bank
<1>2. BankInv'
  BY <1>1, KeepsStep, BankInvariant DEF IInv
<1>3. Kernel!IInv' /\ UNCHANGED <<cursor, phase, answer, accepted>>
  BY <1>1, Going, KernelRests DEF kernel
<1>4. MemTyped'
  BY <1>1, Going DEF MemTyped
<1>5. Following' /\ AtRest' /\ AtBoundary' /\ AtEnd'
  BY <1>1, <1>3 DEF IInv, Memory, Placed, Following, Agrees, Reached,
                    AtRest, AtBoundary, AtEnd, Timing
<1>6. AtGrant'
  BY <1>1, <1>3 DEF IInv, Memory, Placed, AtGrant, Wish
<1>7. Measured'
  BY <1>1, <1>3 DEF IInv, Memory, Placed, Measured, Timing, bank, world
<1> QED BY <1>2, <1>3, <1>4, <1>5, <1>6, <1>7 DEF IInv, Memory, Placed

\* So does every step.
LEMMA StepIInv ==
  ASSUME ProgramIsTyped, IInv, [Next]_vars
  PROVE  IInv'
<1>1. CASE Next
  BY <1>1, StepsTaken, BankInvariant DEF IInv
<1>2. CASE UNCHANGED vars
  BY <1>2, StutterIInv
<1> QED BY <1>1, <1>2

\* For every workflow that asks within its vocabulary, in every order of its
\* requests, the world's answers and the faults: the bank opens with the run's
\* start and, on a write-through device, holds every effect performed; and a
\* boot that goes on stands exactly where the bank's records leave the machine.
THEOREM Invariant ==
  ASSUME ProgramIsTyped
  PROVE  Spec => []IInv
<1>1. IInv /\ [Next]_vars => IInv'
  BY StepIInv
<1> QED BY <1>1, InitIInv, PTL DEF Spec

\* The driver's state, the kernel's inside it and the bank below it keep the
\* types of their Rust counterparts.
THEOREM Typing ==
  ASSUME ProgramIsTyped
  PROVE  Spec => []TypeOK
<1>1. IInv => TypeOK
  BY SameTypes DEF IInv, BankInv, BankTyped, Memory, MemTyped, Kernel!IInv, TypeOK
<1> QED BY <1>1, Invariant, PTL

\* What is handed out for execution is the bank's last record, an effect whose
\* outcome is not on media.
THEOREM HandIsOpen ==
  ASSUME ProgramIsTyped
  PROVE  Spec => []HandIsTheOpenEffect
<1>1. IInv => HandIsTheOpenEffect
  BY EffectInHand DEF HandIsTheOpenEffect
<1> QED BY <1>1, Invariant, PTL

\* On a write-through device no effect is ever performed whose schedule record
\* a power loss could take.
THEOREM PerformedAreScheduled ==
  ASSUME ProgramIsTyped, WriteThrough
  PROVE  Spec => []PerformedIsScheduled
<1>1. IInv => PerformedIsScheduled
  BY DEF IInv, BankInv, Durable, PerformedIsScheduled
<1> QED BY <1>1, Invariant, PTL

\* On a write-through device a step that stays in its run adds a legal record to
\* the history, or leaves it.
LEMMA HistoryStep ==
  ASSUME WriteThrough, BankInv, BankStep, run' = run
  PROVE  History!Next \/ UNCHANGED log
<1>1. CASE Writes
  <2>1. PICK rec \in Records : History!Legal(rec) /\ (Written(rec) \/ Unwritten(rec))
    BY <1>1 DEF Writes
  <2>2. log' = log \/ log' = Append(log, rec)
    BY <2>1 DEF Written, Unwritten
  <2>3. rec \in History!Records
    BY DEF Records, History!Records, Seqs, History!Seqs, Asks, History!Asks, Specs, History!Specs,
           ClockKinds, History!ClockKinds, OutcomeTypes, History!OutcomeTypes,
           TerminalTypes, History!TerminalTypes
  <2> QED BY <2>1, <2>2, <2>3 DEF History!Next
<1>2. CASE Keeps
  BY <1>2 DEF Keeps, bank
<1>3. ~Swaps
  BY DEF Swaps, Swapped, BankInv, BankTyped
<1>4. CASE Cuts
  <2>1. firm = Len(log) /\ log \in Seq(Records)
    BY DEF BankInv, Durable, BankTyped
  <2>2. SubSeq(log, 1, Len(log)) = log
    BY <2>1
  <2> QED BY <1>4, <2>1, <2>2 DEF Cuts, Bank!PowerLoss
<1>5. CASE Turns
  BY <1>5 DEF Turns, Reset, ClockBack, Update, Tick, GoesDown, bank
<1> QED BY <1>1, <1>2, <1>3, <1>4, <1>5 DEF BankStep

\* On a write-through device the history is legal and only grows while its
\* run lasts, through every failed write, crash and power loss.
THEOREM HistoryIsLegal ==
  ASSUME ProgramIsTyped, WriteThrough
  PROVE  Spec => [][run' = run => History!Next]_log
<1>1. IInv /\ [Next]_vars => [run' = run => History!Next]_log
  <2>1. ASSUME IInv, Next, run' = run
        PROVE  History!Next \/ UNCHANGED log
    BY <2>1, StepsTaken, HistoryStep DEF IInv
  <2> QED BY <2>1 DEF vars, bank
<1> QED BY <1>1, Invariant, PTL DEF Spec

\* A step that adds a firing to the history adds one whose time has come.
LEMMA FiringStep ==
  ASSUME BankInv, BankStep, NEW i \in 1 .. Len(log'),
         i = Len(log) + 1, log'[i].type = "TimerFired"
  PROVE  LET spec == log[Len(log)].arg
         IN  IF spec.clock = "AfterBoot" THEN waited >= spec.deadline
                                         ELSE timer.reading >= spec.deadline
<1>0. log \in Seq(Records) /\ Len(log) \in Nat /\ firm \in 0 .. Len(log)
  BY DEF BankInv, BankTyped
<1>1. CASE Writes
  <2>1. PICK rec \in Records : Timely(rec) /\ (Written(rec) \/ Unwritten(rec))
    BY <1>1 DEF Writes
  <2>2. log' # log
    BY <1>0
  <2>3. log' = Append(log, rec)
    BY <2>1, <2>2 DEF Written, Unwritten
  <2>4. log'[i] = rec
    BY <1>0, <2>3, Appended
  <2> QED BY <2>1, <2>4 DEF Timely
<1>2. CASE Keeps \/ Turns
  <2>1. log' = log
    BY <1>2 DEF Keeps, Turns, Reset, ClockBack, Update, Tick, GoesDown, bank
  <2> QED BY <1>0, <2>1
<1>3. CASE Swaps
  <2>1. Len(log') = 0
    BY <1>3 DEF Swaps, Swapped
  <2> QED BY <1>0, <2>1
<1>4. CASE Cuts
  <2>1. Len(log') \in {Len(log), firm}
    BY <1>0, <1>4 DEF Cuts, Bank!PowerLoss
  <2> QED BY <1>0, <2>1
<1> QED BY <1>1, <1>2, <1>3, <1>4 DEF BankStep

\* On either kind of device no timer is recorded as fired before its time, across
\* every reset and restart of the boot clock.
THEOREM NeverEarly ==
  ASSUME ProgramIsTyped
  PROVE  Spec => TimersNeverEarly
<1> DEFINE Late == \A i \in 1 .. Len(log') :
                     i = Len(log) + 1 /\ log'[i].type = "TimerFired" =>
                       LET spec == log[Len(log)].arg
                       IN  IF spec.clock = "AfterBoot" THEN waited >= spec.deadline
                                                       ELSE timer.reading >= spec.deadline
<1>1. IInv /\ [Next]_vars => [Late]_log
  <2>1. ASSUME IInv, Next
        PROVE  Late
    BY <2>1, StepsTaken, FiringStep DEF IInv
  <2> QED BY <2>1 DEF vars, bank
<1> QED BY <1>1, Invariant, PTL DEF Spec, TimersNeverEarly

-----------------------------------------------------------------------------
(* What a history tells its workflow                                       *)

\* A function over 1 .. n + 1 is what it is over 1 .. n with one element more.
LEMMA FunctionGrows ==
  ASSUME NEW n \in Nat, NEW S, NEW f \in [1 .. n + 1 -> S], NEW g \in [1 .. n -> S],
         \A j \in 1 .. n : f[j] = g[j]
  PROVE  f = Append(g, f[n + 1])
OBVIOUS

\* Whether history h tells the first n things.
HasTale(h, n) == \A j \in 1 .. n : \E k \in 1 .. Len(h) : Tells(h[k]) /\ h[k].seq = j - 1

\* Each record may follow the one before; what is told is told in order and
\* whole; and each boundary and end is what the workflow asks for when it has
\* been told what stands before it.
Lawful(h) == \A n \in 2 .. Len(h) : History!Follows(h[n - 1], h[n])
Rising(h) ==
  \A m, n \in 1 .. Len(h) :
    m < n /\ Tells(h[m]) /\ (Tells(h[n]) \/ OpensBoundary(h[n])) => h[m].seq < h[n].seq
Filled(h) ==
  \A n \in 1 .. Len(h) : \A j \in 1 .. Tidings(h[n]) :
    \E k \in 1 .. n : Tells(h[k]) /\ h[k].seq = j - 1
Asked(h, r, n) == Grounds(Program(r, h[1].val, Tale(h, Tidings(h[n - 1]))), h[n])
Wished(h, r) == \A n \in 2 .. Len(h) : Begins(h[n]) => Asked(h, r, n)
Story(h, r) == Lawful(h) /\ Rising(h) /\ Filled(h) /\ Wished(h, r)

\* What a record's fields hold.
LEMMA Fields ==
  ASSUME NEW r \in Records
  PROVE  /\ r.seq \in Nat /\ Tidings(r) \in Nat
         /\ r.type \in BoundaryTypes \cup OutcomeTypes \cup TerminalTypes \cup {"TimerFired", "RunStarted"}
         /\ r.type = "RunStarted" => Tidings(r) = 0
<1>1. r.seq \in Nat
  BY MaxSeqAssumption DEF Records, Seqs, OutcomeTypes, TerminalTypes
<1>2. r.type \in BoundaryTypes \cup OutcomeTypes \cup TerminalTypes \cup {"TimerFired", "RunStarted"}
  BY DEF Records, BoundaryTypes
<1>3. r.type = "RunStarted" => Tidings(r) = 0
  BY DEF Tidings, Tells, OpensBoundary, OutcomeTypes
<1> QED BY <1>1, <1>2, <1>3 DEF Tidings

\* What may follow a record, counted in things told.
LEMMA Successor ==
  ASSUME NEW a \in Records, NEW b \in Records, History!Follows(a, b)
  PROVE  /\ b.type # "RunStarted" /\ a.type \notin TerminalTypes
         /\ OpensBoundary(a) => ~Begins(b) /\ Tells(b) /\ b.seq = a.seq
         /\ a.type = "EffectScheduled" => b.type \in OutcomeTypes
         /\ a.type = "TimerScheduled" => b.type = "TimerFired"
         /\ ~OpensBoundary(a) => Begins(b)
         /\ b.type \in BoundaryTypes => b.seq = Tidings(a)
         /\ Tells(b) => Tidings(a) = b.seq /\ Tidings(b) = b.seq + 1
         /\ OpensBoundary(b) => Tidings(a) = b.seq /\ Tidings(b) = b.seq
         /\ b.type \in TerminalTypes => Tidings(b) = 0
BY DEF History!Follows, History!Opens, History!BoundaryTypes, History!TerminalTypes,
       History!OutcomeTypes, BoundaryTypes, TerminalTypes, OutcomeTypes,
       Begins, Tells, OpensBoundary, Tidings

\* One record at most tells a given thing.
LEMMA OneTeller ==
  ASSUME NEW h \in Seq(Records), Rising(h), NEW k \in 1 .. Len(h), NEW l \in 1 .. Len(h),
         Tells(h[k]), Tells(h[l]), h[k].seq = h[l].seq
  PROVE  k = l
<1>1. h[k] \in Records /\ h[l] \in Records
  OBVIOUS
<1>2. h[k].seq \in Nat
  BY <1>1, Fields
<1>3. ~(k < l) /\ ~(l < k)
  BY <1>2 DEF Rising
<1> QED BY <1>3

\* It is the one that is chosen.
LEMMA TellerIs ==
  ASSUME NEW h \in Seq(Records), Rising(h), NEW j \in Nat,
         NEW k \in 1 .. Len(h), Tells(h[k]), h[k].seq = j - 1
  PROVE  Teller(h, j) = k
<1>1. /\ Teller(h, j) \in 1 .. Len(h) /\ Tells(h[Teller(h, j)])
      /\ h[Teller(h, j)].seq = j - 1
  BY DEF Teller
<1> QED BY <1>1, OneTeller

\* A history and one that goes on from it tell the same tale.
LEMMA TaleStays ==
  ASSUME NEW h \in Seq(Records), NEW g \in Seq(Records), Len(h) <= Len(g),
         \A k \in 1 .. Len(h) : g[k] = h[k], Rising(g), Rising(h), NEW n \in Nat, HasTale(h, n)
  PROVE  HasTale(g, n) /\ Tale(g, n) = Tale(h, n)
<1>1. ASSUME NEW j \in 1 .. n
      PROVE  /\ Teller(g, j) = Teller(h, j) /\ Teller(h, j) \in 1 .. Len(h)
             /\ \E k \in 1 .. Len(g) : Tells(g[k]) /\ g[k].seq = j - 1
  <2>1. PICK k \in 1 .. Len(h) : Tells(h[k]) /\ h[k].seq = j - 1
    BY <1>1 DEF HasTale
  <2>2. k \in 1 .. Len(g) /\ g[k] = h[k]
    OBVIOUS
  <2>3. Teller(h, j) = k
    BY <2>1, TellerIs
  <2>4. Teller(g, j) = k
    BY <2>1, <2>2, TellerIs
  <2> QED BY <2>1, <2>2, <2>3, <2>4
<1>2. HasTale(g, n)
  BY <1>1 DEF HasTale
<1>3. \A j \in 1 .. n : Telling(g[Teller(g, j)]) = Telling(h[Teller(h, j)])
  BY <1>1
<1> QED BY <1>2, <1>3 DEF Tale

\* Told one thing more, the workflow has been told the next part of the tale.
LEMMA TaleGrows ==
  ASSUME NEW h \in Seq(Records), Rising(h), NEW k \in 1 .. Len(h), Tells(h[k]),
         HasTale(h, h[k].seq)
  PROVE  /\ HasTale(h, h[k].seq + 1)
         /\ Append(Tale(h, h[k].seq), Telling(h[k])) = Tale(h, h[k].seq + 1)
<1> DEFINE n == h[k].seq
           S == {Telling(h[l]) : l \in 1 .. Len(h)}
<1>1. n \in Nat
  BY Fields
<1>2. Teller(h, n + 1) = k
  <2>1. n + 1 \in Nat /\ h[k].seq = (n + 1) - 1
    BY <1>1
  <2> HIDE DEF n
  <2> QED BY <2>1, TellerIs
<1>3. ASSUME NEW j \in 1 .. n
      PROVE  Teller(h, j) \in 1 .. Len(h)
  <2>1. PICK l \in 1 .. Len(h) : Tells(h[l]) /\ h[l].seq = j - 1
    BY <1>3 DEF HasTale
  <2> QED BY <1>1, <2>1, TellerIs
<1>4. ASSUME NEW j \in 1 .. n + 1
      PROVE  Telling(h[Teller(h, j)]) \in S
  <2>1. Teller(h, j) \in 1 .. Len(h)
    BY <1>1, <1>2, <1>3
  <2> QED BY <2>1
<1>5. Tale(h, n + 1) \in [1 .. n + 1 -> S] /\ Tale(h, n) \in [1 .. n -> S]
  BY <1>1, <1>4 DEF Tale
<1>6. /\ \A j \in 1 .. n : Tale(h, n + 1)[j] = Tale(h, n)[j]
      /\ Tale(h, n + 1)[n + 1] = Telling(h[k])
  BY <1>1, <1>2 DEF Tale
<1>7. HasTale(h, n + 1)
  BY <1>1 DEF HasTale
<1> HIDE DEF S, n
<1>8. Tale(h, n + 1) = Append(Tale(h, n), Tale(h, n + 1)[n + 1])
  BY <1>1, <1>5, <1>6, FunctionGrows
<1> QED BY <1>6, <1>7, <1>8 DEF n

\* How long it is.
LEMMA TaleLength ==
  ASSUME NEW h \in Seq(Records), Rising(h), NEW n \in Nat, HasTale(h, n)
  PROVE  Len(Tale(h, n)) = n
<1> DEFINE S == {Telling(h[l]) : l \in 1 .. Len(h)}
<1>1. ASSUME NEW j \in 1 .. n
      PROVE  Teller(h, j) \in 1 .. Len(h)
  <2>1. PICK l \in 1 .. Len(h) : Tells(h[l]) /\ h[l].seq = j - 1
    BY <1>1 DEF HasTale
  <2> QED BY <2>1, TellerIs
<1>2. Tale(h, n) \in [1 .. n -> S]
  BY <1>1 DEF Tale
<1> QED BY <1>2

\* What a story has told when it reaches one of its records.
LEMMA StoryTells ==
  ASSUME NEW h \in Seq(Records), Filled(h), NEW n \in 1 .. Len(h)
  PROVE  Tidings(h[n]) \in Nat /\ HasTale(h, Tidings(h[n]))
<1>1. Tidings(h[n]) \in Nat
  BY Fields
<1>2. ASSUME NEW j \in 1 .. Tidings(h[n])
      PROVE  \E k \in 1 .. Len(h) : Tells(h[k]) /\ h[k].seq = j - 1
  <2>1. PICK k \in 1 .. n : Tells(h[k]) /\ h[k].seq = j - 1
    BY <1>2 DEF Filled
  <2> QED BY <2>1
<1> QED BY <1>1, <1>2 DEF HasTale

\* A story cut short is one.
LEMMA StoryCut ==
  ASSUME NEW g \in Seq(Records), NEW r, Story(g, r),
         NEW h \in Seq(Records), Len(h) <= Len(g), \A k \in 1 .. Len(h) : h[k] = g[k]
  PROVE  Story(h, r)
<1>0. Len(h) \in Nat /\ Len(g) \in Nat
  OBVIOUS
<1>1. Lawful(h)
  <2>1. ASSUME NEW n \in 2 .. Len(h)
        PROVE  History!Follows(h[n - 1], h[n])
    <3>1. n \in 2 .. Len(g) /\ h[n - 1] = g[n - 1] /\ h[n] = g[n]
      BY <1>0
    <3> QED BY <3>1 DEF Story, Lawful
  <2> QED BY <2>1 DEF Lawful
<1>2. Rising(h)
  BY <1>0 DEF Story, Rising
<1>3. Filled(h)
  <2>1. ASSUME NEW n \in 1 .. Len(h), NEW j \in 1 .. Tidings(h[n])
        PROVE  \E k \in 1 .. n : Tells(h[k]) /\ h[k].seq = j - 1
    <3>1. n \in 1 .. Len(g) /\ g[n] = h[n]
      BY <1>0
    <3>2. PICK k \in 1 .. n : Tells(g[k]) /\ g[k].seq = j - 1
      BY <3>1 DEF Story, Filled
    <3>3. h[k] = g[k]
      BY <1>0
    <3> QED BY <3>2, <3>3
  <2> QED BY <2>1 DEF Filled
<1>4. ASSUME NEW n \in 2 .. Len(h), Begins(h[n])
      PROVE  Asked(h, r, n)
  <2>1. /\ n \in 2 .. Len(g) /\ n - 1 \in 1 .. Len(h) /\ 1 \in 1 .. Len(h)
        /\ h[n] = g[n] /\ h[n - 1] = g[n - 1] /\ h[1] = g[1]
    BY <1>0
  <2>2. Tidings(h[n - 1]) \in Nat /\ HasTale(h, Tidings(h[n - 1]))
    BY <1>3, <2>1, StoryTells
  <2>3. Tale(g, Tidings(h[n - 1])) = Tale(h, Tidings(h[n - 1]))
    BY <1>2, <2>2, TaleStays DEF Story
  <2>4. Asked(g, r, n)
    BY <1>4, <2>1 DEF Story, Wished
  <2> QED BY <2>1, <2>3, <2>4 DEF Asked
<1> QED BY <1>1, <1>2, <1>3, <1>4 DEF Story, Wished

\* What the workflow of run r asks for when it has been told all of h.
NextWish(h, r) == Program(r, h[1].val, Tale(h, Tidings(h[Len(h)])))

\* Record b is one that history h goes on with, and was asked for.
Continues(h, r, b) ==
  \/ h = <<>> /\ b.type = "RunStarted"
  \/ /\ h # <<>> /\ History!Follows(h[Len(h)], b)
     /\ Begins(b) => Grounds(NextWish(h, r), b)

\* A story that is gone on with is one.
LEMMA StoryGrows ==
  ASSUME NEW h \in Seq(Records), NEW r, Story(h, r), NEW b \in Records, Continues(h, r, b)
  PROVE  LET g == Append(h, b)
         IN  /\ Story(g, r)
             /\ \A n \in Nat : HasTale(h, n) => HasTale(g, n) /\ Tale(g, n) = Tale(h, n)
<1> DEFINE g == Append(h, b)
           L == Len(h)
<1>0. /\ L \in Nat /\ g \in Seq(Records) /\ Len(g) = L + 1 /\ g[L + 1] = b
      /\ \A k \in 1 .. L : g[k] = h[k]
      /\ h # <<>> <=> L >= 1
  OBVIOUS
<1> HIDE DEF g, L
<1>1. ASSUME L >= 1
      PROVE  /\ L \in 1 .. L /\ h[L] \in Records /\ g[L] = h[L] /\ g[1] = h[1]
             /\ History!Follows(h[L], b)
             /\ Begins(b) => Grounds(NextWish(h, r), b)
  BY <1>0, <1>1 DEF Continues, L
<1>2. Lawful(g)
  <2>1. ASSUME NEW n \in 2 .. Len(g)
        PROVE  History!Follows(g[n - 1], g[n])
    <3>1. CASE n <= L
      <4>1. n - 1 \in 1 .. L /\ n \in 1 .. L /\ n \in 2 .. Len(h)
        BY <1>0, <3>1 DEF L
      <4> QED BY <1>0, <4>1 DEF Story, Lawful
    <3>2. CASE n = L + 1
      BY <1>0, <1>1, <3>2
    <3> QED BY <1>0, <3>1, <3>2
  <2> QED BY <2>1 DEF Lawful
<1>3. Rising(g)
  <2>1. ASSUME NEW m \in 1 .. Len(g), NEW n \in 1 .. Len(g),
               m < n, Tells(g[m]), Tells(g[n]) \/ OpensBoundary(g[n])
        PROVE  g[m].seq < g[n].seq
    <3>1. CASE n <= L
      <4>1. /\ m \in 1 .. Len(h) /\ n \in 1 .. Len(h) /\ g[m] = h[m] /\ g[n] = h[n]
        BY <1>0, <2>1, <3>1 DEF L
      <4> QED BY <2>1, <4>1 DEF Story, Rising
    <3>2. CASE n = L + 1
      <4>1. m \in 1 .. L /\ g[m] = h[m] /\ g[n] = b /\ L >= 1
        BY <1>0, <2>1, <3>2
      <4>2. Tidings(h[L]) = b.seq
        BY <1>1, <2>1, <4>1, Successor
      <4>3. CASE m = L
        <5>1. Tidings(h[L]) = h[L].seq + 1 /\ h[L].seq \in Nat
          BY <1>1, <2>1, <4>1, <4>3, Fields DEF Tidings
        <5> QED BY <4>1, <4>2, <4>3, <5>1
      <4>4. CASE m < L
        <5>1. m \in 1 .. Len(h) /\ L \in 1 .. Len(h) /\ L \in 2 .. Len(h)
          BY <1>0, <4>1, <4>4 DEF L
        <5>2. h[L - 1] \in Records /\ History!Follows(h[L - 1], h[L])
          BY <5>1 DEF Story, Lawful
        <5>3. Tells(h[L]) \/ OpensBoundary(h[L])
          <6>1. h[L].type # "RunStarted" /\ h[L].type \notin TerminalTypes
            BY <1>1, <4>1, <5>2, Successor
          <6> QED BY <1>1, <4>1, <6>1, Fields DEF Tells, OpensBoundary, BoundaryTypes
        <5>4. h[m].seq < h[L].seq
          BY <2>1, <4>1, <4>4, <5>1, <5>3 DEF Story, Rising
        <5>5. h[L].seq <= Tidings(h[L]) /\ h[L].seq \in Nat /\ Tidings(h[L]) \in Nat
          BY <1>1, <4>1, <5>3, Fields DEF Tidings
        <5>6. h[m].seq \in Nat
          BY <5>1, Fields
        <5> QED BY <4>1, <4>2, <5>4, <5>5, <5>6
      <4> QED BY <1>0, <4>1, <4>3, <4>4
    <3> QED BY <1>0, <3>1, <3>2
  <2> QED BY <2>1 DEF Rising
<1>4. Filled(g)
  <2>1. ASSUME NEW n \in 1 .. Len(g), NEW j \in 1 .. Tidings(g[n])
        PROVE  \E k \in 1 .. n : Tells(g[k]) /\ g[k].seq = j - 1
    <3>1. CASE n <= L
      <4>1. n \in 1 .. Len(h) /\ g[n] = h[n]
        BY <1>0, <3>1 DEF L
      <4>2. PICK k \in 1 .. n : Tells(h[k]) /\ h[k].seq = j - 1
        BY <4>1 DEF Story, Filled
      <4>3. g[k] = h[k]
        BY <1>0, <3>1
      <4> QED BY <4>2, <4>3
    <3>2. CASE n = L + 1
      <4>1. g[n] = b /\ j >= 1 /\ j \in Int /\ Tidings(b) \in Nat /\ j <= Tidings(b)
        BY <1>0, <3>2, Fields
      <4>2. b.seq \in Nat /\ (Tells(b) \/ OpensBoundary(b))
        BY <4>1, Fields DEF Tidings
      <4>3. CASE Tells(b) /\ j = b.seq + 1
        BY <1>0, <3>2, <4>1, <4>2, <4>3
      <4>4. CASE j <= b.seq
        <5>1. L >= 1
          BY <1>0, <4>2 DEF Continues, Tells, OpensBoundary, OutcomeTypes
        <5>2. Tidings(h[L]) = b.seq
          BY <1>1, <4>2, <5>1, Successor
        <5>3. j \in 1 .. Tidings(h[L]) /\ L \in 1 .. Len(h)
          BY <1>0, <4>1, <4>2, <4>4, <5>1, <5>2 DEF L
        <5>4. PICK k \in 1 .. L : Tells(h[k]) /\ h[k].seq = j - 1
          BY <5>3 DEF Story, Filled
        <5>5. k \in 1 .. n /\ g[k] = h[k]
          BY <1>0, <3>2
        <5> QED BY <5>4, <5>5
      <4>5. j <= b.seq \/ (Tells(b) /\ j = b.seq + 1)
        BY <4>1, <4>2 DEF Tidings
      <4> QED BY <4>3, <4>4, <4>5
    <3> QED BY <1>0, <3>1, <3>2
  <2> QED BY <2>1 DEF Filled
<1>5. ASSUME NEW n \in Nat, HasTale(h, n)
      PROVE  HasTale(g, n) /\ Tale(g, n) = Tale(h, n)
  BY <1>0, <1>3, <1>5, TaleStays DEF Story, L
<1>6. ASSUME NEW n \in 2 .. Len(g), Begins(g[n])
      PROVE  Asked(g, r, n)
  <2>1. n - 1 \in 1 .. L /\ n - 1 \in 1 .. Len(h) /\ g[n - 1] = h[n - 1] /\ L >= 1 /\ g[1] = h[1]
    BY <1>0 DEF L
  <2>2. Tidings(h[n - 1]) \in Nat /\ HasTale(h, Tidings(h[n - 1]))
    BY <2>1, StoryTells DEF Story
  <2>3. Tale(g, Tidings(g[n - 1])) = Tale(h, Tidings(h[n - 1]))
    BY <1>5, <2>1, <2>2
  <2>4. CASE n <= L
    <3>1. n \in 2 .. Len(h) /\ g[n] = h[n]
      BY <1>0, <2>4 DEF L
    <3>2. Asked(h, r, n)
      BY <1>6, <3>1 DEF Story, Wished
    <3> QED BY <2>1, <2>3, <3>1, <3>2 DEF Asked
  <2>5. CASE n = L + 1
    <3>1. g[n] = b /\ n - 1 = L
      BY <1>0, <2>5
    <3>2. Grounds(NextWish(h, r), b)
      BY <1>1, <1>6, <2>1, <3>1
    <3> QED BY <2>1, <2>3, <3>1, <3>2 DEF Asked, NextWish, L
  <2> QED BY <1>0, <2>4, <2>5
<1>7. Story(g, r)
  BY <1>2, <1>3, <1>4, <1>6 DEF Story, Wished
<1> QED BY <1>5, <1>7 DEF g

-----------------------------------------------------------------------------
(* The workflow's side of the invariant                                    *)

\* A boot that may still do something, or has an end to write.
Live ==
  /\ at \notin {"Down", "Opening"}
  /\ at = "Running" => stop \in {"None", "NearCapacity", "WaitingUntil"}

\* It has told its workflow what history tells up to where its scan stands;
\* it is refused room only behind all of history and, where a boundary was what
\* it asked for, not where it returns; and the end it writes is the one that was
\* asked for.
Abreast ==
  /\ at \in {"Down", "Opening"} => obs = <<>>
  /\ Live => /\ Reached \in 1 .. Len(log) /\ version = log[1].val
             /\ obs = Tale(log, Tidings(log[Reached]))
  /\ at = "Running" /\ stop = "NearCapacity" =>
       source # "Scanning" /\ (cursor.state = "Replaying" => Wish.op # "return")
  /\ at = "Ending" => source # "Scanning" /\ Grounds(Wish, accepted[Len(accepted)])

\* The most it was ever told is what the bank of a write-through device tells.
Kept ==
  WriteThrough => /\ ReplayIsStable
                  /\ \E n \in Nat : HasTale(log, n) /\ told = Tale(log, n)

Faithful == Story(log, run) /\ Abreast /\ Kept /\ NeverDiverges

Divergent == {"NondeterministicWorkflow", "MalformedHistory", "HistoryContinues"}

\* The workflow is told one thing more.
Hear(x) ==
  /\ obs' = Append(obs, x)
  /\ told' = IF Len(obs') > Len(told) THEN obs' ELSE told

\* What was kept stays kept while history goes on telling it.
LEMMA KeptStays ==
  ASSUME Kept, NEW h \in Seq(Records), log' = h, Rising(h),
         WriteThrough => \A n \in Nat : HasTale(log, n) => HasTale(h, n) /\ Tale(h, n) = Tale(log, n),
         \/ UNCHANGED <<obs, told>>
         \/ obs' = <<>> /\ told' = told
         \/ /\ \E m \in Nat : HasTale(h, m) /\ obs' = Tale(h, m)
            /\ told' = IF Len(obs') > Len(told) THEN obs' ELSE told
  PROVE  Kept'
<1> SUFFICES ASSUME WriteThrough
             PROVE  ReplayIsStable' /\ \E n \in Nat : HasTale(h, n) /\ told' = Tale(h, n)
  BY DEF Kept
<1>1. PICK n \in Nat : HasTale(log, n) /\ told = Tale(log, n)
  BY DEF Kept
<1>2. HasTale(h, n) /\ told = Tale(h, n) /\ Len(told) = n
  BY <1>1, TaleLength
<1>3. CASE UNCHANGED <<obs, told>>
  BY <1>2, <1>3 DEF Kept, ReplayIsStable
<1>4. CASE obs' = <<>> /\ told' = told
  <2>1. Len(obs') = 0
    BY <1>4
  <2> QED BY <1>2, <1>4, <2>1 DEF ReplayIsStable
<1>5. ASSUME NEW m \in Nat, HasTale(h, m), obs' = Tale(h, m),
             told' = IF Len(obs') > Len(told) THEN obs' ELSE told
      PROVE  ReplayIsStable' /\ \E q \in Nat : HasTale(h, q) /\ told' = Tale(h, q)
  <2>1. Len(obs') = m
    BY <1>5, TaleLength
  <2>2. PICK q \in {n, m} : HasTale(h, q) /\ told' = Tale(h, q) /\ m <= q
    BY <1>2, <1>5, <2>1
  <2>3. q \in Nat /\ Len(told') = q
    BY <2>2, TaleLength
  <2>4. \A i \in 1 .. m : obs'[i] = told'[i]
    BY <1>5, <2>2, <2>3 DEF Tale
  <2> QED BY <2>1, <2>2, <2>3, <2>4 DEF ReplayIsStable
<1> QED BY <1>3, <1>4, <1>5

\* A step that tells the workflow nothing, and leaves history as it is.
LEMMA FaithfulStays ==
  ASSUME Faithful, UNCHANGED <<log, run, obs, told>>, stop' \notin Divergent,
         Live' => Live /\ Reached' = Reached /\ version' = version,
         at' \in {"Down", "Opening"} => obs' = <<>>,
         at' = "Running" /\ stop' = "NearCapacity" =>
           source' # "Scanning" /\ (cursor'.state = "Replaying" => Wish'.op # "return"),
         at' = "Ending" => source' # "Scanning" /\ Grounds(Wish', accepted'[Len(accepted')])
  PROVE  Faithful'
<1>1. Story(log', run')
  BY DEF Faithful
<1>2. Abreast'
  BY DEF Faithful, Abreast
<1>3. Kept'
  BY DEF Faithful, Kept, ReplayIsStable
<1>4. NeverDiverges'
  BY DEF NeverDiverges, Divergent
<1> QED BY <1>1, <1>2, <1>3, <1>4 DEF Faithful

\* A step that ends the boot.
LEMMA FaithfulDown ==
  ASSUME at' = "Down", Blank, Story(log', run'), Kept'
  PROVE  Faithful'
<1>1. obs' = <<>> /\ stop' = "None"
  BY DEF Blank
<1>2. Abreast' /\ NeverDiverges'
  BY <1>1 DEF Abreast, Live, NeverDiverges
<1> QED BY <1>2 DEF Faithful

\* A boot that gives up.
LEMMA FaithfulGoesDown ==
  ASSUME IInv, Faithful, GoesDown
  PROVE  Faithful'
<1>1. at' = "Down" /\ Blank /\ UNCHANGED <<log, run, told>> /\ obs' = <<>>
  BY DEF GoesDown, Blank, bank, ghosts
<1>2. log \in Seq(Records) /\ Rising(log)
  BY Going DEF Faithful, Story
<1>3. Kept'
  BY <1>1, <1>2, KeptStays DEF Faithful
<1> QED BY <1>1, <1>3, FaithfulDown DEF Faithful

\* What the machine consumed last is what the scan stands behind.
LEMMA LastSeen ==
  ASSUME IInv, Agrees, cursor.state \in {"Replaying", "AwaitingOutcome", "AwaitingTimer"}
  PROVE  /\ Reached \in 1 .. Len(log) /\ log[Reached] \in Records
         /\ cursor.state = "Replaying" =>
              ~OpensBoundary(log[Reached]) /\ log[Reached].type \notin TerminalTypes
         /\ cursor.state # "Replaying" => cursor.open = log[Reached]
         /\ cursor.state = "AwaitingOutcome" => log[Reached].type = "EffectScheduled"
         /\ cursor.state = "AwaitingTimer" => log[Reached].type = "TimerScheduled"
<1>1. /\ log \in Seq(Records) /\ pos \in 0 .. Len(log) /\ Kernel!IInv
      /\ accepted \in Seq(Records)
  BY Going
<1>2. accepted # <<>> /\ Len(accepted) \in 1 .. Len(accepted)
  BY <1>1, Standing
<1>3. Reached \in 0 .. Len(log) /\ Reached = Len(accepted)
  BY <1>1 DEF Reached, Agrees
<1>4. Reached \in 1 .. Len(log) /\ log[Reached] = accepted[Len(accepted)]
  BY <1>2, <1>3 DEF Agrees
<1>5. log[Reached] \in Records
  BY <1>1, <1>4
<1> QED BY <1>1, <1>4, <1>5, Standing

\* And what it expects next is numbered behind it.
LEMMA NextSeen ==
  ASSUME IInv, Agrees, cursor.state = "Replaying"
  PROVE  cursor.next = Tidings(log[Reached])
<1>1. /\ Kernel!IInv /\ accepted \in Seq(Records) /\ Len(accepted) = Reached
      /\ Reached \in 1 .. Len(log) /\ log[Reached] \in Records
      /\ ~OpensBoundary(log[Reached]) /\ log[Reached].type \notin TerminalTypes
  BY Going, LastSeen DEF Agrees
<1>2. accepted # <<>> /\ log[Reached] = accepted[Len(accepted)]
  BY <1>1 DEF Agrees
<1>3. /\ log[Reached].type = "RunStarted" => cursor.next = 0
      /\ log[Reached].type # "RunStarted" => cursor.next = log[Reached].seq + 1
  BY <1>1, <1>2, Vocabulary
     DEF Kernel!IInv, Kernel!NextFollowsLast, Kernel!Halted, Kernel!LastAccepted
<1>4. log[Reached].type # "RunStarted" => Tells(log[Reached])
  BY <1>1, Fields DEF Tells, OpensBoundary, BoundaryTypes
<1> QED BY <1>1, <1>3, <1>4, Fields DEF Tidings

\* What the scan offers a boot may follow what it has seen.
LEMMA OfferedFollows ==
  ASSUME IInv, Faithful, Live, Offered # EndOfHistory
  PROVE  /\ source = "Scanning" /\ Reached = pos /\ pos \in 1 .. Len(log)
         /\ pos + 1 \in 2 .. Len(log) /\ Offered = log[pos + 1] /\ Offered \in Records
         /\ log[pos] \in Records /\ History!Follows(log[pos], Offered)
         /\ Begins(Offered) => Grounds(Wish, Offered)
<1>1. /\ BankTyped /\ MemTyped /\ log \in Seq(Records) /\ Len(log) \in Nat
  BY Going
<1>2. /\ source = "Scanning" /\ pos + 1 \in 1 .. Len(log) /\ Offered = log[pos + 1]
      /\ Offered \in Records
  BY <1>1, Offers
<1>3. Reached = pos /\ pos \in 1 .. Len(log)
  BY <1>2 DEF Reached, Faithful, Abreast
<1>4. pos + 1 \in 2 .. Len(log) /\ (pos + 1) - 1 = pos
  BY <1>1, <1>2, <1>3
<1>5. History!Follows(log[pos], Offered)
  BY <1>2, <1>4 DEF Faithful, Story, Lawful
<1>6. ASSUME Begins(Offered)
      PROVE  Grounds(Wish, Offered)
  <2>1. Asked(log, run, pos + 1)
    BY <1>2, <1>4, <1>6 DEF Faithful, Story, Wished
  <2>2. version = log[1].val /\ obs = Tale(log, Tidings(log[pos]))
    BY <1>3 DEF Faithful, Abreast
  <2> QED BY <1>2, <1>4, <2>1, <2>2 DEF Asked, Wish
<1> QED BY <1>1, <1>2, <1>3, <1>4, <1>5, <1>6

\* A boot that moves past a record tells its workflow what the record tells.
LEMMA FaithfulMoves ==
  ASSUME Faithful, NEW h \in Seq(Records), log' = h, Story(h, run'),
         \A n \in Nat : HasTale(log, n) => HasTale(h, n) /\ Tale(h, n) = Tale(log, n),
         NEW n \in 1 .. Len(h), Reached' = n, version' = h[1].val,
         HasTale(log, Tidings(log[Reached])), Tidings(log[Reached]) \in Nat,
         obs = Tale(log, Tidings(log[Reached])),
         IF Tells(h[n])
           THEN Tidings(log[Reached]) = h[n].seq /\ Hear(Telling(h[n]))
           ELSE Tidings(log[Reached]) = Tidings(h[n]) /\ UNCHANGED <<obs, told>>,
         stop' = "None", at' \notin {"Down", "Opening", "Ending"}
  PROVE  Faithful'
<1> DEFINE m == Tidings(log[Reached])
<1>1. Rising(h) /\ HasTale(h, m) /\ obs = Tale(h, m) /\ m \in Nat
  BY DEF Story
<1> HIDE DEF m
<1>2. CASE Tells(h[n])
  <2>1. m = h[n].seq /\ Hear(Telling(h[n])) /\ Tidings(h[n]) = m + 1
    BY <1>2 DEF m, Tidings
  <2>2. HasTale(h, m + 1) /\ obs' = Tale(h, m + 1)
    BY <1>1, <1>2, <2>1, TaleGrows DEF Hear
  <2>3. Kept'
    BY <1>1, <2>1, <2>2, KeptStays DEF Hear, Faithful
  <2>4. obs' = Tale(h, Tidings(h[n]))
    BY <2>1, <2>2
  <2>5. Abreast' /\ NeverDiverges'
    BY <2>4 DEF Abreast, NeverDiverges
  <2> QED BY <2>3, <2>5 DEF Faithful
<1>3. CASE ~Tells(h[n])
  <2>1. m = Tidings(h[n]) /\ UNCHANGED <<obs, told>>
    BY <1>3 DEF m
  <2>2. Kept'
    BY <1>1, <2>1, KeptStays DEF Faithful
  <2>3. Abreast' /\ NeverDiverges'
    BY <1>1, <2>1 DEF Abreast, NeverDiverges
  <2> QED BY <2>2, <2>3 DEF Faithful
<1> QED BY <1>2, <1>3

\* The record comes from the scan.
LEMMA FaithfulScans ==
  ASSUME IInv, Faithful, Live, Offered # EndOfHistory, Peeks, UNCHANGED <<log, run, version>>,
         IF Tells(Offered) THEN Hear(Telling(Offered))
                           ELSE OpensBoundary(Offered) /\ UNCHANGED <<obs, told>>,
         stop' = "None", at' \notin {"Down", "Opening", "Ending"}
  PROVE  Faithful'
<1>1. /\ source = "Scanning" /\ Reached = pos /\ pos \in 1 .. Len(log)
      /\ pos + 1 \in 1 .. Len(log) /\ Offered = log[pos + 1] /\ Offered \in Records
      /\ log[pos] \in Records /\ History!Follows(log[pos], Offered)
  BY OfferedFollows
<1>2. log \in Seq(Records) /\ Story(log, run)
  BY Going DEF Faithful
<1>3. Reached' = pos + 1
  BY <1>1 DEF Peeks, Reached
<1>4. version' = log[1].val /\ obs = Tale(log, Tidings(log[Reached]))
  BY DEF Faithful, Abreast
<1>5. HasTale(log, Tidings(log[Reached])) /\ Tidings(log[Reached]) \in Nat
  BY <1>1, <1>2, StoryTells DEF Story
<1>6. IF Tells(Offered)
        THEN Tidings(log[Reached]) = Offered.seq /\ Hear(Telling(Offered))
        ELSE Tidings(log[Reached]) = Tidings(Offered) /\ UNCHANGED <<obs, told>>
  BY <1>1, Successor
<1> QED BY <1>1, <1>2, <1>3, <1>4, <1>5, <1>6, FaithfulMoves

\* What is written goes on with the story.
LEMMA Onward ==
  ASSUME IInv, Faithful, NEW rec \in Records, Continues(log, run, rec),
         log' \in {log, Append(log, rec)}, run' = run
  PROVE  /\ Story(log', run') /\ log' \in Seq(Records) /\ Rising(log')
         /\ \A n \in Nat : HasTale(log, n) => HasTale(log', n) /\ Tale(log', n) = Tale(log, n)
<1>1. log \in Seq(Records) /\ Story(log, run)
  BY Going DEF Faithful
<1>2. CASE log' = log
  BY <1>1, <1>2 DEF Story
<1>3. CASE log' = Append(log, rec)
  BY <1>1, <1>3, StoryGrows DEF Story
<1> QED BY <1>2, <1>3

\* The record is written.
LEMMA FaithfulWrites ==
  ASSUME IInv, Faithful, Live, Reached = Len(log), NEW rec \in Records,
         Continues(log, run, rec), Written(rec), version' = version, source' # "Scanning",
         IF Tells(rec) THEN Hear(Telling(rec))
                       ELSE OpensBoundary(rec) /\ UNCHANGED <<obs, told>>,
         stop' = "None", at' \notin {"Down", "Opening", "Ending"}
  PROVE  Faithful'
<1>0. log' = Append(log, rec) /\ run' = run
  BY DEF Written
<1>1. /\ Reached \in 1 .. Len(log) /\ version = log[1].val
      /\ obs = Tale(log, Tidings(log[Reached]))
  BY DEF Faithful, Abreast
<1>2. log \in Seq(Records) /\ Story(log, run) /\ Len(log) \in Nat
  BY Going DEF Faithful
<1>3. /\ Story(log', run')
      /\ \A n \in Nat : HasTale(log, n) => HasTale(log', n) /\ Tale(log', n) = Tale(log, n)
  BY <1>0, Onward
<1>4. /\ log' \in Seq(Records) /\ Len(log') = Len(log) + 1 /\ log'[Len(log')] = rec
      /\ log'[1] = log[1] /\ Len(log') \in 1 .. Len(log')
  BY <1>0, <1>1, <1>2, Appended
<1>5. Reached' = Len(log')
  BY DEF Reached
<1>6. log[Len(log)] \in Records /\ History!Follows(log[Len(log)], rec)
  BY <1>1, <1>2 DEF Continues
<1>7. HasTale(log, Tidings(log[Reached])) /\ Tidings(log[Reached]) \in Nat
  BY <1>1, <1>2, StoryTells DEF Story
<1>8. IF Tells(rec)
        THEN Tidings(log[Reached]) = rec.seq /\ Hear(Telling(rec))
        ELSE Tidings(log[Reached]) = Tidings(rec) /\ UNCHANGED <<obs, told>>
  BY <1>6, Successor
<1> QED BY <1>1, <1>3, <1>4, <1>5, <1>7, <1>8, FaithfulMoves

\* What the workflow wishes, it wishes on all that history tells.
LEMMA WishIsNext ==
  ASSUME Faithful, Live, Reached = Len(log)
  PROVE  Wish = NextWish(log, run)
BY DEF Faithful, Abreast, Wish, NextWish

\* The record in hand goes on with the story when it is one that was asked for.
LEMMA ReadyContinues ==
  ASSUME IInv, Faithful, Live \/ log = <<>>, NEW rec, NEW state, Ready(rec, state),
         Begins(rec) => Grounds(Wish, rec)
  PROVE  rec \in Records /\ Continues(log, run, rec)
<1>1. rec \in Records /\ History!Legal(rec) /\ Reached = Len(log)
  BY MayFollow DEF Ready, IInv, BankInv, Memory
<1> QED BY <1>1, WishIsNext DEF History!Legal, Continues

-----------------------------------------------------------------------------
(* The machine and a faithful workflow                                     *)

\* A claim of what history has, or where it ends, meets no divergence.
LEMMA EffectMatches ==
  ASSUME cursor.state = "Replaying", phase = "Settled",
         NEW kind, NEW input, NEW step, Machine!Intent(kind, input, step),
         \/ step = EndOfHistory
         \/ /\ step.type = "EffectScheduled" /\ step.seq = cursor.next
            /\ step.arg.kind = kind /\ step.arg.input = input
  PROVE  answer'.kind \notin Divergent /\ (answer'.kind = "Recorded" => answer'.val = step.val)
<1>1. Kernel!Intent(kind, input, step) /\ Kernel!ClaimHeard /\ ~Kernel!ClaimRefused
  BY SameMachine, Hears
<1>2. CASE step = EndOfHistory
  <2>1. Kernel!Frontier("Schedule")
    BY <1>1, <1>2, Vocabulary DEF Kernel!Intent, EndOfHistory
  <2> QED BY <2>1 DEF Kernel!Frontier, Kernel!Fresh, Kernel!Refuse, Divergent
<1>3. CASE /\ step.type = "EffectScheduled" /\ step.seq = cursor.next
           /\ step.arg.kind = kind /\ step.arg.input = input
  <2>1. step # EndOfHistory /\ ~Kernel!ForeignRecord(step, "EffectScheduled")
    BY <1>3 DEF EndOfHistory, Kernel!ForeignRecord, Kernel!TerminalTypes, Kernel!BoundaryTypes
  <2>2. Kernel!RecordedEffect(kind, input, step)
    BY <1>1, <2>1, Vocabulary DEF Kernel!Intent
  <2>3. Kernel!EffectDivergence(kind, input, step) = "None"
    BY <1>3 DEF Kernel!EffectDivergence
  <2> QED BY <2>2, <2>3 DEF Kernel!RecordedEffect, Kernel!Refuse, Kernel!Fresh,
                            Kernel!Consume, Kernel!Answer, Divergent
<1> QED BY <1>2, <1>3

\* So of a timer.
LEMMA TimerMatches ==
  ASSUME cursor.state = "Replaying", phase = "Settled",
         NEW spec, NEW step, Machine!TimerIntent(spec, Persistent, step),
         \/ step = EndOfHistory
         \/ step.type = "TimerScheduled" /\ step.seq = cursor.next /\ step.arg = spec
  PROVE  answer'.kind \notin Divergent /\ (answer'.kind = "Recorded" => answer'.val = step.val)
<1>1. Kernel!TimerIntent(spec, Persistent, step) /\ Kernel!ClaimHeard /\ ~Kernel!ClaimRefused
  BY SameMachine, Hears
<1>2. CASE step = EndOfHistory
  <2>1. Kernel!Frontier("Schedule") \/ Kernel!Refuse("NoPersistentClock")
    BY <1>1, <1>2, Vocabulary DEF Kernel!TimerIntent, EndOfHistory
  <2> QED BY <2>1 DEF Kernel!Frontier, Kernel!Fresh, Kernel!Refuse, Divergent
<1>3. CASE step.type = "TimerScheduled" /\ step.seq = cursor.next /\ step.arg = spec
  <2>1. step # EndOfHistory /\ ~Kernel!ForeignRecord(step, "TimerScheduled")
    BY <1>3 DEF EndOfHistory, Kernel!ForeignRecord, Kernel!TerminalTypes, Kernel!BoundaryTypes
  <2>2. Kernel!RecordedTimer(spec, Persistent, step)
    BY <1>1, <2>1, Vocabulary DEF Kernel!TimerIntent
  <2>3. \/ \E e \in {"IdExhausted", "IncompatibleWorkflow"} : Kernel!Refuse(e)
        \/ Kernel!Consume(step, "Recorded", "AwaitingFiring")
    BY <1>3, <2>2 DEF Kernel!RecordedTimer
  <2> QED BY <2>3 DEF Kernel!Refuse, Kernel!Fresh, Kernel!Consume, Kernel!Answer, Divergent
<1> QED BY <1>2, <1>3

\* So of a gate.
LEMMA GateMatches ==
  ASSUME cursor.state = "Replaying", phase = "Settled",
         NEW gate, NEW step, Machine!VersionIntent(gate, Oldest, fw, step),
         \/ step = EndOfHistory
         \/ step.type = "VersionMarker" /\ step.seq = cursor.next /\ step.arg = gate
  PROVE  answer'.kind \notin Divergent /\ (answer'.kind = "Recorded" => answer'.val = step.val)
<1>1. Kernel!VersionIntent(gate, Oldest, fw, step) /\ Kernel!ClaimHeard /\ ~Kernel!ClaimRefused
  BY SameMachine, Hears
<1>2. CASE step = EndOfHistory
  <2>1. Kernel!Frontier("Record")
    BY <1>1, <1>2, Vocabulary DEF Kernel!VersionIntent, EndOfHistory
  <2> QED BY <2>1 DEF Kernel!Frontier, Kernel!Fresh, Kernel!Refuse, Divergent
<1>3. CASE step.type = "VersionMarker" /\ step.seq = cursor.next /\ step.arg = gate
  <2>1. step # EndOfHistory /\ ~Kernel!ForeignRecord(step, "VersionMarker")
    BY <1>3 DEF EndOfHistory, Kernel!ForeignRecord, Kernel!TerminalTypes, Kernel!BoundaryTypes
  <2>2. Kernel!RecordedGate(gate, Oldest, fw, step)
    BY <1>1, <2>1, Vocabulary DEF Kernel!VersionIntent
  <2>3. \/ \E e \in {"IdExhausted", "IncompatibleWorkflow"} : Kernel!Refuse(e)
        \/ Kernel!Consume(step, "Recorded", phase)
    BY <1>3, <2>2 DEF Kernel!RecordedGate
  <2> QED BY <2>3 DEF Kernel!Refuse, Kernel!Fresh, Kernel!Consume, Kernel!Answer, Divergent
<1> QED BY <1>2, <1>3

\* An outcome or a firing that answers the open boundary is taken.
LEMMA OutcomeTaken ==
  ASSUME cursor.state = "AwaitingOutcome", phase = "AwaitingOutcome", NEW step,
         Machine!Outcome(step), step # EndOfHistory, Kernel!Accepts(cursor, step)
  PROVE  answer'.kind = "Replayed" /\ answer'.val = step.val
<1>1. Kernel!Outcome(step)
  BY SameMachine
<1>2. Kernel!Consume(step, "Replayed", "Settled")
  BY <1>1, Vocabulary DEF Kernel!Outcome, Kernel!Halted, Kernel!Halt
<1> QED BY <1>2 DEF Kernel!Consume, Kernel!Answer

\* And the firing of an open timer.
LEMMA FiringTaken ==
  ASSUME cursor.state = "AwaitingTimer", phase = "AwaitingFiring", NEW step,
         Machine!TimerOutcome(step), step # EndOfHistory, Kernel!Accepts(cursor, step)
  PROVE  answer'.kind = "Fired"
<1>1. Kernel!TimerOutcome(step)
  BY SameMachine
<1>2. Kernel!Consume(step, "Fired", "Settled")
  BY <1>1, Vocabulary DEF Kernel!TimerOutcome, Kernel!Halted, Kernel!Halt
<1> QED BY <1>2 DEF Kernel!Consume, Kernel!Answer

\* What history offers where the workflow asks is the boundary it asks for, or
\* the end of the run it asks for.
LEMMA OfferedIsWished ==
  ASSUME IInv, Faithful, Running, Offered # EndOfHistory
  PROVE  /\ Live /\ Begins(Offered) /\ Grounds(Wish, Offered)
         /\ Offered.type \in BoundaryTypes => Offered.seq = cursor.next
<1>1. /\ Live /\ Agrees /\ cursor.state = "Replaying"
  BY DEF Running, Live, IInv, Memory, Placed, Following, AtRest
<1>2. /\ Reached = pos /\ log[pos] \in Records /\ Offered \in Records
      /\ History!Follows(log[pos], Offered)
      /\ Begins(Offered) => Grounds(Wish, Offered)
  BY <1>1, OfferedFollows
<1>3. ~OpensBoundary(log[pos])
  BY <1>1, <1>2, LastSeen
<1>4. /\ Begins(Offered)
      /\ Offered.type \in BoundaryTypes => Offered.seq = Tidings(log[pos])
  BY <1>2, <1>3, Successor
<1>5. cursor.next = Tidings(log[pos])
  BY <1>1, <1>2, NextSeen
<1> QED BY <1>1, <1>2, <1>4, <1>5

\* What the workflow claims it is told on from, or its boot stops for want of
\* something other than its faith.
LEMMA ClaimFaithful ==
  ASSUME IInv, Faithful, Running, Peeks, UNCHANGED <<log, run, version>>,
         NEW grant \in {"Schedule", "Record"}, NEW own \in BoundaryTypes, NEW state, NEW to,
         NEW fresh \in {"Scheduling", "Arming", "Marking"},
         NEW recorded \in {"Answering", "Firing", "Running"},
         Claiming(Offered, grant, own, state, to), Claimed(fresh, recorded),
         answer'.kind \notin Divergent,
         answer'.kind = "Recorded" =>
           IF Tells(Offered) THEN Hear(Telling(Offered))
                             ELSE OpensBoundary(Offered) /\ UNCHANGED <<obs, told>>,
         answer'.kind # "Recorded" => UNCHANGED <<obs, told>>
  PROVE  Faithful'
<1>1. /\ Live /\ BankTyped /\ MemTyped /\ Agrees
  BY Going DEF Live, Running
<1>2. CASE Offered = EndOfHistory /\ Granting(grant)
  <2>1. at' = fresh /\ stop' = "None" /\ answer'.kind # "Recorded"
    BY <1>2 DEF Granting, Claimed, Stands
  <2>2. Reached' = Reached /\ source' = "Writing"
    <3>1. source' = "Writing" /\ Reached = Len(log)
      BY <1>1, <1>2, Offers DEF Peeks
    <3> QED BY <3>1 DEF Reached
  <2> QED BY <1>1, <2>1, <2>2, FaithfulStays DEF Divergent
<1>3. CASE Consuming(Offered, "Recorded", state, to)
  <2>1. Offered # EndOfHistory
    BY <1>3 DEF Consuming, Records, EndOfHistory, OutcomeTypes, TerminalTypes
  <2>2. at' = recorded /\ stop' = "None" /\ answer'.kind = "Recorded"
    BY <1>3 DEF Consuming, Claimed, Stands
  <2> QED BY <1>1, <2>1, <2>2, FaithfulScans
<1>4. CASE Refusing \/ answer'.kind = "Finished"
  <2>1. at' = "Running" /\ stop' = answer'.kind /\ answer'.kind \in Machine!KernelErrors \cup {"Finished"}
    BY <1>4 DEF Refusing, Claimed, Stands, Machine!KernelErrors
  <2>2. ~Live' /\ stop' # "NearCapacity" /\ answer'.kind # "Recorded"
    BY <2>1 DEF Live, Machine!KernelErrors
  <2> QED BY <2>1, <2>2, FaithfulStays
<1> QED BY <1>2, <1>3, <1>4 DEF Claiming

-----------------------------------------------------------------------------
(* Each action keeps faith                                                 *)

\* Booting tells the workflow nothing yet.
LEMMA BootFaithful ==
  ASSUME IInv, Faithful, Boot
  PROVE  Faithful'
<1>1. /\ at = "Down" /\ at' = "Opening" /\ stop' = stop
      /\ UNCHANGED <<log, run, obs, told>>
  BY DEF Boot, bank, ghosts
<1>2. obs = <<>> /\ stop = "None"
  BY <1>1 DEF Faithful, Abreast, IInv, Memory, Placed, AtRest
<1> QED BY <1>1, <1>2, FaithfulStays DEF Live, Divergent

\* A run that has begun has told nothing but that.
LEMMA BegunFaithful ==
  ASSUME Story(log', run'), Kept', log' \in Seq(Records), Reached' = 1, 1 \in 1 .. Len(log'),
         log'[1].type = "RunStarted", version' = log'[1].val, obs' = <<>>,
         at' = "Running", stop' = "None"
  PROVE  Faithful'
<1>1. Tidings(log'[1]) = 0
  BY Fields
<1>2. Tale(log', 0) = <<>>
  BY DEF Tale
<1>3. Abreast' /\ NeverDiverges'
  BY <1>1, <1>2 DEF Abreast, NeverDiverges
<1> QED BY <1>3 DEF Faithful

\* One whose start history holds.
LEMMA BeginRecordedFaithful ==
  ASSUME IInv, Faithful, BeginRecorded
  PROVE  Faithful'
<1>1. CASE GoesDown
  BY <1>1, FaithfulGoesDown
<1>2. CASE /\ Machine!Advance(log[1]) /\ Peeks /\ Follow("Step", "Running")
           /\ version' = log[1].val
           /\ UNCHANGED <<bank, obs, ghosts>>
  <2>1. at = "Opening" /\ log # <<>> /\ UNCHANGED <<log, run, obs, told>>
    BY <1>2 DEF BeginRecorded, bank, ghosts
  <2>2. /\ source = "Scanning" /\ pos = 0 /\ phase = "Settled"
        /\ cursor.state = "BeforeRun" /\ Kernel!IInv /\ BankTyped /\ log \in Seq(Records)
    BY <2>1, Going DEF IInv, Memory, Placed, AtRest
  <2>3. log[1] \in Records /\ log[1].type = "RunStarted" /\ 1 \in 1 .. Len(log) /\ pos < Len(log)
    BY <2>1, <2>2 DEF BankTyped
  <2>4. Offered # EndOfHistory
    BY <2>2, <2>3 DEF Offered, EndOfHistory
  <2>5. Reached' = 1
    BY <1>2, <2>2, <2>4 DEF Peeks, Reached
  <2>6. answer'.kind = "Step"
    BY <1>2, <2>2, <2>3, Advances DEF Consuming, Kernel!Accepts
  <2>7. at' = "Running" /\ stop' = "None"
    BY <1>2, <2>6, GrantGoes
  <2>8. obs' = <<>>
    BY <2>1 DEF Faithful, Abreast
  <2>9. Kept' /\ Story(log', run')
    BY <2>1 DEF Faithful, Kept, ReplayIsStable
  <2>10. 1 \in 1 .. Len(log') /\ log'[1].type = "RunStarted" /\ version' = log'[1].val
    BY <1>2, <2>1, <2>3
  <2> QED BY <2>1, <2>2, <2>5, <2>7, <2>8, <2>9, <2>10, BegunFaithful
<1> QED BY <1>1, <1>2 DEF BeginRecorded

\* One whose start is written.
LEMMA BeginFreshFaithful ==
  ASSUME IInv, Faithful, BeginFresh
  PROVE  Faithful'
<1>1. CASE GoesDown
  BY <1>1, FaithfulGoesDown
<1>2. CASE /\ Written(Started) /\ Machine!Advance(Started) /\ Peeks /\ Follow("Step", "Running")
           /\ version' = fw
           /\ UNCHANGED <<obs, ghosts>>
  <2>1. /\ at = "Opening" /\ log = <<>> /\ UNCHANGED <<run, obs, told>>
        /\ log' = Append(log, Started)
    BY <1>2 DEF BeginFresh, Written, ghosts
  <2>2. pos = 0 /\ log \in Seq(Records) /\ Len(log) = 0
    BY <2>1, Going DEF IInv, Memory, Placed, AtRest
  <2>3. source' = "Writing"
    BY <1>2, <2>1, <2>2 DEF Offered, Peeks
  <2>4. Ready(Started, "Replaying")
    BY <2>1, StartReady
  <2>5. answer'.kind = "Step"
    BY <1>2, <2>3, <2>4, ReadyTaken
  <2>6. at' = "Running" /\ stop' = "None"
    BY <1>2, <2>5, GrantGoes
  <2>7. Started \in Records /\ Continues(log, run, Started)
    <3>1. ~Begins(Started)
      BY DEF Begins, Started, BoundaryTypes, TerminalTypes
    <3> QED BY <2>1, <2>4, <3>1, ReadyContinues
  <2>8. /\ Story(log', run') /\ log' \in Seq(Records) /\ Rising(log')
        /\ \A n \in Nat : HasTale(log, n) => HasTale(log', n) /\ Tale(log', n) = Tale(log, n)
    BY <2>1, <2>7, Onward
  <2>9. Kept'
    BY <2>1, <2>8, KeptStays DEF Faithful
  <2>10. Reached' = Len(log') /\ Len(log') = 1 /\ log'[1] = Started
    <3>1. Len(log') = 1 /\ log'[1] = Started
      BY <2>1, <2>2, <2>7, Appended
    <3> QED BY <2>3, <3>1 DEF Reached
  <2>11. obs' = <<>>
    BY <2>1 DEF Faithful, Abreast
  <2>12. log'[1].type = "RunStarted" /\ version' = log'[1].val /\ 1 \in 1 .. Len(log')
    BY <1>2, <2>10 DEF Started
  <2>13. Reached' = 1
    BY <2>10
  <2> QED BY <2>6, <2>8, <2>9, <2>11, <2>12, <2>13, BegunFaithful
<1> QED BY <1>1, <1>2 DEF BeginFresh

\* The effect asked for is the one history has, or history ends.
LEMMA AskEffectFaithful ==
  ASSUME IInv, ProgramIsTyped, Faithful, AskEffect
  PROVE  Faithful'
<1>1. /\ Running /\ Wish.op = "effect" /\ Peeks /\ Claimed("Scheduling", "Answering")
      /\ Machine!Intent(Wish.arg.kind, Wish.arg.input, Offered)
      /\ UNCHANGED <<log, run, version, obs, told>>
  BY DEF AskEffect, Claims, Untold, ghosts, bank
<1>2. /\ Kernel!IInv /\ BankTyped /\ MemTyped /\ Offered \in Steps
      /\ cursor.state = "Replaying" /\ phase = "Settled" /\ at = "Running" /\ stop = "None"
  BY <1>1, Going, Offers DEF IInv, Memory, Placed, AtRest, Running
<1>3. Wish.arg.kind \in Kinds /\ Wish.arg.input \in Inputs
  BY <1>1, WishTyped DEF Asks
<1>4. Claiming(Offered, "Schedule", "EffectScheduled", "AwaitingOutcome", "AwaitingOutcome")
  BY <1>1, <1>2, <1>3, EffectClaim
<1>5. ASSUME Offered # EndOfHistory
      PROVE  /\ Offered.type = "EffectScheduled" /\ Offered.seq = cursor.next
             /\ Offered.arg = Wish.arg /\ ~Tells(Offered) /\ OpensBoundary(Offered)
  <2>1. Grounds(Wish, Offered) /\ (Offered.type \in BoundaryTypes => Offered.seq = cursor.next)
    BY <1>2, <1>5, OfferedIsWished DEF Running
  <2>2. Offered.type = "EffectScheduled" /\ Offered.arg = Wish.arg
    BY <1>1, <2>1 DEF Grounds
  <2> QED BY <2>1, <2>2 DEF BoundaryTypes, Tells, OpensBoundary, OutcomeTypes
<1>6. answer'.kind \notin Divergent
  BY <1>1, <1>2, <1>5, EffectMatches
<1>7. answer'.kind = "Recorded" => Offered # EndOfHistory
  BY <1>4 DEF Claiming, Granting, Consuming, Records, EndOfHistory, OutcomeTypes, TerminalTypes,
              Refusing, Machine!KernelErrors
<1> QED BY <1>1, <1>4, <1>5, <1>6, <1>7, ClaimFaithful DEF BoundaryTypes

\* So is the timer.
LEMMA AskTimerFaithful ==
  ASSUME IInv, ProgramIsTyped, Faithful, AskTimer
  PROVE  Faithful'
<1>1. /\ Running /\ Wish.op = "wait" /\ Peeks /\ Claimed("Arming", "Firing")
      /\ Machine!TimerIntent(Wish.arg, Persistent, Offered)
      /\ UNCHANGED <<log, run, version, obs, told>>
  BY DEF AskTimer, Claims, Untold, ghosts, bank
<1>2. /\ Kernel!IInv /\ BankTyped /\ MemTyped /\ Offered \in Steps
      /\ cursor.state = "Replaying" /\ phase = "Settled" /\ at = "Running" /\ stop = "None"
  BY <1>1, Going, Offers DEF IInv, Memory, Placed, AtRest, Running
<1>3. Wish.arg \in Specs
  BY <1>1, WishTyped
<1>4. Claiming(Offered, "Schedule", "TimerScheduled", "AwaitingTimer", "AwaitingFiring")
  BY <1>1, <1>2, <1>3, TimerClaim
<1>5. ASSUME Offered # EndOfHistory
      PROVE  /\ Offered.type = "TimerScheduled" /\ Offered.seq = cursor.next
             /\ Offered.arg = Wish.arg /\ ~Tells(Offered) /\ OpensBoundary(Offered)
  <2>1. Grounds(Wish, Offered) /\ (Offered.type \in BoundaryTypes => Offered.seq = cursor.next)
    BY <1>2, <1>5, OfferedIsWished DEF Running
  <2>2. Offered.type = "TimerScheduled" /\ Offered.arg = Wish.arg
    BY <1>1, <2>1 DEF Grounds
  <2> QED BY <2>1, <2>2 DEF BoundaryTypes, Tells, OpensBoundary, OutcomeTypes
<1>6. answer'.kind \notin Divergent
  BY <1>1, <1>2, <1>5, TimerMatches
<1>7. answer'.kind = "Recorded" => Offered # EndOfHistory
  BY <1>4 DEF Claiming, Granting, Consuming, Records, EndOfHistory, OutcomeTypes, TerminalTypes,
              Refusing, Machine!KernelErrors
<1> QED BY <1>1, <1>4, <1>5, <1>6, <1>7, ClaimFaithful DEF BoundaryTypes

\* So is the gate, and its branch is told as it was.
LEMMA AskGateFaithful ==
  ASSUME IInv, ProgramIsTyped, Faithful, AskGate
  PROVE  Faithful'
<1>1. /\ Running /\ Wish.op = "gate" /\ Peeks /\ Claimed("Marking", "Running")
      /\ Machine!VersionIntent(Wish.arg, Oldest, fw, Offered)
      /\ IF answer'.kind = "Recorded" THEN Observe("Branch", answer'.val) ELSE Untold
      /\ UNCHANGED <<log, run, version>>
  BY DEF AskGate, Claims, bank
<1>2. /\ Kernel!IInv /\ BankTyped /\ MemTyped /\ Offered \in Steps
      /\ cursor.state = "Replaying" /\ phase = "Settled" /\ at = "Running" /\ stop = "None"
  BY <1>1, Going, Offers DEF IInv, Memory, Placed, AtRest, Running
<1>3. Wish.arg \in Gates /\ fw \in Versions
  BY <1>1, <1>2, WishTyped DEF BankTyped
<1>4. Claiming(Offered, "Record", "VersionMarker", "Replaying", "Settled")
  BY <1>1, <1>2, <1>3, GateClaim
<1>5. ASSUME Offered # EndOfHistory
      PROVE  /\ Offered.type = "VersionMarker" /\ Offered.seq = cursor.next
             /\ Offered.arg = Wish.arg /\ Tells(Offered)
  <2>1. Grounds(Wish, Offered) /\ (Offered.type \in BoundaryTypes => Offered.seq = cursor.next)
    BY <1>2, <1>5, OfferedIsWished DEF Running
  <2>2. Offered.type = "VersionMarker" /\ Offered.arg = Wish.arg
    BY <1>1, <2>1 DEF Grounds
  <2> QED BY <2>1, <2>2 DEF BoundaryTypes, Tells
<1>6. answer'.kind \notin Divergent /\ (answer'.kind = "Recorded" => answer'.val = Offered.val)
  BY <1>1, <1>2, <1>5, GateMatches
<1>7. answer'.kind = "Recorded" => Offered # EndOfHistory
  BY <1>4 DEF Claiming, Granting, Consuming, Records, EndOfHistory, OutcomeTypes, TerminalTypes,
              Refusing, Machine!KernelErrors
<1>8. answer'.kind = "Recorded" => Hear(Telling(Offered))
  BY <1>1, <1>5, <1>6, <1>7 DEF Observe, Hear, Telling
<1>9. answer'.kind # "Recorded" => UNCHANGED <<obs, told>>
  BY <1>1 DEF Untold, ghosts
<1> QED BY <1>1, <1>4, <1>5, <1>6, <1>7, <1>8, <1>9, ClaimFaithful DEF BoundaryTypes


\* A record that is ready, written and taken is told as it should be.
LEMMA OnMedia ==
  ASSUME IInv, Faithful, Live, NEW rec, NEW state, Ready(rec, state),
         Written(rec), Machine!Advance(rec), source' \in {"Writing", "Spent"},
         NEW where, where \notin {"Down", "Opening", "Ending"}, Follow("Step", where),
         version' = version, Begins(rec) => Grounds(Wish, rec),
         IF Tells(rec) THEN Hear(Telling(rec))
                       ELSE OpensBoundary(rec) /\ UNCHANGED <<obs, told>>
  PROVE  Faithful'
<1>1. rec \in Records /\ Continues(log, run, rec)
  BY ReadyContinues
<1>2. at' = where /\ stop' = "None"
  BY ReadyTaken, GrantGoes
<1>3. Reached = Len(log)
  BY DEF Ready
<1>4. source' # "Scanning" /\ at' \notin {"Down", "Opening", "Ending"}
  BY <1>2
<1> QED BY <1>1, <1>2, <1>3, <1>4, FaithfulWrites

\* A granted effect is on media.
LEMMA ScheduleFaithful ==
  ASSUME IInv, ProgramIsTyped, Faithful, Schedule
  PROVE  Faithful'
<1>1. /\ at = "Scheduling" /\ Written(EffectScheduled) /\ Machine!Advance(EffectScheduled)
      /\ source' = "Spent" /\ Follow("Step", "Dispatching")
      /\ UNCHANGED <<version, obs, told>>
  BY DEF Schedule, Untold, ghosts
<1>2. Ready(EffectScheduled, "AwaitingOutcome") /\ Live
  BY <1>1, EffectReady DEF Live
<1>3. Grounds(Wish, EffectScheduled)
  BY <1>1 DEF IInv, Memory, Placed, AtGrant, Grounds, EffectScheduled, Boundary
<1>4. ~Tells(EffectScheduled) /\ OpensBoundary(EffectScheduled)
  BY DEF EffectScheduled, Boundary, Tells, OpensBoundary, OutcomeTypes
<1> QED BY <1>1, <1>2, <1>3, <1>4, OnMedia

\* A granted timer is on media.
LEMMA ArmFaithful ==
  ASSUME IInv, ProgramIsTyped, Faithful, Arm
  PROVE  Faithful'
<1>1. /\ at = "Arming" /\ Written(TimerScheduled) /\ Machine!Advance(TimerScheduled)
      /\ Follow("Step", "Reading") /\ UNCHANGED <<source, version, obs, told>>
  BY DEF Arm, Untold, ghosts, scan
<1>2. Ready(TimerScheduled, "AwaitingTimer") /\ Live
  BY <1>1, TimerReady DEF Live
<1>3. Grounds(Wish, TimerScheduled) /\ source = "Writing"
  BY <1>1 DEF IInv, Memory, Placed, AtGrant, Grounds, TimerScheduled, Boundary
<1>4. ~Tells(TimerScheduled) /\ OpensBoundary(TimerScheduled)
  BY DEF TimerScheduled, Boundary, Tells, OpensBoundary, OutcomeTypes
<1> QED BY <1>1, <1>2, <1>3, <1>4, OnMedia

\* A granted gate's marker is on media, and the workflow is told its branch.
LEMMA MarkFaithful ==
  ASSUME IInv, ProgramIsTyped, Faithful, Mark
  PROVE  Faithful'
<1>1. /\ at = "Marking" /\ Written(VersionMarker) /\ Machine!Advance(VersionMarker)
      /\ Follow("Step", "Running") /\ Observe("Branch", fw) /\ UNCHANGED <<source, version>>
  BY DEF Mark, scan
<1>2. Ready(VersionMarker, "Replaying") /\ Live
  BY <1>1, MarkerReady DEF Live
<1>3. Grounds(Wish, VersionMarker) /\ source = "Writing"
  BY <1>1 DEF IInv, Memory, Placed, AtGrant, Grounds, VersionMarker, Boundary
<1>4. Tells(VersionMarker) /\ Telling(VersionMarker) = [what |-> "Branch", val |-> fw]
  BY DEF VersionMarker, Boundary, Tells, Telling
<1>5. Hear(Telling(VersionMarker))
  BY <1>1, <1>4 DEF Observe, Hear
<1> QED BY <1>1, <1>2, <1>3, <1>4, <1>5, OnMedia

\* A firing is on media, and the workflow is told that its time has passed.
LEMMA FireFaithful ==
  ASSUME IInv, Faithful, Fire
  PROVE  Faithful'
<1>1. /\ Passes /\ Written(TimerFired) /\ Machine!Advance(TimerFired)
      /\ Follow("Step", "Running") /\ Observe("Passed", NoArg) /\ UNCHANGED <<source, version>>
  BY DEF Fire, scan
<1>2. Ready(TimerFired, "Replaying") /\ source = "Writing" /\ Live
  BY <1>1, FiringReady, TimerInHand DEF Passes, Timing, Live
<1>3. ~Begins(TimerFired)
  BY DEF TimerFired, Outcome, Begins, BoundaryTypes, TerminalTypes
<1>4. Tells(TimerFired) /\ Telling(TimerFired) = [what |-> "Passed", val |-> NoArg]
  BY DEF TimerFired, Outcome, Tells, Telling
<1>5. Hear(Telling(TimerFired))
  BY <1>1, <1>4 DEF Observe, Hear
<1> QED BY <1>1, <1>2, <1>3, <1>4, <1>5, OnMedia

\* An outcome is on media, and the workflow is told it.
LEMMA ResolveFaithful ==
  ASSUME IInv, Faithful, NEW type \in OutcomeTypes, NEW val \in Payloads, Resolve(type, val)
  PROVE  Faithful'
<1> DEFINE rec == Outcome(type, val)
<1>1. /\ at = "Performing" /\ Written(rec) /\ Machine!Advance(rec) /\ source' = "Writing"
      /\ Follow("Step", "Running") /\ Observe(type, val) /\ version' = version
  BY DEF Resolve
<1>2. Ready(rec, "Replaying") /\ Live
  BY <1>1, OutcomeReady DEF Live
<1>3. ~Begins(rec)
  BY DEF Outcome, Begins, BoundaryTypes, TerminalTypes, OutcomeTypes
<1>4. Tells(rec) /\ Telling(rec) = [what |-> type, val |-> val]
  BY DEF Outcome, Tells, Telling, OutcomeTypes
<1>5. Hear(Telling(rec))
  BY <1>1, <1>4 DEF Observe, Hear
<1> HIDE DEF rec
<1> QED BY <1>1, <1>2, <1>3, <1>4, <1>5, OnMedia

\* An outcome history holds is told again, as it was told.
LEMMA ReplayFaithful ==
  ASSUME IInv, Faithful, Replay
  PROVE  Faithful'
<1>1. /\ at = "Answering" /\ Machine!Outcome(Offered) /\ Peeks
      /\ answer'.kind # "Redeliver" /\ Follow("Replayed", "Running")
      /\ IF answer'.kind = "Replayed" THEN Observe(Offered.type, answer'.val) ELSE Untold
      /\ UNCHANGED <<log, run, version>>
  BY DEF Replay, Answering, bank
<1>2. /\ BankTyped /\ MemTyped /\ Kernel!IInv /\ Agrees /\ stop = "None"
      /\ cursor.state = "AwaitingOutcome" /\ phase = "AwaitingOutcome"
  BY <1>1, Going DEF IInv, Memory, Placed, AtBoundary
<1>3. Live /\ Offered \in Steps
  BY <1>1, <1>2, Offers DEF Live
<1>4. Offered # EndOfHistory
  <2>1. SUFFICES ASSUME Offered = EndOfHistory
                 PROVE  answer'.kind = "Redeliver"
    BY <1>1
  <2>2. Kernel!Outcome(EndOfHistory)
    BY <1>1, <2>1, SameMachine
  <2> QED BY <1>2, <2>2, Vocabulary DEF Kernel!Outcome, Kernel!Halted, Kernel!Fresh
<1>5. /\ Reached = pos /\ Offered \in Records /\ log[pos] \in Records
      /\ History!Follows(log[pos], Offered)
  BY <1>3, <1>4, OfferedFollows
<1>6. cursor.open = log[pos] /\ log[pos].type = "EffectScheduled"
  BY <1>2, <1>5, LastSeen
<1>7. Offered.type \in OutcomeTypes /\ Offered.seq = cursor.open.seq
  BY <1>5, <1>6, Successor DEF OpensBoundary
<1>8. Kernel!Accepts(cursor, Offered)
  BY <1>2, <1>7, Vocabulary DEF Kernel!Accepts
<1>9. answer'.kind = "Replayed" /\ answer'.val = Offered.val
  BY <1>1, <1>2, <1>4, <1>8, OutcomeTaken
<1>10. at' = "Running" /\ stop' = "None"
  BY <1>1, <1>9, GrantGoes
<1>11. Tells(Offered) /\ Telling(Offered) = [what |-> Offered.type, val |-> Offered.val]
  BY <1>7 DEF Tells, Telling, OutcomeTypes
<1>12. Hear(Telling(Offered))
  BY <1>1, <1>9, <1>11 DEF Observe, Hear
<1> QED BY <1>1, <1>3, <1>4, <1>10, <1>11, <1>12, FaithfulScans

\* A firing history holds is told again.
LEMMA FiredFaithful ==
  ASSUME IInv, Faithful, Fired
  PROVE  Faithful'
<1>1. /\ at = "Firing" /\ Machine!TimerOutcome(Offered) /\ Peeks
      /\ answer'.kind # "Rearm" /\ Follow("Fired", "Running")
      /\ IF answer'.kind = "Fired" THEN Observe("Passed", NoArg) ELSE Untold
      /\ UNCHANGED <<log, run, version>>
  BY DEF Fired, bank
<1>2. /\ BankTyped /\ MemTyped /\ Kernel!IInv /\ Agrees /\ stop = "None"
      /\ cursor.state = "AwaitingTimer" /\ phase = "AwaitingFiring"
  BY <1>1, Going DEF IInv, Memory, Placed, AtBoundary
<1>3. Live /\ Offered \in Steps
  BY <1>1, <1>2, Offers DEF Live
<1>4. Offered # EndOfHistory
  <2>1. SUFFICES ASSUME Offered = EndOfHistory
                 PROVE  answer'.kind = "Rearm"
    BY <1>1
  <2>2. Kernel!TimerOutcome(EndOfHistory)
    BY <1>1, <2>1, SameMachine
  <2> QED BY <1>2, <2>2, Vocabulary DEF Kernel!TimerOutcome, Kernel!Halted, Kernel!Answer
<1>5. /\ Reached = pos /\ Offered \in Records /\ log[pos] \in Records
      /\ History!Follows(log[pos], Offered)
  BY <1>3, <1>4, OfferedFollows
<1>6. cursor.open = log[pos] /\ log[pos].type = "TimerScheduled"
  BY <1>2, <1>5, LastSeen
<1>7. Offered.type = "TimerFired" /\ Offered.seq = cursor.open.seq
  BY <1>5, <1>6, Successor DEF OpensBoundary
<1>8. Kernel!Accepts(cursor, Offered)
  BY <1>2, <1>7 DEF Kernel!Accepts
<1>9. answer'.kind = "Fired"
  BY <1>1, <1>2, <1>4, <1>8, FiringTaken
<1>10. at' = "Running" /\ stop' = "None"
  BY <1>1, <1>9, GrantGoes
<1>11. Offered.val = NoArg
  BY <1>5, <1>7 DEF Records, OutcomeTypes, TerminalTypes
<1>12. Tells(Offered) /\ Telling(Offered) = [what |-> "Passed", val |-> NoArg]
  BY <1>7, <1>11 DEF Tells, Telling
<1>13. Hear(Telling(Offered))
  BY <1>1, <1>9, <1>12 DEF Observe, Hear
<1> QED BY <1>1, <1>3, <1>4, <1>10, <1>12, <1>13, FaithfulScans

\* An effect history ends with is handed out again, and nothing is told.
LEMMA RedeliverFaithful ==
  ASSUME IInv, Faithful, Redeliver
  PROVE  Faithful'
<1>1. /\ at = "Answering" /\ Machine!Outcome(Offered) /\ answer'.kind = "Redeliver"
      /\ source' = "Spent" /\ Follow("Redeliver", "Dispatching")
      /\ UNCHANGED <<log, run, version, obs, told>>
  BY DEF Redeliver, Untold, ghosts, bank
<1>2. /\ BankTyped /\ MemTyped /\ Kernel!IInv /\ stop = "None"
      /\ cursor.state = "AwaitingOutcome" /\ phase = "AwaitingOutcome"
  BY <1>1, Going DEF IInv, Memory, Placed, AtBoundary
<1>3. Offered = EndOfHistory
  <2>1. Settling(Offered, "Redeliver", "Replayed")
    BY <1>1, <1>2, Offers, EffectSettles
  <2> QED BY <1>1, <2>1 DEF Settling, Consuming, Refusing, Machine!KernelErrors
<1>4. Reached = Len(log) /\ Reached' = Len(log)
  BY <1>1, <1>2, <1>3, Offers DEF Reached
<1>5. at' = "Dispatching" /\ stop' = "None" /\ Live
  BY <1>1, <1>2, GrantGoes DEF Live
<1> QED BY <1>1, <1>4, <1>5, FaithfulStays DEF Divergent

\* A timer history ends with is measured again, and nothing is told.
LEMMA RearmFaithful ==
  ASSUME IInv, Faithful, Rearm
  PROVE  Faithful'
<1>1. /\ at = "Firing" /\ Machine!TimerOutcome(Offered) /\ answer'.kind = "Rearm"
      /\ Peeks /\ Follow("Rearm", "Measuring")
      /\ UNCHANGED <<log, run, version, obs, told>>
  BY DEF Rearm, Untold, ghosts, bank
<1>2. /\ BankTyped /\ MemTyped /\ Kernel!IInv /\ stop = "None"
      /\ cursor.state = "AwaitingTimer" /\ phase = "AwaitingFiring"
  BY <1>1, Going DEF IInv, Memory, Placed, AtBoundary
<1>3. Offered = EndOfHistory
  <2>1. Settling(Offered, "Rearm", "Fired")
    BY <1>1, <1>2, Offers, TimerSettles
  <2> QED BY <1>1, <2>1 DEF Settling, Consuming, Refusing, Machine!KernelErrors
<1>4. Reached = Len(log) /\ Reached' = Len(log)
  BY <1>1, <1>2, <1>3, Offers DEF Peeks, Reached
<1>5. at' = "Measuring" /\ stop' = "None" /\ Live
  BY <1>1, <1>2, GrantGoes DEF Live
<1> QED BY <1>1, <1>4, <1>5, FaithfulStays DEF Divergent

\* Where the driver waits, measures or stops, it tells nothing either.
LEMMA QuietFaithful ==
  ASSUME IInv, Faithful, UNCHANGED <<log, run, source, pos, version, obs, told>>,
         Live' => Live, stop' \notin Divergent \cup {"NearCapacity"},
         at' \notin {"Down", "Opening", "Ending"}
  PROVE  Faithful'
<1>1. Reached' = Reached
  BY DEF Reached
<1> QED BY <1>1, FaithfulStays

\* Whatever it waits for.
LEMMA WaitFaithful ==
  ASSUME IInv, Faithful, Perform \/ Pending \/ PollAgain \/ Read \/ NotYet \/ Misused
  PROVE  Faithful'
<1>1. UNCHANGED <<log, run, source, pos, version, obs, told>>
  BY DEF Perform, Pending, PollAgain, Read, NotYet, Misused, Untold, ghosts, bank, scan
<1>2. CASE Perform
  <2>1. stop' = "None" /\ at' = "Performing" /\ at = "Dispatching"
    BY <1>2, Going DEF Perform
  <2> QED BY <1>1, <2>1, QuietFaithful DEF Live, Divergent
<1>3. CASE PollAgain
  BY <1>1, <1>3, QuietFaithful DEF PollAgain, Stands, Live, Divergent
<1>4. CASE Read
  <2>1. stop' = "None" /\ at' = "Measuring" /\ at = "Reading"
    BY <1>4, Going DEF Read
  <2> QED BY <1>1, <2>1, QuietFaithful DEF Live, Divergent
<1>5. CASE NotYet
  BY <1>1, <1>5, QuietFaithful DEF NotYet, Stands, Live, Divergent
<1>6. CASE Pending \/ Misused
  BY <1>1, <1>6, QuietFaithful DEF Pending, Misused, Stands, Live, Divergent
<1> QED BY <1>2, <1>3, <1>4, <1>5, <1>6

\* The board's clocks and the firmware tell the workflow nothing.
LEMMA TurnFaithful ==
  ASSUME IInv, Faithful, ClockBack \/ Update \/ Tick
  PROVE  Faithful'
<1>1. /\ UNCHANGED <<log, run, at, version, stop, obs, told, source, pos, cursor, accepted>>
  BY DEF ClockBack, Update, Tick, bank, ghosts, scan, kernel
<1>2. Reached' = Reached /\ Wish' = Wish /\ (Live' <=> Live)
  BY <1>1 DEF Reached, Wish, Live
<1>3. stop' \notin Divergent
  BY <1>1 DEF Faithful, NeverDiverges, Divergent
<1>4. /\ at' \in {"Down", "Opening"} => obs' = <<>>
      /\ at' = "Running" /\ stop' = "NearCapacity" =>
           source' # "Scanning" /\ (cursor'.state = "Replaying" => Wish'.op # "return")
  BY <1>1, <1>2 DEF Faithful, Abreast
<1>5. at' = "Ending" => source' # "Scanning" /\ Grounds(Wish', accepted'[Len(accepted')])
  BY <1>1, <1>2 DEF Faithful, Abreast
<1> QED BY <1>1, <1>2, <1>3, <1>4, <1>5, FaithfulStays

\* A boundary the reserve refuses is not told.
LEMMA RefusedFaithful ==
  ASSUME IInv, Faithful, Refused
  PROVE  Faithful'
<1>1. CASE at \in {"Opening", "Ending"}
  BY <1>1, FaithfulGoesDown DEF Refused
<1>2. CASE at \notin {"Opening", "Ending"}
  <2>1. /\ at \in {"Scheduling", "Performing", "Arming", "Measuring", "Marking"}
        /\ at' = "Running" /\ stop' = "NearCapacity" /\ source' \in {source, "Spent"}
        /\ UNCHANGED <<log, run, pos, version, obs, told, cursor>>
    BY <1>2 DEF Refused, Due, Passes, Stands, Untold, ghosts, bank, kernel
  <2>2. source \in {"Writing", "Spent"}
    BY <2>1 DEF IInv, Memory, Placed, AtGrant, AtBoundary, Timing
  <2>3. Live /\ Reached' = Reached /\ source' # "Scanning"
    BY <2>1, <2>2 DEF Live, Reached
  <2>4. ASSUME cursor'.state = "Replaying"
        PROVE  Wish'.op # "return"
    <3>1. Wish' = Wish /\ cursor.state = "Replaying"
      BY <2>1, <2>4 DEF Wish
    <3>2. CASE at = "Scheduling"
      BY <3>1, <3>2 DEF IInv, Memory, Placed, AtGrant
    <3>3. CASE at = "Arming"
      BY <3>1, <3>3 DEF IInv, Memory, Placed, AtGrant
    <3>4. CASE at = "Marking"
      BY <3>1, <3>4 DEF IInv, Memory, Placed, AtGrant
    <3>5. CASE at \in {"Performing", "Measuring"}
      BY <3>1, <3>5 DEF IInv, Memory, Placed, AtBoundary, Timing
    <3> QED BY <2>1, <3>2, <3>3, <3>4, <3>5
  <2> QED BY <2>1, <2>3, <2>4, FaithfulStays DEF Divergent
<1> QED BY <1>1, <1>2

\* The workflow returns where history ends, or where it returned before.
LEMMA ReturnFaithful ==
  ASSUME IInv, ProgramIsTyped, Faithful, Return
  PROVE  Faithful'
<1>1. /\ at = "Running" /\ stop = "None" /\ Wish.op = "return" /\ Peeks
      /\ UNCHANGED <<log, run, version, obs, told>>
  BY DEF Return, Claims, Running, Untold, ghosts, bank
<1>2. /\ BankTyped /\ MemTyped /\ Kernel!IInv /\ Agrees /\ accepted \in Seq(Records)
      /\ cursor.state = "Replaying" /\ phase = "Settled" /\ Live
      /\ log \in Seq(Records) /\ Len(log) \in Nat
  BY <1>1, Going DEF IInv, Memory, Placed, AtRest, Live
<1>3. CASE /\ Offered = EndOfHistory
           /\ Machine!Advance(Terminal(Wish.arg, Wish.val)) /\ Follow("Step", "Ending")
  <2> DEFINE rec == Terminal(Wish.arg, Wish.val)
  <2>1. rec \in Records /\ rec.type \in TerminalTypes /\ Grounds(Wish, rec)
    BY <1>1, WishTyped DEF Terminal, Records, Grounds
  <2>2. Kernel!Accepts(cursor, rec)
    BY <1>2, <2>1, Vocabulary DEF Kernel!Accepts
  <2>3. Machine!Advance(rec)
    BY <1>3
  <2> HIDE DEF rec
  <2>4. answer'.kind = "Step" /\ accepted' = Append(accepted, rec)
    BY <1>2, <2>1, <2>2, <2>3, Advances DEF Consuming
  <2>5. at' = "Ending" /\ stop' = "None"
    BY <1>3, <2>4, GrantGoes
  <2>6. source' = "Writing" /\ Reached' = Reached
    BY <1>1, <1>2, <1>3, Offers DEF Peeks, Reached
  <2>7. accepted'[Len(accepted')] = rec /\ Wish' = Wish
    <3>1. accepted'[Len(accepted')] = rec
      BY <1>2, <2>1, <2>4, Appended
    <3> QED BY <1>1, <3>1 DEF Wish
  <2> QED BY <1>1, <1>2, <2>1, <2>5, <2>6, <2>7, FaithfulStays DEF Divergent
<1>4. CASE Offered # EndOfHistory
  <2>1. Grounds(Wish, Offered)
    BY <1>1, <1>4, OfferedIsWished DEF Running
  <2>2. /\ Offered.type \in TerminalTypes /\ Offered \in Records
        /\ Reached = pos /\ pos \in 1 .. Len(log) /\ pos + 1 \in 2 .. Len(log)
        /\ Offered = log[pos + 1]
    BY <1>1, <1>2, <1>4, <2>1, OfferedFollows DEF Grounds
  <2>3. /\ Machine!Advance(Offered)
        /\ Stands("Running", IF answer'.kind # "Step" THEN answer'.kind
                             ELSE IF pos' = Len(log) THEN "Finished" ELSE "HistoryContinues")
    BY <1>4, <2>2 DEF Return
  <2>4. Kernel!Accepts(cursor, Offered)
    BY <1>2, <2>2, Vocabulary DEF Kernel!Accepts
  <2>5. answer'.kind = "Step"
    BY <1>2, <2>2, <2>3, <2>4, Advances DEF Consuming
  <2>6. pos' = Len(log)
    <3>1. pos' = pos + 1
      BY <1>1, <1>4 DEF Peeks
    <3>2. SUFFICES ASSUME pos + 1 # Len(log)
                   PROVE  FALSE
      BY <3>1
    <3>3. pos + 2 \in 2 .. Len(log) /\ (pos + 2) - 1 = pos + 1 /\ log[pos + 2] \in Records
      BY <1>2, <2>2, <3>2
    <3>4. History!Follows(log[(pos + 2) - 1], log[pos + 2])
      BY <3>3 DEF Faithful, Story, Lawful
    <3> QED BY <2>2, <3>3, <3>4, Successor
  <2>7. at' = "Running" /\ stop' = "Finished"
    BY <2>3, <2>5, <2>6 DEF Stands
  <2> QED BY <1>1, <2>7, FaithfulStays DEF Live, Divergent
<1> QED BY <1>3, <1>4 DEF Return, EndOfHistory, TerminalTypes

\* The terminal record in hand goes on with the story.
LEMMA EndContinues ==
  ASSUME IInv, Faithful, at = "Ending"
  PROVE  /\ accepted[Len(accepted)] \in Records
         /\ Continues(log, run, accepted[Len(accepted)])
<1>1. /\ log # <<>> /\ accepted # <<>> /\ accepted \in Seq(Records)
      /\ History!Follows(log[Len(log)], accepted[Len(accepted)])
  BY Going DEF IInv, Memory, Placed, AtEnd
<1>2. source # "Scanning" /\ Grounds(Wish, accepted[Len(accepted)])
  BY DEF Faithful, Abreast
<1>3. Live /\ Reached = Len(log)
  BY <1>2 DEF Live, Reached
<1>4. Wish = NextWish(log, run)
  BY <1>3, WishIsNext
<1> QED BY <1>1, <1>2, <1>4 DEF Continues

\* The run is over, and its end on media.
LEMMA EndFaithful ==
  ASSUME IInv, Faithful, End
  PROVE  Faithful'
<1> DEFINE rec == accepted[Len(accepted)]
<1>1. /\ at = "Ending" /\ log' = Append(log, rec) /\ run' = run
      /\ at' = "Running" /\ stop' = "Finished" /\ UNCHANGED <<obs, told>>
  BY DEF End, Written, Stands, Untold, ghosts
<1>2. rec \in Records /\ Continues(log, run, rec)
  BY <1>1, EndContinues
<1> HIDE DEF rec
<1>3. /\ Story(log', run') /\ log' \in Seq(Records) /\ Rising(log')
      /\ \A n \in Nat : HasTale(log, n) => HasTale(log', n) /\ Tale(log', n) = Tale(log, n)
  BY <1>1, <1>2, Onward
<1>4. Kept'
  BY <1>1, <1>3, KeptStays DEF Faithful
<1>5. Abreast' /\ NeverDiverges'
  BY <1>1 DEF Abreast, Live, NeverDiverges
<1> QED BY <1>3, <1>4, <1>5 DEF Faithful

\* A bank with nothing in it tells nothing.
LEMMA EmptyStory ==
  ASSUME NEW r
  PROVE  Story(<<>>, r) /\ HasTale(<<>>, 0) /\ Tale(<<>>, 0) = <<>>
<1>1. Len(<<>>) = 0
  OBVIOUS
<1>2. Lawful(<<>>) /\ Rising(<<>>) /\ Filled(<<>>) /\ Wished(<<>>, r) /\ HasTale(<<>>, 0)
  BY <1>1 DEF Lawful, Rising, Filled, Wished, HasTale
<1>3. Tale(<<>>, 0) = <<>>
  BY DEF Tale
<1> QED BY <1>2, <1>3 DEF Story

\* The next run starts with one, and has been told nothing.
LEMMA SwappedFaithful ==
  ASSUME Swapped, obs' = <<>>
  PROVE  Story(log', run') /\ Kept'
<1>1. log' = <<>> /\ told' = <<>>
  BY DEF Swapped
<1>2. Story(log', run') /\ HasTale(log', 0) /\ told' = Tale(log', 0)
  BY <1>1, EmptyStory
<1>3. Len(obs') = 0 /\ Len(told') = 0
  BY <1>1
<1>4. ReplayIsStable'
  BY <1>3 DEF ReplayIsStable
<1> QED BY <1>2, <1>4 DEF Kept

\* A run that asks for the next one has seen all of its own.
LEMMA ContinueAsNewFaithful ==
  ASSUME IInv, Faithful, ContinueAsNew
  PROVE  Faithful'
<1>1. MayContinue
  BY DEF ContinueAsNew
<1>2. NothingFollows
  <2>1. SUFFICES ASSUME source = "Scanning", pos # Len(log)
                 PROVE  FALSE
    BY DEF NothingFollows
  <2>2. at = "Running" /\ stop = "None" /\ Wish.op = "continue"
    BY <1>1, <2>1 DEF MayContinue, Faithful, Abreast
  <2>3. Offered # EndOfHistory
    <3>1. pos < Len(log) /\ log[pos + 1] \in Records
      BY <2>1, Going
    <3> QED BY <2>1, <3>1 DEF Offered, Records, EndOfHistory, OutcomeTypes, TerminalTypes
  <2>4. Grounds(Wish, Offered)
    BY <2>2, <2>3, OfferedIsWished DEF Running
  <2> QED BY <2>2, <2>4 DEF Grounds
<1>3. CASE Stands("Running", "RunIdExhausted") /\ UNCHANGED <<bank, scan>> /\ Untold
  <2>1. /\ UNCHANGED <<log, run, obs, told>> /\ at' = "Running" /\ stop' = "RunIdExhausted"
    BY <1>3 DEF Stands, Untold, ghosts, bank
  <2> QED BY <2>1, FaithfulStays DEF Live, Divergent
<1>4. CASE Stands("Running", "Migrated") /\ Swapped /\ obs' = <<>>
  <2>1. Abreast' /\ NeverDiverges'
    BY <1>4 DEF Stands, Abreast, Live, NeverDiverges
  <2> QED BY <1>4, <2>1, SwappedFaithful DEF Faithful
<1> QED BY <1>2, <1>3, <1>4 DEF ContinueAsNew

\* Nor does a swap that fails betray either run.
LEMMA SwapFailsFaithful ==
  ASSUME IInv, Faithful, SwapFails
  PROVE  Faithful'
<1>1. at' = "Running" /\ stop' = "Failed" /\ obs' = <<>>
  BY DEF SwapFails, Stands
<1>2. Abreast' /\ NeverDiverges'
  BY <1>1 DEF Abreast, Live, NeverDiverges
<1>3. CASE Swapped
  BY <1>1, <1>2, <1>3, SwappedFaithful DEF Faithful
<1>4. CASE UNCHANGED <<bank, ghosts>>
  <2>1. UNCHANGED <<log, run, told>>
    BY <1>4 DEF bank, ghosts
  <2>2. Story(log', run') /\ log \in Seq(Records) /\ Rising(log)
    BY <2>1, Going DEF Faithful, Story
  <2>3. Kept'
    BY <1>1, <2>1, <2>2, KeptStays DEF Faithful
  <2> QED BY <1>2, <2>2, <2>3 DEF Faithful
<1> QED BY <1>3, <1>4 DEF SwapFails

\* A record that is half written goes on with the story or is not there.
LEMMA UnwrittenFaithful ==
  ASSUME IInv, Faithful, NEW rec, rec \in Records, Continues(log, run, rec), Unwritten(rec),
         at' = "Down", Blank, told' = told
  PROVE  Faithful'
<1>1. log' \in {log, Append(log, rec)} /\ run' = run /\ obs' = <<>>
  BY DEF Unwritten, Blank
<1>2. /\ Story(log', run') /\ log' \in Seq(Records) /\ Rising(log')
      /\ \A n \in Nat : HasTale(log, n) => HasTale(log', n) /\ Tale(log', n) = Tale(log, n)
  BY <1>1, Onward
<1>3. Kept'
  BY <1>1, <1>2, KeptStays DEF Faithful
<1> QED BY <1>2, <1>3, FaithfulDown

\* Wherever that is, history goes on with it, and the workflow asked for it.
LEMMA DueContinues ==
  ASSUME IInv, ProgramIsTyped, Faithful, NEW rec, Due(rec)
  PROVE  rec \in Records /\ Continues(log, run, rec)
<1>1. CASE at = "Opening" /\ log = <<>> /\ rec = Started
  <2>1. ~Begins(Started)
    BY DEF Begins, Started, BoundaryTypes, TerminalTypes
  <2> QED BY <1>1, <2>1, StartReady, ReadyContinues
<1>2. CASE at = "Scheduling" /\ rec = EffectScheduled
  <2>1. Grounds(Wish, EffectScheduled) /\ Live
    BY <1>2 DEF IInv, Memory, Placed, AtGrant, Grounds, EffectScheduled, Boundary, Live
  <2> QED BY <1>2, <2>1, EffectReady, ReadyContinues
<1>3. ASSUME at = "Performing", NEW type \in OutcomeTypes, NEW val \in Payloads,
             rec = Outcome(type, val)
      PROVE  rec \in Records /\ Continues(log, run, rec)
  <2>1. ~Begins(Outcome(type, val)) /\ Live
    BY <1>3 DEF Outcome, Begins, BoundaryTypes, TerminalTypes, OutcomeTypes, Live
  <2> QED BY <1>3, <2>1, OutcomeReady, ReadyContinues
<1>4. CASE at = "Arming" /\ rec = TimerScheduled
  <2>1. Grounds(Wish, TimerScheduled) /\ Live
    BY <1>4 DEF IInv, Memory, Placed, AtGrant, Grounds, TimerScheduled, Boundary, Live
  <2> QED BY <1>4, <2>1, TimerReady, ReadyContinues
<1>5. CASE Passes /\ rec = TimerFired
  <2>1. ~Begins(TimerFired) /\ Live
    BY <1>5 DEF TimerFired, Outcome, Begins, BoundaryTypes, TerminalTypes, Passes, Live
  <2> QED BY <1>5, <2>1, FiringReady, ReadyContinues
<1>6. CASE at = "Marking" /\ rec = VersionMarker
  <2>1. Grounds(Wish, VersionMarker) /\ Live
    BY <1>6 DEF IInv, Memory, Placed, AtGrant, Grounds, VersionMarker, Boundary, Live
  <2> QED BY <1>6, <2>1, MarkerReady, ReadyContinues
<1>7. CASE at = "Ending" /\ rec = accepted[Len(accepted)]
  BY <1>7, EndContinues
<1> QED BY <1>1, <1>2, <1>3, <1>4, <1>5, <1>6, <1>7 DEF Due

\* A write that fails, whichever it is.
LEMMA WriteFailsFaithful ==
  ASSUME IInv, ProgramIsTyped, Faithful, WriteFails
  PROVE  Faithful'
<1>1. at' = "Down" /\ Blank /\ told' = told
  BY DEF WriteFails, ghosts
<1>2. PICK rec \in Records : Due(rec) /\ Unwritten(rec)
  BY DEF WriteFails
<1> QED BY <1>1, <1>2, DueContinues, UnwrittenFaithful

\* What a power loss leaves of a story is one; on a write-through device it
\* leaves it all.
LEMMA PowerLossFaithful ==
  ASSUME IInv, Faithful, PowerLoss
  PROVE  Faithful'
<1>1. /\ at' = "Down" /\ Blank /\ UNCHANGED <<run, told>> /\ obs' = <<>>
      /\ log' \in {log, SubSeq(log, 1, firm)}
  BY DEF PowerLoss, Blank, ghosts, Bank!PowerLoss
<1>2. log \in Seq(Records) /\ Len(log) \in Nat /\ firm \in 0 .. Len(log)
  BY Going DEF BankTyped
<1>3. /\ log' \in Seq(Records) /\ Len(log') <= Len(log)
      /\ \A k \in 1 .. Len(log') : log'[k] = log[k]
  BY <1>1, <1>2
<1>4. Story(log', run')
  BY <1>1, <1>2, <1>3, StoryCut DEF Faithful
<1>5. WriteThrough => log' = log
  <2>1. WriteThrough => firm = Len(log)
    BY DEF IInv, BankInv, Durable
  <2>2. SubSeq(log, 1, Len(log)) = log
    BY <1>2
  <2> QED BY <1>1, <2>1, <2>2
<1>6. Kept'
  BY <1>1, <1>3, <1>4, <1>5, KeptStays DEF Faithful, Story
<1> QED BY <1>1, <1>4, <1>6, FaithfulDown

\* Whatever the step.
LEMMA StepFaithful ==
  ASSUME IInv, ProgramIsTyped, Faithful, Next
  PROVE  Faithful'
<1>1. CASE Boot \/ BeginRecorded \/ BeginFresh
  BY <1>1, BootFaithful, BeginRecordedFaithful, BeginFreshFaithful
<1>2. CASE Conclude \/ ReadFails \/ Reset
  BY <1>2, FaithfulGoesDown DEF Conclude, ReadFails, Reset
<1>3. CASE AskEffect \/ Schedule \/ Replay \/ Redeliver
  BY <1>3, AskEffectFaithful, ScheduleFaithful, ReplayFaithful, RedeliverFaithful
<1>4. CASE AskTimer \/ Arm \/ Fired \/ Rearm \/ Fire
  BY <1>4, AskTimerFaithful, ArmFaithful, FiredFaithful, RearmFaithful, FireFaithful
<1>5. CASE AskGate \/ Mark \/ Refused
  BY <1>5, AskGateFaithful, MarkFaithful, RefusedFaithful
<1>6. CASE Perform \/ Pending \/ PollAgain \/ Read \/ NotYet \/ Misused
  BY <1>6, WaitFaithful
<1>7. CASE Return \/ End \/ ContinueAsNew
  BY <1>7, ReturnFaithful, EndFaithful, ContinueAsNewFaithful
<1>8. CASE Resolves
  BY <1>8, ResolveFaithful DEF Resolves
<1>9. CASE WriteFails \/ SwapFails \/ PowerLoss
  BY <1>9, WriteFailsFaithful, SwapFailsFaithful, PowerLossFaithful
<1>10. CASE ClockBack \/ Update \/ Tick
  BY <1>10, TurnFaithful
<1> QED
  BY <1>1, <1>2, <1>3, <1>4, <1>5, <1>6, <1>7, <1>8, <1>9, <1>10 DEF Next, Drive, Fault

\* Or none.
LEMMA StutterFaithful ==
  ASSUME Faithful, UNCHANGED vars
  PROVE  Faithful'
<1>1. /\ UNCHANGED <<log, run, at, version, stop, obs, told, source, pos, cursor, accepted>>
  BY DEF vars, bank, ghosts, scan, kernel
<1>2. Reached' = Reached /\ Wish' = Wish /\ (Live' <=> Live)
  BY <1>1 DEF Reached, Wish, Live
<1>3. /\ stop' \notin Divergent
      /\ at' \in {"Down", "Opening"} => obs' = <<>>
      /\ at' = "Running" /\ stop' = "NearCapacity" =>
           source' # "Scanning" /\ (cursor'.state = "Replaying" => Wish'.op # "return")
  BY <1>1, <1>2 DEF Faithful, NeverDiverges, Divergent, Abreast
<1>4. at' = "Ending" => source' # "Scanning" /\ Grounds(Wish', accepted'[Len(accepted')])
  BY <1>1, <1>2 DEF Faithful, Abreast
<1> QED BY <1>1, <1>2, <1>3, <1>4, FaithfulStays

\* A device as it leaves the factory has told nothing.
LEMMA InitFaithful == Init => Faithful
<1> SUFFICES ASSUME Init
             PROVE  Faithful
  OBVIOUS
<1>1. log = <<>> /\ at = "Down" /\ stop = "None" /\ obs = <<>> /\ told = <<>>
  BY DEF Init
<1>2. Story(log, run) /\ HasTale(log, 0) /\ told = Tale(log, 0)
  BY <1>1, EmptyStory
<1>3. Len(obs) = 0 /\ Len(told) = 0
  BY <1>1
<1>4. Kept
  BY <1>2, <1>3 DEF Kept, ReplayIsStable
<1>5. Abreast /\ NeverDiverges
  BY <1>1 DEF Abreast, Live, NeverDiverges
<1> QED BY <1>2, <1>4, <1>5 DEF Faithful

\* On either kind of device, through every failed write, crash and power loss
\* and under whatever firmware: each boundary and each end in the bank is what
\* the workflow asks for when it has been told what the records before it tell,
\* and a boot has told it exactly what the records behind its scan tell.
THEOREM Faithfulness ==
  ASSUME ProgramIsTyped
  PROVE  Spec => []Faithful
<1>1. IInv /\ Faithful /\ [Next]_vars => Faithful'
  BY StepFaithful, StutterFaithful
<1> QED BY <1>1, InitFaithful, Invariant, PTL DEF Spec

\* A workflow that is a function of what it was told is never accused of being
\* another one, its history never of being malformed, and nothing is ever found
\* behind the place where it ends or continues.
THEOREM NeverDivergent ==
  ASSUME ProgramIsTyped
  PROVE  Spec => []NeverDiverges
<1>1. Faithful => NeverDiverges
  BY DEF Faithful
<1> QED BY <1>1, Faithfulness, PTL

\* On a write-through device a workflow is told, in every boot of a run, a
\* beginning of the most it was ever told in it.
THEOREM StableReplay ==
  ASSUME ProgramIsTyped, WriteThrough
  PROVE  Spec => []ReplayIsStable
<1>1. Faithful => ReplayIsStable
  BY DEF Faithful, Kept
<1> QED BY <1>1, Faithfulness, PTL

-----------------------------------------------------------------------------
(* What the reserve sets aside for the boundary that is open               *)

LastOpens == log # <<>> /\ OpensBoundary(log[Len(log)])

\* The bytes left and those spent on torn answers come to what was set aside
\* when the boundary was opened: two of its answers, and the end of the run.
Reserved == LastOpens => room + torn >= 2 * OutcomeBytes + TerminalBytes

\* A boot that was refused room with a boundary open was refused it for an
\* answer, and only for the bytes that torn answers took.
Stranded ==
  at = "Running" /\ stop = "NearCapacity" /\ LastOpens => torn > OutcomeBytes

\* No step of the bank spends what was set aside on anything but answers.
LEMMA ReservedStays ==
  ASSUME WriteThrough, BankInv, Reserved, BankStep
  PROVE  Reserved'
<1>1. /\ log \in Seq(Records) /\ firm = Len(log) /\ room \in Nat /\ torn \in Nat
      /\ OutcomeBytes \in Nat /\ TerminalBytes \in Nat
  BY ReserveAssumption DEF BankInv, BankTyped, Durable
<1>2. CASE UNCHANGED <<log, room, torn>>
  BY <1>2 DEF Reserved, LastOpens
<1>3. CASE Writes
  <2>1. PICK rec \in Records : Admits(rec) /\ (Written(rec) \/ Unwritten(rec))
    BY <1>3 DEF Writes
  <2>2. Width(rec) \in Nat /\ Width(rec) <= room
    BY <1>1, <2>1, Admitted
  <2>3. CASE log' = Append(log, rec) /\ Fills(rec)
    <3>1. log' # <<>> /\ log'[Len(log')] = rec
      BY <1>1, <2>3, Appended
    <3>2. SUFFICES ASSUME OpensBoundary(rec)
                   PROVE  room' + torn' >= 2 * OutcomeBytes + TerminalBytes
      BY <3>1 DEF Reserved, LastOpens
    <3>3. room' = room - Width(rec) /\ torn' = 0
      BY <2>3, <3>2 DEF Fills
    <3>4. ExitBytesAfter(rec) = 2 * OutcomeBytes + TerminalBytes
      BY <3>2 DEF ExitBytesAfter, OpensBoundary, TerminalTypes
    <3>5. Width(rec) + (2 * OutcomeBytes + TerminalBytes) <= room
      BY <2>1, <3>4 DEF Admits
    <3> QED BY <1>1, <2>2, <3>3, <3>5
  <2>4. CASE log' = log /\ room' = room - Width(rec) /\ torn' = torn + Width(rec)
    <3>1. room' + torn' = room + torn
      BY <1>1, <2>2, <2>4
    <3> QED BY <2>4, <3>1 DEF Reserved, LastOpens
  <2> QED BY <1>2, <2>1, <2>3, <2>4 DEF Written, Unwritten
<1>4. CASE Keeps \/ Turns
  BY <1>2, <1>4 DEF Keeps, Turns, Reset, ClockBack, Update, Tick, GoesDown, bank
<1>5. CASE Swaps
  BY <1>5 DEF Swaps, Swapped, Reserved, LastOpens
<1>6. CASE Cuts
  <2>1. SubSeq(log, 1, Len(log)) = log
    BY <1>1
  <2>2. log' = log
    BY <1>1, <1>6, <2>1 DEF Cuts, Bank!PowerLoss
  <2> QED BY <1>2, <1>6, <2>2 DEF Cuts
<1> QED BY <1>3, <1>4, <1>5, <1>6 DEF BankStep

\* The machine has no such answer: a boot is refused room by the reserve alone,
\* and stays refused while the board goes on around it.
LEMMA RefusedByReserve ==
  ASSUME IInv', Next, at' = "Running", stop' = "NearCapacity"
  PROVE  Refused \/ UNCHANGED <<log, torn, at, stop>>
<1>1. answer'.kind # "NearCapacity"
  <2>1. answer'.kind \in Kernel!Grants \cup Kernel!KernelErrors
    BY DEF IInv, Memory, Kernel!IInv, Kernel!TypeOK
  <2> QED BY <2>1 DEF Kernel!Grants, Kernel!KernelErrors
<1>2. \A grant, where : ~Follow(grant, where) /\ ~Claimed(grant, where)
  BY <1>1 DEF Follow, Claimed, Stands
<1>3. ~(Boot \/ BeginRecorded \/ BeginFresh \/ Conclude)
  BY <1>2 DEF Boot, BeginRecorded, BeginFresh, Conclude, GoesDown
<1>4. ~(AskEffect \/ Schedule \/ Replay \/ Redeliver \/ Perform)
  BY <1>2 DEF AskEffect, Schedule, Replay, Redeliver, Perform
<1>5. ~(AskTimer \/ Arm \/ Fired \/ Rearm)
  BY <1>2 DEF AskTimer, Arm, Fired, Rearm
<1>6. ~(PollAgain \/ Read \/ NotYet \/ Fire \/ AskGate \/ Mark)
  BY <1>2 DEF PollAgain, Read, NotYet, Fire, AskGate, Mark, Stands
<1>7. ~Return
  BY <1>1, <1>2 DEF Return, Stands
<1>8. ~(End \/ ContinueAsNew \/ Resolves \/ Pending)
  BY <1>2 DEF End, ContinueAsNew, Resolves, Resolve, Pending, Stands
<1>9. ~(WriteFails \/ ReadFails \/ SwapFails \/ Misused \/ Reset \/ PowerLoss)
  BY DEF WriteFails, ReadFails, SwapFails, Misused, Reset, PowerLoss, GoesDown, Stands
<1>10. CASE ClockBack \/ Update \/ Tick
  BY <1>10 DEF ClockBack, Update, Tick, bank
<1> QED
  BY <1>3, <1>4, <1>5, <1>6, <1>7, <1>8, <1>9, <1>10 DEF Next, Drive, Fault

\* An answer is refused only when too much of what was set aside was torn.
LEMMA AnswerRefused ==
  ASSUME Reserved, LastOpens, room \in Nat, torn \in Nat,
         NEW rec \in Records, Answers(rec), ~Admits(rec)
  PROVE  torn > OutcomeBytes
<1>1. /\ OutcomeBytes \in Nat /\ TerminalBytes \in Nat
      /\ Width(rec) \in Nat /\ Width(rec) <= OutcomeBytes
  BY ReserveAssumption
<1>2. ExitBytesAfter(rec) = TerminalBytes
  BY DEF ExitBytesAfter, Answers, OutcomeTypes, TerminalTypes, OpensBoundary
<1>3. ~(Width(rec) + TerminalBytes <= room)
  BY <1>2 DEF Admits
<1>4. room + torn >= 2 * OutcomeBytes + TerminalBytes
  BY DEF Reserved
<1> QED BY <1>1, <1>3, <1>4

\* A boot that is refused room behind an open boundary has lost that much.
LEMMA RefusedIsStranded ==
  ASSUME IInv, Reserved, Refused
  PROVE  Stranded'
<1>1. SUFFICES ASSUME at' = "Running", LastOpens'
               PROVE  torn' > OutcomeBytes
  BY DEF Stranded
<1>2. at \notin {"Opening", "Ending"} /\ UNCHANGED <<log, torn>>
  BY <1>1 DEF Refused, GoesDown, bank
<1>3. PICK rec \in Records : ~Admits(rec) /\ Due(rec)
  BY DEF Refused
<1>4. LastOpens /\ room \in Nat /\ torn \in Nat
  BY <1>1, <1>2, Going DEF LastOpens, BankTyped
<1>5. CASE at \in {"Scheduling", "Arming", "Marking"}
  <2>1. Agrees /\ cursor.state = "Replaying" /\ source = "Writing"
    BY <1>5, Going DEF IInv, Memory, Placed, AtGrant
  <2>2. ~OpensBoundary(log[Len(log)])
    BY <2>1, LastSeen DEF Reached
  <2> QED BY <1>4, <2>2 DEF LastOpens
<1>6. CASE at \notin {"Scheduling", "Arming", "Marking"}
  <2>1. Answers(rec)
    BY <1>2, <1>3, <1>6 DEF Due, Outcome, TimerFired, Answers
  <2> QED BY <1>2, <1>3, <1>4, <2>1, AnswerRefused
<1> QED BY <1>5, <1>6

\* So on a write-through device both hold in every state.
LEMMA StepSpared ==
  ASSUME WriteThrough, ProgramIsTyped, IInv, IInv', Reserved, Stranded, [Next]_vars
  PROVE  Reserved' /\ Stranded'
<1>1. CASE Next
  <2>1. Reserved'
    BY <1>1, StepsTaken, ReservedStays DEF IInv
  <2>2. Stranded'
    <3>1. SUFFICES ASSUME at' = "Running", stop' = "NearCapacity"
                   PROVE  Stranded'
      BY DEF Stranded
    <3>2. CASE Refused
      BY <3>2, RefusedIsStranded
    <3>3. CASE UNCHANGED <<log, torn, at, stop>>
      BY <3>3 DEF Stranded, LastOpens
    <3> QED BY <1>1, <3>1, <3>2, <3>3, RefusedByReserve
  <2> QED BY <2>1, <2>2
<1>2. CASE UNCHANGED vars
  BY <1>2 DEF vars, bank, Reserved, Stranded, LastOpens
<1> QED BY <1>1, <1>2

\* On a write-through device, for every workflow, every width of record and
\* every reserve built as the code builds it: while a boundary is open, what it
\* was opened with is there or was spent on its torn answers; and no boot is
\* refused room for an answer before more than one answer's width was torn.
THEOREM ReserveHolds ==
  ASSUME ProgramIsTyped, WriteThrough
  PROVE  Spec => [](Reserved /\ Stranded)
<1>1. Init => Reserved /\ Stranded
  BY DEF Init, Reserved, Stranded, LastOpens
<1>2. IInv /\ IInv' /\ Reserved /\ Stranded /\ [Next]_vars => Reserved' /\ Stranded'
  BY StepSpared
<1> QED BY <1>1, <1>2, Invariant, PTL DEF Spec

\* What a step does to the run and its history: it writes what is due, or
\* fails to; leaves the run for the next; loses power; or leaves them alone.
LEMMA Moves ==
  ASSUME Next
  PROVE  \/ \E rec : Due(rec) /\ (Written(rec) \/ Unwritten(rec))
         \/ MayContinue /\ NothingFollows /\ run < LastRun /\ Swapped
         \/ PowerLoss
         \/ UNCHANGED <<log, run, torn>>
<1>1. CASE BeginFresh \/ Schedule \/ Arm \/ Fire \/ Mark \/ End
  BY <1>1 DEF BeginFresh, Schedule, Arm, Fire, Mark, End, Due, GoesDown, bank
<1>2. CASE Resolves
  <2>1. PICK type \in OutcomeTypes, val \in Payloads : Resolve(type, val)
    BY <1>2 DEF Resolves
  <2> QED BY <2>1 DEF Resolve, Due
<1>3. CASE WriteFails
  BY <1>3 DEF WriteFails
<1>4. CASE ContinueAsNew \/ SwapFails
  BY <1>4 DEF ContinueAsNew, SwapFails, bank
<1>5. CASE Boot \/ BeginRecorded \/ Conclude \/ ReadFails \/ Reset
  BY <1>5 DEF Boot, BeginRecorded, Conclude, ReadFails, Reset, GoesDown, bank
<1>6. CASE AskEffect \/ Replay \/ Redeliver \/ Perform \/ Pending
  BY <1>6 DEF AskEffect, Replay, Answering, Redeliver, Perform, Pending, bank
<1>7. CASE AskTimer \/ Fired \/ Rearm \/ PollAgain \/ Read \/ NotYet
  BY <1>7 DEF AskTimer, Fired, Rearm, PollAgain, Read, NotYet, bank
<1>8. CASE AskGate \/ Refused \/ Return \/ Misused
  BY <1>8 DEF AskGate, Refused, GoesDown, Return, Misused, bank
<1>9. CASE ClockBack \/ Update \/ Tick
  BY <1>9 DEF ClockBack, Update, Tick, bank
<1> QED
  BY <1>1, <1>2, <1>3, <1>4, <1>5, <1>6, <1>7, <1>8, <1>9 DEF Next, Drive, Fault

\* A run is left with a boundary open only once the reserve's slack is torn.
LEMMA LeftSpared ==
  ASSUME IInv, Stranded, MayContinue, NothingFollows
  PROVE  log = <<>> \/ ~OpensBoundary(log[Len(log)]) \/ torn > OutcomeBytes
<1>1. CASE stop = "None"
  BY <1>1, NothingOpen
<1>2. CASE stop = "NearCapacity"
  BY <1>2 DEF MayContinue, Stranded, LastOpens
<1> QED BY <1>1, <1>2 DEF MayContinue

\* One torn answer never costs a run its boundary, across every crash, power
\* loss, redelivery and boot in between.
THEOREM Spared ==
  ASSUME ProgramIsTyped, WriteThrough
  PROVE  Spec => OneTornAnswerIsSpared
<1> DEFINE Sparing == run' # run => \/ log = <<>> \/ ~OpensBoundary(log[Len(log)])
                                    \/ torn > OutcomeBytes
<1>1. IInv /\ Stranded /\ [Next]_vars => [Sparing]_run
  <2>1. ASSUME IInv, Stranded, Next, run' # run
        PROVE  Sparing
    <3>1. MayContinue /\ NothingFollows
      BY <2>1, Moves DEF Unwritten, Written, PowerLoss
    <3> QED BY <2>1, <3>1, LeftSpared
  <2> QED BY <2>1 DEF vars, bank
<1> QED BY <1>1, Invariant, ReserveHolds, PTL DEF Spec, OneTornAnswerIsSpared

-----------------------------------------------------------------------------
(* The driver's runs, without its boots, are an uninterrupted execution    *)

\* Which speaks of histories in the same words.
LEMMA SameTales ==
  /\ Unbroken!Records = Records /\ Unbroken!TerminalTypes = TerminalTypes
  /\ \A r : Unbroken!OpensBoundary(r) <=> OpensBoundary(r)
  /\ \A r : Unbroken!Begins(r) <=> Begins(r)
  /\ \A w, r : Unbroken!Grounds(w, r) <=> Grounds(w, r)
  /\ \A r : Unbroken!History!Legal(r) <=> History!Legal(r)
  /\ Unbroken!Wish = NextWish(log, run)
<1>1. /\ Unbroken!OutcomeTypes = OutcomeTypes /\ Unbroken!TerminalTypes = TerminalTypes
      /\ Unbroken!BoundaryTypes = BoundaryTypes /\ Unbroken!Seqs = Seqs
      /\ Unbroken!Asks = Asks /\ Unbroken!Specs = Specs
  BY DEF Unbroken!OutcomeTypes, OutcomeTypes, Unbroken!TerminalTypes, TerminalTypes,
         Unbroken!BoundaryTypes, BoundaryTypes, Unbroken!Seqs, Seqs, Unbroken!Asks, Asks,
         Unbroken!Specs, Specs, Unbroken!ClockKinds, ClockKinds
<1>2. Unbroken!Records = Records
  BY <1>1 DEF Unbroken!Records, Records
<1>3. \A r : /\ Unbroken!OpensBoundary(r) <=> OpensBoundary(r)
             /\ Unbroken!Begins(r) <=> Begins(r)
  BY <1>1 DEF Unbroken!OpensBoundary, OpensBoundary, Unbroken!Begins, Begins
<1>4. \A w, r : Unbroken!Grounds(w, r) <=> Grounds(w, r)
  BY <1>1 DEF Unbroken!Grounds, Grounds
<1>5. \A r : Unbroken!History!Legal(r) <=> History!Legal(r)
  BY DEF Unbroken!History!Legal, History!Legal, Unbroken!History!Follows, History!Follows,
         Unbroken!History!Opens, History!Opens,
         Unbroken!History!BoundaryTypes, History!BoundaryTypes,
         Unbroken!History!OutcomeTypes, History!OutcomeTypes,
         Unbroken!History!TerminalTypes, History!TerminalTypes
<1>6. \A h, n : Unbroken!Tale(h, n) = Tale(h, n)
  BY DEF Unbroken!Tale, Tale, Unbroken!Telling, Telling, Unbroken!Teller, Teller,
         Unbroken!Tells, Tells, Unbroken!OutcomeTypes, OutcomeTypes
<1>7. \A r : Unbroken!Tidings(r) = Tidings(r)
  BY <1>1, <1>3 DEF Unbroken!Tidings, Tidings, Unbroken!Tells, Tells
<1>8. Unbroken!Wish = NextWish(log, run)
  BY <1>6, <1>7 DEF Unbroken!Wish, NextWish, Unbroken!Last
<1> QED BY <1>1, <1>2, <1>3, <1>4, <1>5, <1>8

\* A record that is due is one the uninterrupted run would add.
LEMMA DueIsRecorded ==
  ASSUME IInv, ProgramIsTyped, Faithful, NEW rec, Due(rec), log' = Append(log, rec), run' = run,
         torn' = IF OpensBoundary(rec) THEN 0 ELSE torn
  PROVE  Unbroken!Next
<1>1. rec \in Records /\ Continues(log, run, rec)
  BY DueContinues
<1>2. History!Legal(rec) /\ (Begins(rec) => Grounds(NextWish(log, run), rec))
  BY <1>1 DEF Continues, History!Legal, Begins, BoundaryTypes, TerminalTypes
<1>3. Unbroken!Record(rec)
  BY <1>2, SameTales DEF Unbroken!Record
<1> QED BY <1>1, <1>3, SameTales DEF Unbroken!Next

\* An answer that is due answers what is open.
LEMMA AnswerIsDue ==
  ASSUME IInv, ProgramIsTyped, NEW rec, Due(rec), Answers(rec)
  PROVE  LastOpens
<1>1. at \notin {"Opening", "Scheduling", "Arming", "Marking"}
  BY DEF Due, Passes, Answers, Started, EffectScheduled, TimerScheduled, VersionMarker, Boundary,
         OutcomeTypes
<1>2. at # "Ending"
  <2>1. SUFFICES ASSUME at = "Ending"
                 PROVE  FALSE
    OBVIOUS
  <2>2. rec = accepted[Len(accepted)]
    BY <2>1 DEF Due, Passes
  <2>3. rec.type \in TerminalTypes
    BY <2>1, <2>2 DEF IInv, Memory, Placed, AtEnd
  <2> QED BY <2>3 DEF Answers, OutcomeTypes, TerminalTypes
<1>3. CASE at = "Performing"
  BY <1>3, EffectInHand DEF LastOpens, OpensBoundary
<1>4. CASE at = "Measuring"
  BY <1>4, TimerInHand DEF Timing, LastOpens, OpensBoundary
<1> QED BY <1>1, <1>2, <1>3, <1>4 DEF Due, Passes

\* One that is torn is an answer lost.
LEMMA TornIsLost ==
  ASSUME IInv, ProgramIsTyped, NEW rec \in Records, Due(rec), Answers(rec),
         UNCHANGED <<log, run>>, torn' = torn + Width(rec)
  PROVE  Unbroken!Next \/ UNCHANGED <<run, log, torn>>
<1>1. torn \in Nat /\ Width(rec) \in Nat
  BY Going, ReserveAssumption DEF BankTyped
<1>2. Unbroken!IsOpen
  BY AnswerIsDue, SameTales DEF LastOpens, Unbroken!IsOpen, Unbroken!Last
<1>3. torn' = torn \/ (torn' \in Nat /\ torn' > torn)
  BY <1>1
<1> QED BY <1>2, <1>3 DEF Unbroken!Lose, Unbroken!Next

\* A write, whether it fails or not, adds what is due, loses it or does nothing.
LEMMA WritingUnbroken ==
  ASSUME IInv, ProgramIsTyped, Faithful, NEW rec \in Records, Due(rec), Written(rec) \/ Unwritten(rec)
  PROVE  Unbroken!Next \/ UNCHANGED <<run, log, torn>>
<1>1. run' = run
  BY DEF Written, Unwritten
<1>2. CASE log' = Append(log, rec) /\ Fills(rec)
  BY <1>1, <1>2, DueIsRecorded DEF Fills
<1>3. CASE Answers(rec) /\ log' = log /\ torn' = torn + Width(rec)
  BY <1>1, <1>3, TornIsLost
<1>4. CASE UNCHANGED <<log, torn>>
  BY <1>1, <1>4
<1> QED BY <1>2, <1>3, <1>4 DEF Written, Unwritten

\* And a run that is left is one that the uninterrupted execution leaves too:
\* nothing of it is open, and its workflow does not return there; or what is
\* open has lost more answers than it is allowed to.
LEMMA LeavingGoesOn ==
  ASSUME IInv, Faithful, Stranded, MayContinue, NothingFollows, run < LastRun, Swapped
  PROVE  Unbroken!Next
<1>1. /\ Agrees /\ at = "Running" /\ stop \in {"None", "NearCapacity"} /\ Live
      /\ log \in Seq(Records)
      /\ cursor.state \in {"Replaying", "AwaitingOutcome", "AwaitingTimer"}
      /\ stop = "None" => cursor.state = "Replaying"
  BY Going DEF MayContinue, IInv, Memory, Placed, AtRest, Live
<1>2. Reached = Len(log)
  BY DEF NothingFollows, Reached
<1>3. Unbroken!NextRun
  BY DEF Unbroken!NextRun, Swapped
<1>4. log # <<>> /\ log[Len(log)] \in Records
  BY <1>1, <1>2, LastSeen
<1>5. CASE cursor.state = "Replaying"
  <2>1. ~OpensBoundary(log[Len(log)]) /\ log[Len(log)].type \notin TerminalTypes
    BY <1>1, <1>2, <1>5, LastSeen
  <2>2. Wish.op # "return"
    BY <1>1, <1>5 DEF MayContinue, Faithful, Abreast
  <2>3. Wish = NextWish(log, run)
    BY <1>1, <1>2, WishIsNext
  <2>4. Unbroken!GoOn
    BY <1>3, <1>4, <2>1, <2>2, <2>3, SameTales DEF Unbroken!GoOn, Unbroken!Last
  <2> QED BY <2>4 DEF Unbroken!Next
<1>6. CASE cursor.state # "Replaying"
  <2>1. LastOpens
    BY <1>1, <1>2, <1>4, <1>6, LastSeen DEF LastOpens, OpensBoundary
  <2>2. stop = "NearCapacity"
    BY <1>1, <1>6
  <2>3. torn > OutcomeBytes
    BY <1>1, <2>1, <2>2 DEF Stranded
  <2>4. Unbroken!GiveUp
    BY <1>3, <2>1, <2>3, SameTales DEF Unbroken!GiveUp, Unbroken!IsOpen, Unbroken!Last, LastOpens
  <2> QED BY <2>4 DEF Unbroken!Next
<1> QED BY <1>5, <1>6

\* So each step is one of an uninterrupted execution, or none of it.
LEMMA StepUnbroken ==
  ASSUME WriteThrough, IInv, ProgramIsTyped, Faithful, Stranded, Next
  PROVE  Unbroken!Next \/ UNCHANGED <<run, log, torn>>
<1>1. CASE PowerLoss
  <2>1. log \in Seq(Records) /\ firm = Len(log) /\ torn \in Nat
    BY Going DEF IInv, BankInv, Durable, BankTyped
  <2>2. SubSeq(log, 1, Len(log)) = log
    BY <2>1
  <2>3. log' = log /\ run' = run
    BY <1>1, <2>1, <2>2 DEF PowerLoss, Bank!PowerLoss
  <2>4. torn' \in torn .. torn
    BY <1>1, <2>1, <2>3 DEF PowerLoss
  <2> QED BY <2>1, <2>3, <2>4
<1>2. ASSUME NEW rec, Due(rec), Written(rec) \/ Unwritten(rec)
      PROVE  Unbroken!Next \/ UNCHANGED <<run, log, torn>>
  BY <1>2, DueContinues, WritingUnbroken
<1>3. CASE MayContinue /\ NothingFollows /\ run < LastRun /\ Swapped
  BY <1>3, LeavingGoesOn
<1> QED BY <1>1, <1>2, <1>3, Moves

\* On a write-through device what the driver does through every crash, failed
\* write, power loss, redelivery and change of firmware is, in its runs and
\* their histories, what a machine that never fails would do, save that an
\* answer may be lost and asked for again, and that a boundary is given up when
\* more of its answers were lost than one: the promise of durable execution.
THEOREM UnbrokenExecution ==
  ASSUME ProgramIsTyped, WriteThrough
  PROVE  Spec => ImplementsExecution
<1>1. Init => Unbroken!Init
  BY DEF Init, Unbroken!Init
<1>2. IInv /\ Faithful /\ Stranded /\ [Next]_vars => [Unbroken!Next]_<<run, log, torn>>
  <2>1. ASSUME IInv, Faithful, Stranded, Next
        PROVE  Unbroken!Next \/ UNCHANGED <<run, log, torn>>
    BY <2>1, StepUnbroken
  <2> QED BY <2>1 DEF vars, bank
<1> QED
  BY <1>1, <1>2, Invariant, Faithfulness, ReserveHolds, PTL
  DEF Spec, ImplementsExecution, Unbroken!Spec

=============================================================================
