------------------------- MODULE ReplayMachine_proofs -------------------------
(***************************************************************************)
(* Proofs about ReplayMachine, for every number of identities and every    *)
(* set of requests, and for a caller that offers anything in any order.    *)
(*                                                                         *)
(* The argument.  Whatever the call, the machine does one of five things:  *)
(* it refuses and changes nothing, it answers from what it holds, it       *)
(* remembers a divergence, it halts, or it consumes one record the         *)
(* cursor's table accepts.  NextIsASmallStep states that once; every       *)
(* theorem below is then five cases.                                       *)
(***************************************************************************)
EXTENDS ReplayMachine, TLAPS

(* The strengthening the safety theorems need: what the cursor knows       *)
(* determines the last record consumed, and the newest identity consumed   *)
(* is the one just below the allocator's.                                  *)
NewestIdentity ==
  cursor.next > 0 =>
    \E i \in 1 .. Len(accepted) :
      accepted[i].type \in BoundaryTypes /\ accepted[i].seq = cursor.next - 1

\* The allocator stands one behind the boundary the last record belongs to.
NextFollowsLast ==
  /\ cursor.state = "BeforeRun" => cursor.next = 0
  /\ accepted # <<>> /\ ~Halted =>
       /\ LastAccepted.type = "RunStarted" => cursor.next = 0
       /\ LastAccepted.type \notin TerminalTypes \cup {"RunStarted"} =>
            cursor.next = LastAccepted.seq + 1

\* A halted cursor says why.
HaltHasError == Halted => cursor.error \in KernelErrors

IInv ==
  /\ TypeOK /\ CursorTracksHistory /\ PhaseMatchesCursor
  /\ NewestIdentity /\ NextFollowsLast /\ HaltHasError
-----------------------------------------------------------------------------
(* The five things a call can do                                           *)
Refuses ==
  /\ UNCHANGED <<cursor, phase, accepted>>
  /\ answer'.kind \in KernelErrors
  /\ answer' \in [kind : KernelErrors, seq : Seqs, val : {NoArg}]

\* What a record, and an answer, may carry.
Values == Payloads \cup Versions \cup Readings \cup {NoArg}

Answers ==
  /\ UNCHANGED <<cursor, accepted>>
  /\ phase' \in {phase, "Settled"}
  /\ ~Halted /\ ~Diverged
  /\ answer' \in [kind : Grants, seq : Seqs, val : Values]
  /\ answer'.kind \in {"Schedule", "Record"} =>
       cursor.state = "Replaying" /\ answer'.seq = cursor.next
  /\ answer'.kind \in {"Redeliver", "Rearm"} =>
       /\ cursor.state \in {"AwaitingOutcome", "AwaitingTimer"}
       /\ answer'.seq = cursor.open.seq

Diverges ==
  /\ ~Halted /\ ~Diverged
  /\ UNCHANGED <<cursor, accepted>>
  /\ phase' \in Divergences
  /\ answer' \in [kind : KernelErrors, seq : Seqs, val : {NoArg}]

Halts ==
  /\ ~Halted /\ ~Diverged
  /\ \E r \in Records : cursor' = HaltedAt(cursor, r)
  /\ UNCHANGED <<phase, accepted>>
  /\ answer' \in [kind : KernelErrors, seq : Seqs, val : {NoArg}]

Consumes ==
  /\ ~Halted /\ ~Diverged
  /\ \E r \in Records :
       /\ Accepts(cursor, r)
       /\ cursor' = After(cursor, r)
       /\ accepted' = Append(accepted, r)
       /\ answer' = Answer(answer'.kind, r)
       /\ phase' = "AwaitingOutcome" => r.type = "EffectScheduled"
       /\ phase' = "AwaitingFiring" => r.type = "TimerScheduled"
  /\ phase' \in {"Settled", "AwaitingOutcome", "AwaitingFiring"}
  /\ answer'.kind \in Grants \ {"Schedule", "Record", "Redeliver", "Rearm"}

SmallStep == Refuses \/ Answers \/ Diverges \/ Halts \/ Consumes

LEMMA RecordTypes ==
  /\ Records \subseteq Steps
  /\ EndOfHistory \in Steps
  /\ EndOfHistory.type \notin BoundaryTypes \cup TerminalTypes
  /\ \A r \in Steps : r.seq \in Seqs
  /\ \A r \in Records : r # EndOfHistory
  /\ \A r \in Steps : r.val \in Values
  /\ \A r \in Steps : r # EndOfHistory => r \in Records
  /\ \A r \in Steps : r.type \in BoundaryTypes => r \in Records
<1>1. \A r \in Records : r.seq \in Seqs /\ r.val \in Values /\ r.type # "EndOfHistory"
  BY MaxSeqAssumption DEF Records, Seqs, Values, TerminalTypes, OutcomeTypes
<1>2. EndOfHistory.seq \in Seqs /\ EndOfHistory.val \in Values /\ EndOfHistory.type = "EndOfHistory"
  BY MaxSeqAssumption DEF EndOfHistory, Seqs, Values
<1>3. "EndOfHistory" \notin BoundaryTypes \cup TerminalTypes
  BY DEF BoundaryTypes, TerminalTypes
<1> QED BY <1>1, <1>2, <1>3 DEF Steps

\* The shapes of an answer are those cases.
LEMMA RefuseIsSmall ==
  ASSUME NEW error \in KernelErrors, Refuse(error)
  PROVE  Refuses
BY MaxSeqAssumption DEF Refuse, Refuses, Fresh, Seqs

LEMMA DivergeIsSmall ==
  ASSUME NEW d \in Divergences, Diverge(d), ~Halted, ~Diverged
  PROVE  Diverges
BY MaxSeqAssumption DEF Diverge, Diverges, Fresh, Seqs, KernelErrors

LEMMA HaltIsSmall ==
  ASSUME NEW r \in Records, Halt(r), ~Halted, ~Diverged
  PROVE  Halts
BY MaxSeqAssumption DEF Halt, Halts, Fresh, Seqs, KernelErrors, Refusal

LEMMA ConsumeIsSmall ==
  ASSUME NEW r \in Records, ~Halted, ~Diverged,
         NEW grant \in Grants \ {"Schedule", "Record", "Redeliver", "Rearm"},
         NEW to \in {"Settled", "AwaitingOutcome", "AwaitingFiring"},
         Consume(r, grant, to),
         to = "AwaitingOutcome" => r.type = "EffectScheduled",
         to = "AwaitingFiring" => r.type = "TimerScheduled"
  PROVE  Consumes
BY DEF Consume, Consumes, Answer
-----------------------------------------------------------------------------
(* Each operation is one of those cases                                    *)
LEMMA ClaimRefusedIsSmall ==
  ASSUME IInv, ClaimRefused
  PROVE  SmallStep
<1>1. CASE Halted /\ Refuse(cursor.error)
  <2>1. cursor.error \in KernelErrors
    BY <1>1 DEF IInv, HaltHasError, Halted
  <2> QED BY <1>1, <2>1, RefuseIsSmall DEF SmallStep
<1>2. CASE ~Halted /\ Diverged /\ Refuse("NondeterministicWorkflow")
  BY <1>2, RefuseIsSmall DEF SmallStep, KernelErrors
<1>3. CASE ~Halted /\ ~Diverged /\ Diverge("Boundary")
  BY <1>3, DivergeIsSmall DEF SmallStep, Divergences
<1> QED BY <1>1, <1>2, <1>3 DEF ClaimRefused

LEMMA FrontierIsSmall ==
  ASSUME IInv, ClaimHeard, NEW grant \in {"Schedule", "Record"}, Frontier(grant)
  PROVE  SmallStep
<1>1. CASE cursor.next = Exhausted /\ Refuse("IdExhausted")
  BY <1>1, RefuseIsSmall DEF SmallStep, KernelErrors
<1>2. CASE cursor.next # Exhausted
  <2>1. cursor.next \in Seqs
    BY <1>2, MaxSeqAssumption DEF IInv, TypeOK, Exhausted, Seqs
  <2>2. answer' = Fresh(grant, cursor.next) /\ UNCHANGED <<cursor, phase, accepted>>
    BY <1>2 DEF Frontier
  <2>3. answer' \in [kind : Grants, seq : Seqs, val : Values]
    BY <2>1, <2>2 DEF Fresh, Grants, Values
  <2>4. answer'.kind = grant /\ answer'.seq = cursor.next
    BY <2>2 DEF Fresh
  <2>5. ~Halted /\ ~Diverged /\ cursor.state = "Replaying"
    BY DEF ClaimHeard
  <2>6. answer'.kind \notin {"Redeliver", "Rearm"}
    BY <2>4
  <2>7. Answers
    BY <2>2, <2>3, <2>4, <2>5, <2>6 DEF Answers
  <2> QED BY <2>7 DEF SmallStep
<1> QED BY <1>1, <1>2 DEF Frontier

LEMMA ForeignRecordIsSmall ==
  ASSUME IInv, ClaimHeard, NEW r \in Records, NEW own, ForeignRecord(r, own)
  PROVE  SmallStep
<1>0. phase = "Settled" /\ ~Halted /\ ~Diverged
  BY DEF IInv, TypeOK, PhaseMatchesCursor, ClaimHeard, Halted, Diverged, Divergences
<1>1. CASE r.type \in TerminalTypes /\ Consume(r, "Finished", phase)
  BY <1>0, <1>1, ConsumeIsSmall DEF SmallStep, Grants
<1>2. CASE Diverge("BoundaryKind")
  BY <1>0, <1>2, DivergeIsSmall DEF SmallStep, Divergences
<1>3. CASE Halt(r)
  BY <1>0, <1>3, HaltIsSmall DEF SmallStep
<1> QED BY <1>1, <1>2, <1>3 DEF ForeignRecord

LEMMA AdvanceIsSmall ==
  ASSUME IInv, NEW r \in Records, Advance(r)
  PROVE  SmallStep
<1>1. CASE Halted /\ Refuse(cursor.error)
  <2>1. cursor.error \in KernelErrors
    BY <1>1 DEF IInv, HaltHasError, Halted
  <2> QED BY <1>1, <2>1, RefuseIsSmall DEF SmallStep
<1>2. CASE ~Halted /\ phase # "Settled" /\ Refuse("NondeterministicWorkflow")
  BY <1>2, RefuseIsSmall DEF SmallStep, KernelErrors
<1>3. CASE ~Halted /\ phase = "Settled" /\ Consume(r, "Step", "Settled")
  BY <1>3, ConsumeIsSmall DEF SmallStep, Grants, Diverged, Divergences
<1>4. CASE ~Halted /\ phase = "Settled" /\ Halt(r)
  BY <1>4, HaltIsSmall DEF SmallStep, Diverged, Divergences
<1> QED BY <1>1, <1>2, <1>3, <1>4 DEF Advance

LEMMA IntentIsSmall ==
  ASSUME IInv, NEW kind \in Kinds, NEW input \in Inputs, NEW step \in Steps,
         Intent(kind, input, step)
  PROVE  SmallStep
<1>1. CASE ClaimRefused
  BY <1>1, ClaimRefusedIsSmall
<1>2. CASE ClaimHeard /\ step = EndOfHistory /\ Frontier("Schedule")
  BY <1>2, FrontierIsSmall
<1>3. CASE ClaimHeard /\ step.type = "EffectScheduled" /\ RecordedEffect(kind, input, step)
  <2>0. step \in Records /\ ~Halted /\ ~Diverged
    BY <1>3, RecordTypes DEF BoundaryTypes, ClaimHeard
  <2>1. CASE Refuse("IdExhausted")
    BY <2>1, RefuseIsSmall DEF SmallStep, KernelErrors
  <2>2. CASE \E d \in Divergences : Diverge(d)
    BY <2>0, <2>2, DivergeIsSmall DEF SmallStep
  <2>3. CASE Consume(step, "Recorded", "AwaitingOutcome")
    BY <1>3, <2>0, <2>3, ConsumeIsSmall DEF SmallStep, Grants
  <2> QED
    BY <1>3, <2>1, <2>2, <2>3 DEF RecordedEffect, EffectDivergence, Divergences
<1>4. CASE ClaimHeard /\ step # EndOfHistory /\ ForeignRecord(step, "EffectScheduled")
  BY <1>4, RecordTypes, ForeignRecordIsSmall
<1> QED BY <1>1, <1>2, <1>3, <1>4 DEF Intent

\* The last clause of outcome and timer_outcome: the open boundary is asked for again.
LEMMA AgainIsSmall ==
  ASSUME IInv, ~Halted, phase \in {"AwaitingOutcome", "AwaitingFiring"},
         NEW grant \in {"Redeliver", "Rearm"},
         phase' = "Settled",
         answer' \in {Fresh(grant, cursor.open.seq), Answer(grant, cursor.open)},
         UNCHANGED <<cursor, accepted>>
  PROVE  SmallStep
<1>1. cursor.state \in {"AwaitingOutcome", "AwaitingTimer"}
  BY DEF IInv, PhaseMatchesCursor, Halted
<1>2. cursor.open.seq \in Seqs /\ cursor.open.val \in Values
  BY RecordTypes DEF IInv, TypeOK
<1>3. answer' \in [kind : Grants, seq : Seqs, val : Values]
  BY <1>2 DEF Fresh, Answer, Grants, Values
<1>4. answer'.kind = grant /\ answer'.seq = cursor.open.seq
  BY DEF Fresh, Answer
<1>5. ~Diverged
  BY DEF Diverged, Divergences
<1>6. answer'.kind \notin {"Schedule", "Record"}
  BY <1>4
<1>7. Answers
  BY <1>1, <1>3, <1>4, <1>5, <1>6 DEF Answers
<1> QED BY <1>7 DEF SmallStep

LEMMA OutcomeIsSmall ==
  ASSUME IInv, NEW step \in Steps, Outcome(step)
  PROVE  SmallStep
<1>1. CASE Halted /\ Refuse(cursor.error)
  <2>1. cursor.error \in KernelErrors
    BY <1>1 DEF IInv, HaltHasError, Halted
  <2> QED BY <1>1, <2>1, RefuseIsSmall DEF SmallStep
<1>2. CASE ~Halted /\ Refuse("NondeterministicWorkflow")
  BY <1>2, RefuseIsSmall DEF SmallStep, KernelErrors
<1>3. CASE ~Halted /\ phase = "AwaitingOutcome" /\ step = EndOfHistory
  <2>1. SUFFICES ASSUME phase' = "Settled", answer' = Fresh("Redeliver", cursor.open.seq),
                        UNCHANGED <<cursor, accepted>>
                 PROVE  SmallStep
    BY <1>2, <1>3 DEF Outcome
  <2> QED BY <1>3, <2>1, AgainIsSmall
<1>4. CASE ~Halted /\ phase = "AwaitingOutcome" /\ step # EndOfHistory
  <2>0. step \in Records /\ ~Diverged
    BY <1>4, RecordTypes DEF Diverged, Divergences
  <2>1. CASE Consume(step, "Replayed", "Settled")
    BY <1>4, <2>0, <2>1, ConsumeIsSmall DEF SmallStep, Grants
  <2>2. CASE Halt(step)
    BY <1>4, <2>0, <2>2, HaltIsSmall DEF SmallStep
  <2> QED BY <1>4, <2>1, <2>2 DEF Outcome
<1> QED BY <1>1, <1>2, <1>3, <1>4 DEF Outcome

LEMMA TimerIntentIsSmall ==
  ASSUME IInv, NEW spec \in Specs, NEW persistent \in BOOLEAN, NEW step \in Steps,
         TimerIntent(spec, persistent, step)
  PROVE  SmallStep
<1>1. CASE ClaimRefused
  BY <1>1, ClaimRefusedIsSmall
<1>2. CASE Refuse("NoPersistentClock")
  BY <1>2, RefuseIsSmall DEF SmallStep, KernelErrors
<1>3. CASE ClaimHeard /\ Frontier("Schedule")
  BY <1>3, FrontierIsSmall
<1>4. CASE ClaimHeard /\ step.type = "TimerScheduled" /\ RecordedTimer(spec, persistent, step)
  <2>0. step \in Records /\ ~Halted /\ ~Diverged
    BY <1>4, RecordTypes DEF BoundaryTypes, ClaimHeard
  <2>1. CASE \E error \in KernelErrors : Refuse(error)
    BY <2>1, RefuseIsSmall DEF SmallStep
  <2>2. CASE \E d \in Divergences : Diverge(d)
    BY <2>0, <2>2, DivergeIsSmall DEF SmallStep
  <2>3. CASE Consume(step, "Recorded", "AwaitingFiring")
    BY <1>4, <2>0, <2>3, ConsumeIsSmall DEF SmallStep, Grants
  <2> QED
    BY <1>4, <2>1, <2>2, <2>3 DEF RecordedTimer, KernelErrors, Divergences
<1>5. CASE ClaimHeard /\ step # EndOfHistory /\ ForeignRecord(step, "TimerScheduled")
  BY <1>5, RecordTypes, ForeignRecordIsSmall
<1> QED BY <1>1, <1>2, <1>3, <1>4, <1>5 DEF TimerIntent

LEMMA TimerOutcomeIsSmall ==
  ASSUME IInv, NEW step \in Steps, TimerOutcome(step)
  PROVE  SmallStep
<1>1. CASE Halted /\ Refuse(cursor.error)
  <2>1. cursor.error \in KernelErrors
    BY <1>1 DEF IInv, HaltHasError, Halted
  <2> QED BY <1>1, <2>1, RefuseIsSmall DEF SmallStep
<1>2. CASE ~Halted /\ Refuse("NondeterministicWorkflow")
  BY <1>2, RefuseIsSmall DEF SmallStep, KernelErrors
<1>3. CASE ~Halted /\ phase = "AwaitingFiring" /\ step = EndOfHistory
  <2>1. SUFFICES ASSUME phase' = "Settled", answer' = Answer("Rearm", cursor.open),
                        UNCHANGED <<cursor, accepted>>
                 PROVE  SmallStep
    BY <1>2, <1>3 DEF TimerOutcome
  <2> QED BY <1>3, <2>1, AgainIsSmall
<1>4. CASE ~Halted /\ phase = "AwaitingFiring" /\ step # EndOfHistory
  <2>0. step \in Records /\ ~Diverged
    BY <1>4, RecordTypes DEF Diverged, Divergences
  <2>1. CASE Consume(step, "Fired", "Settled")
    BY <1>4, <2>0, <2>1, ConsumeIsSmall DEF SmallStep, Grants
  <2>2. CASE Halt(step)
    BY <1>4, <2>0, <2>2, HaltIsSmall DEF SmallStep
  <2> QED BY <1>4, <2>1, <2>2 DEF TimerOutcome
<1> QED BY <1>1, <1>2, <1>3, <1>4 DEF TimerOutcome

LEMMA VersionIntentIsSmall ==
  ASSUME IInv, NEW gate \in Gates, NEW oldest \in Versions, NEW current \in Versions,
         NEW step \in Steps, VersionIntent(gate, oldest, current, step)
  PROVE  SmallStep
<1>1. CASE ClaimRefused
  BY <1>1, ClaimRefusedIsSmall
<1>2. CASE ClaimHeard /\ step = EndOfHistory /\ Frontier("Record")
  BY <1>2, FrontierIsSmall
<1>3. CASE ClaimHeard /\ step.type = "VersionMarker" /\ RecordedGate(gate, oldest, current, step)
  <2>0. step \in Records /\ ~Halted /\ ~Diverged
    BY <1>3, RecordTypes DEF BoundaryTypes, ClaimHeard
  <2>1. CASE \E error \in KernelErrors : Refuse(error)
    BY <2>1, RefuseIsSmall DEF SmallStep
  <2>2. CASE \E d \in Divergences : Diverge(d)
    BY <2>0, <2>2, DivergeIsSmall DEF SmallStep
  <2>3. CASE Consume(step, "Recorded", phase)
    <3>1. phase = "Settled"
      BY <1>3 DEF ClaimHeard, IInv, TypeOK, PhaseMatchesCursor, Halted, Diverged
    <3> QED BY <2>0, <2>3, <3>1, ConsumeIsSmall DEF SmallStep, Grants
  <2> QED
    BY <1>3, <2>1, <2>2, <2>3 DEF RecordedGate, KernelErrors, Divergences
<1>4. CASE ClaimHeard /\ step # EndOfHistory /\ ForeignRecord(step, "VersionMarker")
  BY <1>4, RecordTypes, ForeignRecordIsSmall
<1> QED BY <1>1, <1>2, <1>3, <1>4 DEF VersionIntent

LEMMA NextIsASmallStep ==
  ASSUME IInv, Next
  PROVE  SmallStep
BY AdvanceIsSmall, IntentIsSmall, OutcomeIsSmall, TimerIntentIsSmall,
   TimerOutcomeIsSmall, VersionIntentIsSmall DEF Next
-----------------------------------------------------------------------------
(* The invariant                                                           *)
LEMMA InitIInv == Init => IInv
<1> SUFFICES ASSUME Init PROVE IInv
  OBVIOUS
<1>1. TypeOK
  BY MaxSeqAssumption, RecordTypes DEF Init, TypeOK, States, Fresh, Grants, Seqs, NoRecord
<1>2. /\ CursorTracksHistory /\ PhaseMatchesCursor
      /\ NewestIdentity /\ NextFollowsLast /\ HaltHasError
  BY DEF Init, CursorTracksHistory, PhaseMatchesCursor, NewestIdentity, NextFollowsLast,
         HaltHasError, Halted
<1> QED BY <1>1, <1>2 DEF IInv

\* What consuming a record makes of the cursor.
LEMMA AfterFields ==
  ASSUME TypeOK, NEW r \in Records, Accepts(cursor, r)
  PROVE  /\ After(cursor, r) \in [state : States, next : 0 .. MaxSeq + 1, open : Steps,
                                  error : KernelErrors \cup {"None"}]
         /\ After(cursor, r).state = StateAfter(r)
         /\ StateAfter(r) \in States \ {"BeforeRun", "Halted"}
         /\ After(cursor, r).next = NextAfter(cursor, r)
         /\ OpensBoundary(r) => After(cursor, r).open = r
         /\ After(cursor, r).next >= cursor.next
<1>1. StateAfter(r) \in States \ {"BeforeRun", "Halted"}
  BY DEF StateAfter, States, TerminalTypes
<1>2. NextAfter(cursor, r) \in 0 .. MaxSeq + 1 /\ NextAfter(cursor, r) >= cursor.next
  <2>1. CASE r.type \in BoundaryTypes
    <3>1. r.seq = cursor.next
      BY <2>1 DEF Accepts, BoundaryTypes, TerminalTypes, OutcomeTypes
    <3>2. r.seq \in 0 .. MaxSeq
      BY RecordTypes DEF Seqs
    <3> QED BY <2>1, <3>1, <3>2, MaxSeqAssumption DEF NextAfter
  <2>2. CASE r.type \notin BoundaryTypes
    BY <2>2, MaxSeqAssumption DEF NextAfter, TypeOK
  <2> QED BY <2>1, <2>2
<1>3. (IF OpensBoundary(r) THEN r ELSE NoRecord) \in Steps
  BY RecordTypes DEF NoRecord
<1> QED BY <1>1, <1>2, <1>3 DEF After, TypeOK

LEMMA ConsumesIInv ==
  ASSUME IInv, Consumes
  PROVE  IInv'
<1>1. PICK r \in Records :
       /\ Accepts(cursor, r)
       /\ cursor' = After(cursor, r)
       /\ accepted' = Append(accepted, r)
       /\ answer' = Answer(answer'.kind, r)
       /\ phase' = "AwaitingOutcome" => r.type = "EffectScheduled"
       /\ phase' = "AwaitingFiring" => r.type = "TimerScheduled"
  BY DEF Consumes
<1>2. TypeOK'
  <2>1. cursor' \in [state : States, next : 0 .. MaxSeq + 1, open : Steps,
                     error : KernelErrors \cup {"None"}]
    BY <1>1, AfterFields DEF IInv
  <2>2. answer' \in [kind : Grants \cup KernelErrors, seq : Seqs,
                     val : Values]
    <3>1. answer'.kind \in Grants
      BY DEF Consumes
    <3>2. r.seq \in Seqs /\ r.val \in Values
      BY RecordTypes
    <3> QED BY <1>1, <3>1, <3>2 DEF Answer
  <2>3. accepted' \in Seq(Records)
    BY <1>1 DEF IInv, TypeOK
  <2>4. phase' \in {"Settled", "AwaitingOutcome", "AwaitingFiring"}
    BY DEF Consumes
  <2> QED BY <2>1, <2>2, <2>3, <2>4 DEF TypeOK, Values
<1>3. /\ accepted \in Seq(Records)
      /\ Len(accepted) \in Nat
      /\ Len(accepted') = Len(accepted) + 1
      /\ accepted'[Len(accepted) + 1] = r
      /\ \A i \in 1 .. Len(accepted) : accepted'[i] = accepted[i]
  BY <1>1 DEF IInv, TypeOK
<1>4. CursorTracksHistory'
  <2>1. /\ cursor'.state \notin {"BeforeRun", "Halted"}
        /\ accepted' # <<>>
        /\ cursor'.state = StateAfter(r)
        /\ LastAccepted' = r
        /\ OpensBoundary(r) => cursor'.open = r
    BY <1>1, <1>3, AfterFields DEF IInv, LastAccepted
  <2>2. ASSUME NEW i \in 1 .. Len(accepted'), accepted'[i].type \in BoundaryTypes
        PROVE  accepted'[i].seq < cursor'.next
    <3>1. CASE i = Len(accepted) + 1
      <4>1. r.seq = cursor.next
        BY <1>1, <1>3, <2>2, <3>1 DEF Accepts, BoundaryTypes, TerminalTypes, OutcomeTypes
      <4>2. cursor'.next = cursor.next + 1
        BY <1>1, <1>3, <2>2, <3>1, AfterFields DEF IInv, NextAfter
      <4> QED BY <1>3, <3>1, <4>1, <4>2 DEF IInv, TypeOK
    <3>2. CASE i # Len(accepted) + 1
      <4>1. i \in 1 .. Len(accepted) /\ accepted'[i] = accepted[i]
        BY <1>3, <3>2
      <4>2. accepted[i].seq < cursor.next
        BY <2>2, <4>1 DEF IInv, CursorTracksHistory
      <4>3. cursor'.next >= cursor.next /\ cursor'.next \in Int /\ cursor.next \in Int
        BY <1>1, <1>2, AfterFields, MaxSeqAssumption DEF IInv, TypeOK
      <4>4. accepted[i].seq \in Int
        BY <1>3, <4>1, RecordTypes, MaxSeqAssumption DEF Seqs
      <4> QED BY <4>1, <4>2, <4>3, <4>4
    <3> QED BY <3>1, <3>2
  <2> QED BY <2>1, <2>2 DEF CursorTracksHistory
<1>5. PhaseMatchesCursor'
  <2>1. phase' = "AwaitingOutcome" => cursor'.state = "AwaitingOutcome"
    BY <1>1, AfterFields DEF IInv, StateAfter, TerminalTypes
  <2>2. phase' = "AwaitingFiring" => cursor'.state = "AwaitingTimer"
    BY <1>1, AfterFields DEF IInv, StateAfter, TerminalTypes
  <2> QED BY <2>1, <2>2 DEF PhaseMatchesCursor
<1>6. NewestIdentity'
  <2>1. CASE r.type \in BoundaryTypes
    <3>1. r.seq = cursor.next
      BY <1>1, <2>1 DEF Accepts, BoundaryTypes, TerminalTypes, OutcomeTypes
    <3>2. cursor'.next = cursor.next + 1
      BY <1>1, <2>1, AfterFields DEF IInv, NextAfter
    <3>3. r.seq = cursor'.next - 1
      BY <3>1, <3>2 DEF IInv, TypeOK
    <3>4. Len(accepted) + 1 \in 1 .. Len(accepted')
      BY <1>3
    <3> QED BY <1>3, <2>1, <3>3, <3>4 DEF NewestIdentity
  <2>2. CASE r.type \notin BoundaryTypes
    <3>1. cursor'.next = cursor.next
      BY <1>1, <2>2, AfterFields DEF IInv, NextAfter
    <3>2. SUFFICES ASSUME cursor'.next > 0
                   PROVE  \E i \in 1 .. Len(accepted') :
                            accepted'[i].type \in BoundaryTypes /\ accepted'[i].seq = cursor'.next - 1
      BY DEF NewestIdentity
    <3>3. PICK i \in 1 .. Len(accepted) :
            accepted[i].type \in BoundaryTypes /\ accepted[i].seq = cursor.next - 1
      BY <3>1, <3>2 DEF IInv, NewestIdentity
    <3>4. i \in 1 .. Len(accepted') /\ accepted'[i] = accepted[i]
      BY <1>3
    <3> QED BY <3>1, <3>3, <3>4
  <2> QED BY <2>1, <2>2
<1>7. HaltHasError'
  BY <1>1, AfterFields DEF IInv, HaltHasError, Halted
<1>8. NextFollowsLast'
  <2>1. cursor'.state \notin {"BeforeRun", "Halted"} /\ LastAccepted' = r
    BY <1>1, <1>3, AfterFields DEF IInv, LastAccepted
  <2>2. ASSUME r.type = "RunStarted"
        PROVE  cursor'.next = 0
    BY <1>1, <2>2, AfterFields
       DEF IInv, Accepts, NextAfter, NextFollowsLast, BoundaryTypes, TerminalTypes, OutcomeTypes
  <2>3. ASSUME r.type \in BoundaryTypes
        PROVE  cursor'.next = r.seq + 1
    BY <1>1, <2>3, AfterFields
       DEF IInv, Accepts, NextAfter, BoundaryTypes, TerminalTypes, OutcomeTypes
  <2>4. ASSUME r.type \in OutcomeTypes \cup {"TimerFired"}
        PROVE  cursor'.next = r.seq + 1
    <3>1. cursor'.next = cursor.next
      BY <1>1, <2>4, AfterFields DEF IInv, NextAfter, BoundaryTypes, OutcomeTypes
    <3>2. /\ cursor.state \in {"AwaitingOutcome", "AwaitingTimer"}
          /\ r.seq = cursor.open.seq
      BY <1>1, <2>4 DEF Accepts, BoundaryTypes, TerminalTypes, OutcomeTypes
    <3>3. accepted # <<>> /\ ~Halted /\ cursor.state = StateAfter(LastAccepted)
      BY <3>2 DEF IInv, CursorTracksHistory, Halted
    <3>4. LastAccepted.type \in {"EffectScheduled", "TimerScheduled"}
      BY <3>2, <3>3 DEF StateAfter, TerminalTypes
    <3>5. cursor.open = LastAccepted
      BY <3>2, <3>4 DEF IInv, CursorTracksHistory, OpensBoundary
    <3> QED
      BY <3>1, <3>2, <3>3, <3>4, <3>5 DEF IInv, NextFollowsLast, TerminalTypes
  <2>5. r.type \in {"RunStarted", "TimerFired"} \cup TerminalTypes \cup BoundaryTypes \cup OutcomeTypes
    BY DEF Records, TerminalTypes, BoundaryTypes
  <2> QED BY <2>1, <2>2, <2>3, <2>4, <2>5 DEF NextFollowsLast
<1> QED BY <1>2, <1>4, <1>5, <1>6, <1>7, <1>8 DEF IInv

LEMMA HaltsIInv ==
  ASSUME IInv, Halts
  PROVE  IInv'
<1>1. PICK r \in Records : cursor' = HaltedAt(cursor, r)
  BY DEF Halts
<1>2. /\ cursor'.state = "Halted" /\ cursor'.error \in KernelErrors
      /\ cursor'.next = cursor.next /\ cursor'.open = cursor.open
      /\ cursor' \in [state : States, next : 0 .. MaxSeq + 1, open : Steps,
                      error : KernelErrors \cup {"None"}]
  BY <1>1 DEF HaltedAt, Refusal, IInv, TypeOK, States, KernelErrors
<1>3. UNCHANGED <<phase, accepted>>
  BY DEF Halts
<1>4. TypeOK'
  BY <1>2, <1>3 DEF IInv, TypeOK, Halts
<1>5. CursorTracksHistory'
  BY <1>2, <1>3 DEF IInv, CursorTracksHistory
<1>6. PhaseMatchesCursor' /\ NewestIdentity' /\ NextFollowsLast' /\ HaltHasError'
  BY <1>2, <1>3 DEF IInv, PhaseMatchesCursor, NewestIdentity, NextFollowsLast, HaltHasError, Halted
<1> QED BY <1>4, <1>5, <1>6 DEF IInv

LEMMA SmallStepIInv ==
  ASSUME IInv, SmallStep
  PROVE  IInv'
<1>1. CASE Refuses
  <2>1. TypeOK'
    BY <1>1 DEF Refuses, IInv, TypeOK
  <2> QED
    BY <1>1, <2>1 DEF Refuses, IInv, CursorTracksHistory, LastAccepted, PhaseMatchesCursor,
                      NewestIdentity, NextFollowsLast, HaltHasError, Halted
<1>2. CASE Answers
  <2>1. TypeOK'
    BY <1>2 DEF Answers, IInv, TypeOK, Values
  <2> QED
    BY <1>2, <2>1 DEF Answers, IInv, CursorTracksHistory, LastAccepted, PhaseMatchesCursor,
                      NewestIdentity, NextFollowsLast, HaltHasError, Halted
<1>3. CASE Diverges
  <2>1. TypeOK'
    BY <1>3 DEF Diverges, IInv, TypeOK
  <2> QED
    BY <1>3, <2>1 DEF Diverges, IInv, CursorTracksHistory, LastAccepted, PhaseMatchesCursor,
                      NewestIdentity, NextFollowsLast, HaltHasError, Halted, Divergences
<1>4. CASE Halts
  BY <1>4, HaltsIInv
<1>5. CASE Consumes
  BY <1>5, ConsumesIInv
<1> QED BY <1>1, <1>2, <1>3, <1>4, <1>5 DEF SmallStep

LEMMA StepIInv ==
  ASSUME IInv, [Next]_vars
  PROVE  IInv'
<1>1. CASE Next
  BY <1>1, NextIsASmallStep, SmallStepIInv
<1>2. CASE UNCHANGED vars
  BY <1>2 DEF vars, IInv, TypeOK, CursorTracksHistory, LastAccepted, PhaseMatchesCursor,
              NewestIdentity, NextFollowsLast, HaltHasError, Halted
<1> QED BY <1>1, <1>2

LEMMA Invariance == Spec => []IInv
BY InitIInv, StepIInv, PTL DEF Spec

-----------------------------------------------------------------------------
(* The theorems                                                            *)

\* The variables of the kernel keep the types of their Rust counterparts.
THEOREM Typing == Spec => []TypeOK
BY Invariance, PTL DEF IInv

\* The cursor, which keeps no history, stands where the consumed records
\* leave a run, and no identity it may still issue is among them.
THEOREM CursorFollows == Spec => []CursorTracksHistory
BY Invariance, PTL DEF IInv

\* The machine's phase never disagrees with its cursor.
THEOREM PhaseFollows == Spec => []PhaseMatchesCursor
BY Invariance, PTL DEF IInv

\* An identity is granted only if it is the next one, unused, with its
\* predecessor recorded.
LEMMA FreshStep ==
  ASSUME IInv, FreshIdentity, [Next]_vars
  PROVE  FreshIdentity'
<1>1. CASE UNCHANGED vars
  BY <1>1 DEF vars, FreshIdentity
<1>2. CASE Refuses \/ Diverges \/ Halts \/ Consumes
  <2>1. answer'.kind \notin {"Schedule", "Record"}
    BY <1>2 DEF Refuses, Diverges, Halts, Consumes, KernelErrors
  <2> QED BY <2>1 DEF FreshIdentity
<1>3. CASE Answers
  <2>1. SUFFICES ASSUME answer'.kind \in {"Schedule", "Record"}
                 PROVE  /\ \A i \in 1 .. Len(accepted) :
                             accepted[i].type \in BoundaryTypes => accepted[i].seq < cursor.next
                        /\ cursor.next > 0 =>
                             \E i \in 1 .. Len(accepted) :
                               accepted[i].type \in BoundaryTypes /\ accepted[i].seq = cursor.next - 1
    BY <1>3 DEF Answers, FreshIdentity
  <2> QED BY <2>1 DEF IInv, CursorTracksHistory, NewestIdentity
<1> QED BY <1>1, <1>2, <1>3, NextIsASmallStep DEF SmallStep

THEOREM IdentitiesAreFresh == Spec => []FreshIdentity
<1>1. Init => FreshIdentity
  BY DEF Init, FreshIdentity, Fresh
<1> QED BY <1>1, FreshStep, Invariance, PTL DEF Spec

\* A boundary is redelivered or rearmed only while history leaves it open.
LEMMA RedeliveryStep ==
  ASSUME IInv, RedeliversTheOpenBoundary, [Next]_vars
  PROVE  RedeliversTheOpenBoundary'
<1>1. CASE UNCHANGED vars
  BY <1>1 DEF vars, RedeliversTheOpenBoundary, LastAccepted
<1>2. CASE Refuses \/ Diverges \/ Halts \/ Consumes
  <2>1. answer'.kind \notin {"Redeliver", "Rearm"}
    BY <1>2 DEF Refuses, Diverges, Halts, Consumes, KernelErrors
  <2> QED BY <2>1 DEF RedeliversTheOpenBoundary
<1>3. CASE Answers
  <2>1. SUFFICES ASSUME answer'.kind \in {"Redeliver", "Rearm"}
                 PROVE  accepted # <<>> /\ OpensBoundary(LastAccepted) /\ LastAccepted.seq = cursor.open.seq
    BY <1>3 DEF Answers, RedeliversTheOpenBoundary, LastAccepted
  <2>2. cursor.state \in {"AwaitingOutcome", "AwaitingTimer"}
    BY <1>3, <2>1 DEF Answers
  <2>3. accepted # <<>> /\ cursor.state = StateAfter(LastAccepted)
    BY <2>2 DEF IInv, CursorTracksHistory
  <2>4. OpensBoundary(LastAccepted)
    BY <2>2, <2>3 DEF StateAfter, OpensBoundary, TerminalTypes
  <2>5. cursor.open = LastAccepted
    BY <2>2, <2>4 DEF IInv, CursorTracksHistory
  <2> QED BY <2>3, <2>4, <2>5
<1> QED BY <1>1, <1>2, <1>3, NextIsASmallStep DEF SmallStep

THEOREM RedeliveryIsOfTheOpenBoundary == Spec => []RedeliversTheOpenBoundary
<1>1. Init => RedeliversTheOpenBoundary
  BY DEF Init, RedeliversTheOpenBoundary, Fresh
<1> QED BY <1>1, RedeliveryStep, Invariance, PTL DEF Spec

\* Nothing is consumed or granted after a fault, and its diagnosis is kept.
THEOREM Faults == Spec => FaultIsFinal
<1>1. IInv /\ [Next]_vars =>
        [Halted \/ Diverged =>
           /\ UNCHANGED <<cursor, phase, accepted>>
           /\ answer'.kind \in KernelErrors]_vars
  <2>1. ASSUME IInv, Next, Halted \/ Diverged
        PROVE  UNCHANGED <<cursor, phase, accepted>> /\ answer'.kind \in KernelErrors
    <3>1. Refuses
      BY <2>1, NextIsASmallStep DEF SmallStep, Answers, Diverges, Halts, Consumes
    <3> QED BY <3>1 DEF Refuses
  <2> QED BY <2>1
<1> QED BY <1>1, Invariance, PTL DEF Spec, FaultIsFinal

\* What the cursor's table accepts is what RunHistory lets follow.
LEMMA AcceptsLegal ==
  ASSUME IInv, NEW r \in Records, Accepts(cursor, r)
  PROVE  History!Legal(r)
<1>1. CASE cursor.state = "BeforeRun"
  BY <1>1 DEF Accepts, IInv, CursorTracksHistory, History!Legal
<1>2. CASE cursor.state # "BeforeRun"
  <2>1. cursor.state \notin {"BeforeRun", "Halted"}
    BY <1>2 DEF Accepts
  <2>2. /\ accepted # <<>> /\ cursor.state = StateAfter(LastAccepted)
        /\ OpensBoundary(LastAccepted) => cursor.open = LastAccepted
    BY <2>1 DEF IInv, CursorTracksHistory
  <2>3. accepted \in Seq(Records) /\ Len(accepted) \in 1 .. Len(accepted) /\ LastAccepted \in Records
    BY <2>2 DEF IInv, TypeOK, LastAccepted
  <2>4. CASE cursor.state = "AwaitingOutcome"
    <3>1. LastAccepted.type = "EffectScheduled"
      BY <2>2, <2>4 DEF StateAfter, TerminalTypes
    <3>2. r.type \in OutcomeTypes /\ r.seq = LastAccepted.seq
      BY <2>2, <2>4, <3>1 DEF Accepts, OpensBoundary
    <3> QED BY <2>2, <3>1, <3>2 DEF History!Legal, History!Follows, History!OutcomeTypes,
                                    OutcomeTypes, LastAccepted
  <2>5. CASE cursor.state = "AwaitingTimer"
    <3>1. LastAccepted.type = "TimerScheduled"
      BY <2>2, <2>5 DEF StateAfter, TerminalTypes
    <3>2. r.type = "TimerFired" /\ r.seq = LastAccepted.seq
      BY <2>2, <2>5, <3>1 DEF Accepts, OpensBoundary
    <3> QED BY <2>2, <3>1, <3>2 DEF History!Legal, History!Follows, History!OutcomeTypes,
                                    OutcomeTypes, LastAccepted
  <2>6. CASE cursor.state = "Replaying"
    <3>1. LastAccepted.type \in {"RunStarted", "TimerFired", "VersionMarker"} \cup OutcomeTypes
      BY <2>2, <2>3, <2>6 DEF StateAfter, Records, TerminalTypes
    <3>2. r.type \in TerminalTypes \/ (r.type \in BoundaryTypes /\ r.seq = cursor.next)
      BY <2>6 DEF Accepts
    <3>3. IF LastAccepted.type = "RunStarted" THEN cursor.next = 0
                                              ELSE cursor.next = LastAccepted.seq + 1
      BY <2>2, <2>6, <3>1 DEF IInv, NextFollowsLast, Halted, TerminalTypes, OutcomeTypes
    <3>4. IF LastAccepted.type = "RunStarted" THEN History!Opens(r, 0)
                                              ELSE History!Opens(r, LastAccepted.seq + 1)
      BY <3>2, <3>3 DEF History!Opens, History!TerminalTypes, History!BoundaryTypes,
                        TerminalTypes, BoundaryTypes
    <3> QED BY <2>2, <3>1, <3>4 DEF History!Legal, History!Follows, History!OutcomeTypes,
                                    OutcomeTypes, LastAccepted
  <2> QED BY <2>1, <2>4, <2>5, <2>6 DEF Accepts
<1> QED BY <1>1, <1>2

LEMMA SameRecords == History!Records = Records
BY DEF Records, History!Records, Seqs, History!Seqs, Asks, History!Asks, Specs, History!Specs,
       ClockKinds, History!ClockKinds, OutcomeTypes, History!OutcomeTypes,
       TerminalTypes, History!TerminalTypes

\* What the machine consumes is a history RunHistory describes: every step
\* appends a record that may follow, or leaves the history alone.
THEOREM ImplementsRunHistory == Spec => ConsumesLegalHistory
<1>1. Init => History!Init
  BY DEF Init, History!Init
<1>2. IInv /\ [Next]_vars => [History!Next]_accepted
  <2>1. ASSUME IInv, Next
        PROVE  History!Next \/ UNCHANGED accepted
    <3>1. CASE Consumes
      <4>1. PICK r \in Records : Accepts(cursor, r) /\ accepted' = Append(accepted, r)
        BY <3>1 DEF Consumes
      <4>2. History!Legal(r)
        BY <2>1, <4>1, AcceptsLegal
      <4> QED BY <4>1, <4>2, SameRecords DEF History!Next
    <3>2. CASE Refuses \/ Answers \/ Diverges \/ Halts
      BY <3>2 DEF Refuses, Answers, Diverges, Halts
    <3> QED BY <2>1, <3>1, <3>2, NextIsASmallStep DEF SmallStep
  <2> QED BY <2>1 DEF vars
<1> QED BY <1>1, <1>2, Invariance, PTL DEF Spec, ConsumesLegalHistory, History!Spec
=============================================================================
