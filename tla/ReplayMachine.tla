---------------------------- MODULE ReplayMachine ----------------------------
(***************************************************************************)
(* The replay kernel of Waymaker: the cursor that walks a run's history    *)
(* (waymaker-core/src/replay.rs), the identity allocator it commits        *)
(* against (id.rs) and the machine that compares what the workflow asks    *)
(* for with what the history says (transition.rs).                         *)
(*                                                                         *)
(* The machine is passive.  Its caller offers one history step per call (a *)
(* record, or "the history ends here") and keeps the record to offer again *)
(* when the call refused it.  The caller of this module is arbitrary: it   *)
(* may offer any record to any operation in any order, which is what the   *)
(* code's `&mut self` methods admit.  Driver.tla is the caller the         *)
(* repository has.                                                         *)
(***************************************************************************)
EXTENDS Records

(* An operator whose name starts with Bad is not the code: it is the slip   *)
(* the properties must notice when it takes the place of the operator it   *)
(* precedes.                                                               *)

VARIABLES
  cursor,      \* ReplayCursor: state, next identity, open boundary, error
  phase,       \* ReplayMachine::phase
  answer,      \* what the last call returned
  accepted     \* history: the records consumed, in order

vars == <<cursor, phase, answer, accepted>>
-----------------------------------------------------------------------------
KernelErrors == {"IdExhausted", "NondeterministicWorkflow", "IncompatibleWorkflow",
                 "MalformedHistory", "NoPersistentClock"}
Divergences == {"Boundary", "BoundaryKind", "Sequence", "Kind", "Digest",
                "Deadline", "Gate"}
Grants == {"None", "Step", "Schedule", "Recorded", "Finished", "Redeliver",
           "Replayed", "Rearm", "Fired", "Record"}
States == {"BeforeRun", "Replaying", "AwaitingOutcome", "AwaitingTimer",
           "RunCompleted", "RunFailed", "Halted"}
-----------------------------------------------------------------------------
(* ReplayCursor                                                            *)

\* An outcome is taken without asking whose it is.
BadAccepts(c, r) ==
  \/ c.state = "BeforeRun" /\ r.type = "RunStarted"
  \/ c.state = "Replaying" /\ r.type \in BoundaryTypes /\ r.seq = c.next
  \/ c.state = "Replaying" /\ r.type \in TerminalTypes
  \/ c.state = "AwaitingOutcome" /\ r.type \in OutcomeTypes
  \/ c.state = "AwaitingTimer" /\ r.type = "TimerFired" /\ r.seq = c.open.seq

\* The arms of ReplayCursor::transition that consume the record.
Accepts(c, r) ==
  \/ c.state = "BeforeRun" /\ r.type = "RunStarted"
  \/ c.state = "Replaying" /\ r.type \in BoundaryTypes /\ r.seq = c.next
  \/ c.state = "Replaying" /\ r.type \in TerminalTypes
  \/ c.state = "AwaitingOutcome" /\ r.type \in OutcomeTypes /\ r.seq = c.open.seq
  \/ c.state = "AwaitingTimer" /\ r.type = "TimerFired" /\ r.seq = c.open.seq

\* Where the cursor stands once it consumed r.
StateAfter(r) ==
  CASE r.type = "EffectScheduled" -> "AwaitingOutcome"
    [] r.type = "TimerScheduled"  -> "AwaitingTimer"
    [] r.type \in TerminalTypes   -> r.type
    [] OTHER                      -> "Replaying"

\* A gate's marker does not spend its identity.
BadNextAfter(c, r) == IF OpensBoundary(r) THEN c.next + 1 ELSE c.next

\* A timer's firing spends an identity of its own.
BadNextAfterFired(c, r) ==
  IF r.type \in BoundaryTypes \cup {"TimerFired"} THEN c.next + 1 ELSE c.next

\* commit: the allocator resumes behind the sequence just committed, and
\* stays exhausted once the last one is spent.
NextAfter(c, r) == IF r.type \in BoundaryTypes THEN c.next + 1 ELSE c.next

\* The boundary a timer opens is not remembered.
BadAfter(c, r) ==
  [c EXCEPT !.state = StateAfter(r),
            !.next = NextAfter(c, r),
            !.open = IF r.type = "EffectScheduled" THEN r ELSE c.open]

After(c, r) ==
  [c EXCEPT !.state = StateAfter(r),
            !.next = NextAfter(c, r),
            !.open = IF OpensBoundary(r) THEN r ELSE NoRecord]

\* Why ReplayCursor::transition refused r.
Refusal(c, r) ==
  IF c.state = "Replaying" /\ r.type \in BoundaryTypes /\ c.next = Exhausted
    THEN "IdExhausted" ELSE "MalformedHistory"

HaltedAt(c, r) == [c EXCEPT !.state = "Halted", !.error = Refusal(c, r)]
-----------------------------------------------------------------------------
(* The shapes an answer of the machine takes                               *)

Answer(kind, r) == [kind |-> kind, seq |-> r.seq, val |-> r.val]
Fresh(kind, seq) == [kind |-> kind, seq |-> seq, val |-> NoArg]

Refuse(error) ==
  /\ answer' = Fresh(error, 0)
  /\ UNCHANGED <<cursor, phase, accepted>>

\* ReplayMachine::diverge: the verdict is kept, the record is not consumed.
Diverge(divergence) ==
  /\ phase' = divergence
  /\ answer' = Fresh("NondeterministicWorkflow", 0)
  /\ UNCHANGED <<cursor, accepted>>

\* ReplayCursor::advance with a record its table accepts.
Consume(r, grant, toPhase) ==
  /\ Accepts(cursor, r)
  /\ cursor' = After(cursor, r)
  /\ phase' = toPhase
  /\ answer' = Answer(grant, r)
  /\ accepted' = Append(accepted, r)

\* ReplayCursor::advance with a record its table refuses.
Halt(r) ==
  /\ ~Accepts(cursor, r)
  /\ cursor' = HaltedAt(cursor, r)
  /\ answer' = Fresh(Refusal(cursor, r), 0)
  /\ UNCHANGED <<phase, accepted>>

Halted == cursor.state = "Halted"
Diverged == phase \in Divergences
-----------------------------------------------------------------------------
\* The machine's verdict on the workflow does not stop a bare advance.
BadAdvance(r) ==
  \/ Halted /\ Refuse(cursor.error)
  \/ ~Halted /\ (Consume(r, "Step", "Settled") \/ Halt(r))

(* ReplayMachine::advance: consume a record on nobody's behalf.            *)
Advance(r) ==
  \/ Halted /\ Refuse(cursor.error)
  \/ ~Halted /\ phase # "Settled" /\ Refuse("NondeterministicWorkflow")
  \/ ~Halted /\ phase = "Settled" /\ (Consume(r, "Step", "Settled") \/ Halt(r))

(* The prologue intent, timer_intent and version_intent share: a halt      *)
(* outranks a divergence, the first divergence is kept, and a claim made   *)
(* where no boundary may open is itself a divergence.                      *)
ClaimRefused ==
  \/ Halted /\ Refuse(cursor.error)
  \/ ~Halted /\ Diverged /\ Refuse("NondeterministicWorkflow")
  \/ ~Halted /\ ~Diverged /\ cursor.state # "Replaying" /\ Diverge("Boundary")

ClaimHeard == ~Halted /\ ~Diverged /\ cursor.state = "Replaying"

\* The frontier issues an identity it may not have.
BadFrontier(grant) ==
  /\ answer' = Fresh(grant, cursor.next)
  /\ UNCHANGED <<cursor, phase, accepted>>

(* A claim met by the end of history: a fresh identity, or none is left.   *)
Frontier(grant) ==
  \/ /\ cursor.next # Exhausted
     /\ answer' = Fresh(grant, cursor.next)
     /\ UNCHANGED <<cursor, phase, accepted>>
  \/ cursor.next = Exhausted /\ Refuse("IdExhausted")

(* A claim met by a record no claim of its kind can match.                 *)
ForeignRecord(r, own) ==
  \/ r.type \in TerminalTypes /\ Consume(r, "Finished", phase)
  \/ r.type \in BoundaryTypes \ {own} /\ Diverge("BoundaryKind")
  \/ r.type \notin TerminalTypes \cup BoundaryTypes /\ Halt(r)

(* EffectRequest::divergence_from, in the order the code asks.             *)
EffectDivergence(kind, input, r) ==
  CASE r.seq # cursor.next  -> "Sequence"
    [] r.arg.kind # kind    -> "Kind"
    [] r.arg.input # input  -> "Digest"
    [] OTHER                -> "None"

RecordedEffect(kind, input, r) ==
  \/ cursor.next = Exhausted /\ Refuse("IdExhausted")
  \/ /\ cursor.next # Exhausted
     /\ LET d == EffectDivergence(kind, input, r)
        IN  \/ d # "None" /\ Diverge(d)
            \/ d = "None" /\ Consume(r, "Recorded", "AwaitingOutcome")

(* ReplayMachine::intent: the workflow asks for an effect.                 *)
Intent(kind, input, step) ==
  \/ ClaimRefused
  \/ ClaimHeard /\ step = EndOfHistory /\ Frontier("Schedule")
  \/ ClaimHeard /\ step.type = "EffectScheduled" /\ RecordedEffect(kind, input, step)
  \/ ClaimHeard /\ step # EndOfHistory /\ ForeignRecord(step, "EffectScheduled")

(* ReplayMachine::outcome: resolve the effect a Recorded answer opened.    *)
Outcome(step) ==
  \/ Halted /\ Refuse(cursor.error)
  \/ ~Halted /\ phase # "AwaitingOutcome" /\ Refuse("NondeterministicWorkflow")
  \/ /\ ~Halted /\ phase = "AwaitingOutcome"
     /\ \/ /\ step = EndOfHistory
           /\ phase' = "Settled"
           /\ answer' = Fresh("Redeliver", cursor.open.seq)
           /\ UNCHANGED <<cursor, accepted>>
        \/ step # EndOfHistory /\ (Consume(step, "Replayed", "Settled") \/ Halt(step))
-----------------------------------------------------------------------------
(* ClockCapability::admits: only a board with a persistent clock can keep  *)
(* a persistent deadline; any board can keep one measured from boot.       *)
Admits(persistent, spec) == spec.clock = "AtPersistentTime" => persistent

RecordedTimer(spec, persistent, r) ==
  \/ cursor.next = Exhausted /\ Refuse("IdExhausted")
  \/ /\ cursor.next # Exhausted
     /\ \/ /\ r.arg.clock = "Unknown" \/ ~Admits(persistent, r.arg)
           /\ Refuse("IncompatibleWorkflow")
        \/ /\ r.arg.clock # "Unknown" /\ Admits(persistent, r.arg)
           /\ \/ r.seq # cursor.next /\ Diverge("Sequence")
              \/ r.seq = cursor.next /\ r.arg # spec /\ Diverge("Deadline")
              \/ r.seq = cursor.next /\ r.arg = spec
                   /\ Consume(r, "Recorded", "AwaitingFiring")

(* ReplayMachine::timer_intent: the workflow asks to wait.                 *)
TimerIntent(spec, persistent, step) ==
  \/ ClaimRefused
  \/ /\ ClaimHeard /\ step = EndOfHistory
     /\ \/ ~Admits(persistent, spec) /\ Refuse("NoPersistentClock")
        \/ Admits(persistent, spec) /\ Frontier("Schedule")
  \/ ClaimHeard /\ step.type = "TimerScheduled" /\ RecordedTimer(spec, persistent, step)
  \/ ClaimHeard /\ step # EndOfHistory /\ ForeignRecord(step, "TimerScheduled")

(* ReplayMachine::timer_outcome: resolve the timer a Recorded answer armed.*)
TimerOutcome(step) ==
  \/ Halted /\ Refuse(cursor.error)
  \/ ~Halted /\ phase # "AwaitingFiring" /\ Refuse("NondeterministicWorkflow")
  \/ /\ ~Halted /\ phase = "AwaitingFiring"
     /\ \/ /\ step = EndOfHistory
           /\ phase' = "Settled"
           /\ answer' = Answer("Rearm", cursor.open)
           /\ UNCHANGED <<cursor, accepted>>
        \/ step # EndOfHistory /\ (Consume(step, "Fired", "Settled") \/ Halt(step))

RecordedGate(gate, oldest, current, r) ==
  \/ cursor.next = Exhausted /\ Refuse("IdExhausted")
  \/ /\ cursor.next # Exhausted
     /\ \/ r.val \notin oldest .. current /\ Refuse("IncompatibleWorkflow")
        \/ r.val \in oldest .. current /\ r.seq # cursor.next /\ Diverge("Sequence")
        \/ r.val \in oldest .. current /\ r.seq = cursor.next /\ r.arg # gate
             /\ Diverge("Gate")
        \/ r.val \in oldest .. current /\ r.seq = cursor.next /\ r.arg = gate
             /\ Consume(r, "Recorded", phase)

(* ReplayMachine::version_intent: the workflow asks which branch to take.  *)
VersionIntent(gate, oldest, current, step) ==
  \/ ClaimRefused
  \/ ClaimHeard /\ step = EndOfHistory /\ Frontier("Record")
  \/ ClaimHeard /\ step.type = "VersionMarker" /\ RecordedGate(gate, oldest, current, step)
  \/ ClaimHeard /\ step # EndOfHistory /\ ForeignRecord(step, "VersionMarker")
-----------------------------------------------------------------------------
Init ==
  /\ cursor = [state |-> "BeforeRun", next |-> 0, open |-> NoRecord, error |-> "None"]
  /\ phase = "Settled"
  /\ answer = Fresh("None", 0)
  /\ accepted = <<>>

Next ==
  \/ \E r \in Records : Advance(r)
  \/ \E kind \in Kinds, input \in Inputs, step \in Steps : Intent(kind, input, step)
  \/ \E step \in Steps : Outcome(step)
  \/ \E spec \in Specs, persistent \in BOOLEAN, step \in Steps :
       spec.clock # "Unknown" /\ TimerIntent(spec, persistent, step)
  \/ \E step \in Steps : TimerOutcome(step)
  \/ \E gate \in Gates, oldest, current \in Versions, step \in Steps :
       oldest <= current /\ VersionIntent(gate, oldest, current, step)

Spec == Init /\ [][Next]_vars
-----------------------------------------------------------------------------
(* Properties                                                              *)

\* Every variable has the type its Rust counterpart has.
TypeOK ==
  /\ cursor \in [state : States, next : 0 .. MaxSeq + 1, open : Steps,
                 error : KernelErrors \cup {"None"}]
  /\ phase \in {"Settled", "AwaitingOutcome", "AwaitingFiring"} \cup Divergences
  /\ answer \in [kind : Grants \cup KernelErrors, seq : Seqs,
                 val : Payloads \cup Versions \cup Readings \cup {NoArg}]
  /\ accepted \in Seq(Records)

LastAccepted == accepted[Len(accepted)]

\* The cursor keeps no history, yet it stands exactly where the records it
\* consumed leave a run: its open boundary is the last of them, and no
\* identity it may still issue occurs among them (replay.rs, State; id.rs,
\* "an identity is never issued twice").
CursorTracksHistory ==
  /\ cursor.state = "BeforeRun" => accepted = <<>>
  /\ cursor.state \notin {"BeforeRun", "Halted"} =>
       /\ accepted # <<>>
       /\ cursor.state = StateAfter(LastAccepted)
       /\ OpensBoundary(LastAccepted) => cursor.open = LastAccepted
  /\ \A i \in 1 .. Len(accepted) :
       accepted[i].type \in BoundaryTypes => accepted[i].seq < cursor.next

\* The phase the machine keeps beside the cursor never disagrees with it: an
\* outcome is awaited only while its schedule is the last record consumed
\* (transition.rs, Phase).
PhaseMatchesCursor ==
  /\ phase = "AwaitingOutcome" => cursor.state \in {"AwaitingOutcome", "Halted"}
  /\ phase = "AwaitingFiring" => cursor.state \in {"AwaitingTimer", "Halted"}

\* An identity handed out for a new boundary has never been recorded, and is
\* the successor of the newest one that was, whatever was asked before.
FreshIdentity ==
  answer.kind \in {"Schedule", "Record"} =>
    /\ \A i \in 1 .. Len(accepted) :
         accepted[i].type \in BoundaryTypes => accepted[i].seq < answer.seq
    /\ answer.seq > 0 =>
         \E i \in 1 .. Len(accepted) :
           accepted[i].type \in BoundaryTypes /\ accepted[i].seq = answer.seq - 1

\* Only the boundary the history really leaves open is redelivered or rearmed.
RedeliversTheOpenBoundary ==
  answer.kind \in {"Redeliver", "Rearm"} =>
    /\ accepted # <<>>
    /\ OpensBoundary(LastAccepted)
    /\ LastAccepted.seq = answer.seq

\* Once history or the workflow has been found at fault nothing is consumed
\* and nothing is granted again, and the first diagnosis is the one kept
\* (ReplayMachine::halted and ::diverged).
FaultIsFinal ==
  [][Halted \/ Diverged =>
       /\ UNCHANGED <<cursor, phase, accepted>>
       /\ answer'.kind \in KernelErrors]_vars

\* Whatever the calls and whatever records they offer, what the machine
\* consumes is a history of the section 08 table (RunHistory).
History == INSTANCE RunHistory WITH history <- accepted
ConsumesLegalHistory == History!Spec
=============================================================================
