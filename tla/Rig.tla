--------------------------------- MODULE Rig ---------------------------------
(***************************************************************************)
(* The power-cut rig (waymaker-rig/src/run.rs, witness.rs, audit.rs): it   *)
(* installs a bank, writes the records of a run into its journal, and      *)
(* writes in an instrument of its own a mark for each thing it is about to *)
(* do or has done.  After a cut the verifier reads only the two and says   *)
(* whether the part kept what it acknowledged.                             *)
(*                                                                         *)
(* A call of the rig goes from step to step, each a program, an erase or   *)
(* an effect in the world; the power may go before, within or after any of *)
(* them.  An append is one step: what its own programs and barriers leave  *)
(* is Journal's subject.                                                   *)
(*                                                                         *)
(* An operator whose name starts with Bad is a slip the properties must    *)
(* notice in the place of the operator it precedes.                        *)
(***************************************************************************)
EXTENDS Integers, Sequences, FiniteSets

CONSTANTS
  Effects,       \* Rig::effects
  LastIteration, \* bound on the plan's iterations
  Slots          \* WitnessRegion::capacity

VARIABLES
  iteration,  \* the iteration under way, or the last one
  step,       \* what the call under way does next, or Over
  power,      \* "On", "Off", or "Full": the instrument refused a mark
  witness,    \* the instrument's slots that are not erased, in order
  bank,       \* the rig's bank, with its journal
  honest,     \* no record that was acknowledged was lost
  claimed,    \* the last record of the run whose acknowledgement was marked
  performed   \* the schedules of the run whose effect the world has seen

media == <<witness, bank>>
ghosts == <<honest, claimed, performed>>
vars == <<iteration, step, power, media, ghosts>>

None == -1
Torn == [stage |-> "Torn"]
NoBank == [run |-> None, sealed |-> FALSE, records |-> 0, clean |-> TRUE]

\* Workload: a start, a schedule and a completion for every effect, a finish.
Records == 2 * Effects + 2
Schedules == {2 * e + 1 : e \in 0..Effects - 1}

\* A slip: the mark of a dispatch is not counted.
BadMarksPerRun == 4 * Effects + 4
MarksPerRun == 5 * Effects + 4
ResetBudget == Slots - MarksPerRun

ASSUME SizesAssumption ==
  /\ Effects \in Nat \ {0} /\ LastIteration \in Nat
  /\ Slots \in Nat /\ Slots >= MarksPerRun + 1     \* Rig::new, TORN_SLOTS
-----------------------------------------------------------------------------
(* The witness, read back                                                  *)

Stages == {"Attempted", "Acknowledged", "Dispatched"}
Mark(stage, index) == [stage |-> stage, index |-> index, iteration |-> iteration]

\* The slots that hold a whole mark, and how many a cut tore.
Marked == {k \in DOMAIN witness : witness[k] # Torn}
TornSlots == Cardinality({k \in DOMAIN witness : witness[k] = Torn})
Began == witness # <<>>
Indices(stage) == {witness[k].index : k \in {j \in Marked : witness[j].stage = stage}}

\* Progress's highest index of a stage, below every index if there is none.
High(stage) ==
  IF Indices(stage) = {} THEN None
  ELSE CHOOSE i \in Indices(stage) : \A j \in Indices(stage) : j <= i

\* Progress::accept refuses a mark: MixedIterations, OutOfOrder.
Unreadable ==
  \E j, k \in Marked :
    /\ j < k
    /\ \/ witness[j].iteration # witness[k].iteration
       \/ witness[j].stage = witness[k].stage /\ witness[j].index >= witness[k].index

\* The marks are another iteration's.
Foreign == \E k \in Marked : witness[k].iteration # iteration
-----------------------------------------------------------------------------
(* Rig::verify, on what the media hold                                     *)

Own == bank.run = iteration
Recovered == IF Own THEN bank.records ELSE 0

RecoveredPast == Recovered > High("Attempted") + 1

\* A slip: off by one, the last acknowledged record is not asked for.
BadLost == Recovered < High("Acknowledged")
Lost == Recovered <= High("Acknowledged")

Undeclared == Recovered <= High("Dispatched")
Unauthorised == Began /\ ~(Own /\ bank.sealed)

Breached ==
  \/ Unreadable
  \/ Own /\ Foreign
  \/ /\ Own \/ ~Foreign
     /\ RecoveredPast \/ Lost \/ Undeclared \/ Unauthorised
Passed == ~Breached
-----------------------------------------------------------------------------
(* The steps of a call                                                     *)

Step(op, index) == [op |-> op, index |-> index]
Over == Step("Over", 0)

\* A slip: the instrument is erased once the bank is installed.
BadPreparation == <<"EraseBank", "Header", "Seal", "EraseWitness">>
Preparation == <<"EraseWitness", "EraseBank", "Header", "Seal">>
Prepare(k) == Step(Preparation[k], k)

\* The records of the run, from one of them on; and an effect handed out.
From(i) == IF i < Records THEN Step("Attempted", i) ELSE Over
Deliver(i) == Step("Dispatched", i)

Doing(op) == power = "On" /\ step.op = op
Index == step.index
Goes(next) == step' = next /\ UNCHANGED <<iteration, power>>

Prepared == Goes(IF Index < 4 THEN Prepare(Index + 1) ELSE From(0))
AfterMark ==
  IF step.op = "Attempted" THEN Step("Append", Index)
  ELSE IF step.op = "Dispatched" THEN Step("Perform", Index)
  ELSE IF Index \in Schedules THEN Deliver(Index) ELSE From(Index + 1)

\* Rig::erase_instrument: one erase block, and a barrier.
EraseWitness ==
  /\ Doing("EraseWitness") /\ Prepared
  /\ witness' = <<>>
  /\ UNCHANGED <<bank, ghosts>>

EraseBank ==
  /\ Doing("EraseBank") /\ Prepared
  /\ bank' = NoBank
  /\ UNCHANGED <<witness, ghosts>>

Header ==
  /\ Doing("Header") /\ Prepared
  /\ bank' = [bank EXCEPT !.run = iteration]
  /\ UNCHANGED <<witness, ghosts>>

Seal ==
  /\ Doing("Seal") /\ Prepared
  /\ bank' = [bank EXCEPT !.sealed = TRUE]
  /\ UNCHANGED <<witness, ghosts>>

Claims == claimed' = IF step.op = "Acknowledged" THEN Index ELSE claimed

\* Rig::mark, and Rig::mark_above, which leaves out what the witness already
\* says; Witness::mark refuses when no slot is left.
MarkStep ==
  /\ \E stage \in Stages : Doing(stage)
  /\ LET mark == Mark(step.op, Index)
     IN \/ /\ High(mark.stage) >= Index
           /\ Goes(AfterMark) /\ UNCHANGED witness /\ Claims
        \/ /\ High(mark.stage) < Index /\ Len(witness) < Slots
           /\ Goes(AfterMark) /\ witness' = Append(witness, mark) /\ Claims
        \/ /\ High(mark.stage) < Index /\ Len(witness) = Slots
           /\ power' = "Full"
           /\ UNCHANGED <<iteration, step, witness, claimed>>
  /\ UNCHANGED <<bank, honest, performed>>

AppendStep ==
  /\ Doing("Append") /\ Goes(Step("Acknowledged", Index))
  /\ bank' = [bank EXCEPT !.records = Index + 1]
  /\ UNCHANGED <<witness, ghosts>>

Perform ==
  /\ Doing("Perform") /\ Goes(From(Index + 1))
  /\ performed' = performed \union {Index}
  /\ UNCHANGED <<media, honest, claimed>>
-----------------------------------------------------------------------------
(* The power goes, and what the injector lets a step leave                 *)

\* A header or a seal torn short is none; a torn record damages the tail.
BankLeft ==
  {bank} \union (IF step.op = "EraseBank" THEN {NoBank} ELSE {})
         \union (IF step.op = "Append" THEN {[bank EXCEPT !.clean = FALSE]} ELSE {})
WitnessLeft ==
  {witness} \union
  IF step.op \in Stages /\ High(step.op) < Index /\ Len(witness) < Slots
  THEN {Append(witness, Torn)} ELSE {}

\* A cut: what was under way is torn, or has not begun.
Cut ==
  /\ power = "On"
  /\ power' = "Off" /\ step' = Over
  /\ bank' \in BankLeft
  /\ witness' \in WitnessLeft
  /\ UNCHANGED <<iteration, ghosts>>

\* A part that does not keep what its barriers answered for: records, or the
\* whole bank, are gone after the cut.
Loses ==
  /\ power = "On" /\ Own /\ bank.records > 0
  /\ power' = "Off" /\ step' = Over
  /\ bank' \in {NoBank} \union {[bank EXCEPT !.records = n] : n \in 0..bank.records - 1}
  /\ honest' = FALSE
  /\ UNCHANGED <<iteration, witness, claimed, performed>>
-----------------------------------------------------------------------------
(* What the harness does with a verdict                                    *)

\* Rig::resume: a sealed bank of this run with an append point, audited again
\* as a witness of one authority; whatever is recovered stays, and an effect
\* whose completion is not there is handed out again first.
Resumable == Own /\ bank.sealed /\ bank.clean /\ Passed

Resume ==
  /\ power = "Off" /\ Resumable
  /\ power' = "On"
  /\ step' = IF Recovered - 1 \in Schedules THEN Deliver(Recovered - 1) ELSE From(Recovered)
  /\ UNCHANGED <<iteration, media, ghosts>>

\* The next iteration is prepared, on whatever the last one left.
NextIteration ==
  /\ Passed /\ iteration < LastIteration
  /\ step = Over
  /\ iteration' = iteration + 1
  /\ power' = "On" /\ step' = Prepare(1)
  /\ claimed' = None /\ performed' = {} /\ honest' = TRUE
  /\ UNCHANGED media

Init ==
  /\ iteration = 0 /\ step = Prepare(1) /\ power = "On"
  /\ witness = <<>> /\ bank = NoBank
  /\ honest = TRUE /\ claimed = None /\ performed = {}

Next ==
  \/ EraseWitness \/ EraseBank \/ Header \/ Seal
  \/ MarkStep \/ AppendStep \/ Perform
  \/ Cut \/ Loses \/ Resume \/ NextIteration

Spec == Init /\ [][Next]_vars
-----------------------------------------------------------------------------
(* Properties                                                              *)

\* A step of the rig, or none.
StepOK(s) ==
  \/ s = Over
  \/ \E k \in 1..4 : s = Prepare(k)
  \/ \E op \in {"Attempted", "Append", "Acknowledged"}, i \in 0..Records - 1 : s = Step(op, i)
  \/ \E op \in {"Dispatched", "Perform"}, i \in Schedules : s = Step(op, i)

Marks == [stage : Stages, index : 0..Records - 1, iteration : 0..LastIteration]

\* Every variable has the type its Rust counterpart has.
TypeOK ==
  /\ iteration \in 0..LastIteration /\ StepOK(step) /\ power \in {"On", "Off", "Full"}
  /\ witness \in Seq(Marks \union {Torn}) /\ Len(witness) <= Slots
  /\ bank \in [run : 0..LastIteration \union {None}, sealed : BOOLEAN,
               records : 0..Records, clean : BOOLEAN]
  /\ honest \in BOOLEAN
  /\ claimed \in 0..Records - 1 \union {None} /\ performed \subseteq Schedules

\* The media are verified: after a cut, or once a call is over.
Judged == step = Over

\* What a reset leaves of a run that never got past its first mark, met by an
\* iteration that has not erased it yet: see HealthyBoardsPass.
StaleTear == Marked = {} /\ Began /\ ~Own

\* A part that kept every record it acknowledged is never reported for a
\* violation, whichever step of preparing, running or resuming the power went
\* in, and however many times (run.rs, judge): the marks claim no more than
\* was done, and a witness of another iteration is told from this one's.
NeverAccused == Judged /\ honest /\ ~StaleTear => Passed

\* What the tests say without that exception (waymaker-rig/tests/sweep.rs:389,
\* "at every point the injector can interrupt the rig, the rig's own verifier
\* must find no violation").
HealthyBoardsPass == Judged /\ honest => Passed

\* A part that lost a record whose acknowledgement was marked, or the schedule
\* of an effect the world has seen, never passes (audit.rs, finish), whatever
\* marks were torn on the way and however often the run was resumed.
NeverExcused ==
  Judged /\ Passed =>
    /\ claimed < Recovered
    /\ \A i \in performed : i < Recovered

\* The instrument refuses a mark only when more of its slots are torn than
\* reset_budget promised (run.rs, Rig::reset_budget): over any number of
\* resumes, a run pays for each of its marks once.
BudgetSuffices == power = "Full" => TornSlots > ResetBudget
=============================================================================
