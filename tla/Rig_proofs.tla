------------------------------ MODULE Rig_proofs ------------------------------
(***************************************************************************)
(* What the rig's verdicts are worth, for any number of effects and        *)
(* iterations, an instrument of any size Rig::new accepts, and cuts in any *)
(* number.                                                                 *)
(*                                                                         *)
(* The argument.  The marks are read back in the order they were written,  *)
(* so the highest of a stage speaks for all of them (Legible).  Where the  *)
(* rig stands, its bank stands with the marks (Placed): a record is begun  *)
(* before it is there, there before it is acknowledged, and its effect is  *)
(* declared before it is performed.  A part may lie between two steps, and *)
(* nothing is known of its media then; but the rig goes on only on a       *)
(* verdict that re-establishes what it relies on.  Counting the marks of a *)
(* run, each of which is written once, bounds what its instrument spends.  *)
(***************************************************************************)
EXTENDS Rig, TLAPS, FiniteSetTheorems

\* All marks are this iteration's; or none is, and the bank is not either.
Mine == \A k \in Marked : witness[k].iteration = iteration
Others ==
  /\ \A k \in Marked : witness[k].iteration # iteration
  /\ ~Own /\ claimed = None /\ performed = {}

\* n records are what the marks allow, and no less than they ask for.
Counts(n) ==
  /\ High("Acknowledged") < n /\ High("Dispatched") < n /\ n <= High("Attempted") + 1

\* The bank is this run's, and stands with the marks.
Installed == Mine /\ Own /\ bank.sealed /\ Counts(bank.records)

\* The marks can be read back: in order, with a highest one of each stage.
Legible ==
  /\ ~Unreadable
  /\ \A k \in Marked : witness[k].stage = "Dispatched" => witness[k].index \in Schedules
  /\ \A stage \in Stages :
       Indices(stage) # {} => \E i \in Indices(stage) : \A j \in Indices(stage) : j <= i

\* Nothing on media is of an iteration to come.
NotAhead ==
  /\ bank.run <= iteration
  /\ \A k \in Marked : witness[k].iteration <= iteration

\* Where the rig stands, the media stand with it.
Preparing ==
  /\ step = Prepare(1) => Others
  /\ step \in {Prepare(2), Prepare(3), Prepare(4)} => witness = <<>> /\ Mine
  /\ step = Prepare(2) => ~Own
  /\ step = Prepare(3) => bank = NoBank
  /\ step = Prepare(4) => Own /\ bank.records = 0
Writing ==
  /\ step.op \in Stages \union {"Append", "Perform"} => Installed
  /\ step.op \in {"Attempted", "Append"} => bank.records = Index
  /\ step.op \in {"Acknowledged", "Dispatched", "Perform"} => bank.records = Index + 1
  /\ step.op = "Append" => Index <= High("Attempted")
  /\ step.op = "Perform" => Index <= High("Dispatched")

\* Once a call is over: a part that kept its word left what a cut may leave.
Stopped ==
  step = Over =>
    /\ Mine \/ Others
    /\ honest => Others \/ (witness = <<>> /\ (Own => bank.records = 0)) \/ Installed
Placed == Preparing /\ Writing /\ Stopped

\* What the run was told or did has its mark.
Backed ==
  /\ claimed <= High("Acknowledged")
  /\ \A i \in performed : i <= High("Dispatched")

\* The instrument that refused a mark is full, and the mark is not there.
Filled ==
  power = "Full" =>
    /\ Len(witness) = Slots
    /\ \E stage \in Stages, i \in 0..Records - 1 : step = Step(stage, i) /\ High(stage) < i

IInv == TypeOK /\ Legible /\ NotAhead /\ Placed /\ Backed /\ Filled
-----------------------------------------------------------------------------
(* The workload, and the steps of a call                                   *)

\* A run has records, and its schedules are among them.
LEMMA Sizes ==
  /\ Effects \in Nat /\ Effects > 0 /\ LastIteration \in Nat /\ Slots \in Nat
  /\ Records \in Nat /\ Records > 0 /\ Schedules \subseteq 0..Records - 1
  /\ MarksPerRun \in Nat
BY SizesAssumption DEF Records, Schedules, MarksPerRun

\* Which steps prepare a run, and what they are called.
LEMMA Preparations ==
  /\ Prepare(1) = Step("EraseWitness", 1) /\ Prepare(2) = Step("EraseBank", 2)
  /\ Prepare(3) = Step("Header", 3) /\ Prepare(4) = Step("Seal", 4)
  /\ \A k \in 1..4 : k = 1 \/ k = 2 \/ k = 3 \/ k = 4
BY DEF Prepare, Preparation

\* A step is known by its name.
LEMMA Named ==
  ASSUME StepOK(step)
  PROVE  /\ step.op = "EraseWitness" => step = Prepare(1)
         /\ step.op = "EraseBank" => step = Prepare(2)
         /\ step.op = "Header" => step = Prepare(3)
         /\ step.op = "Seal" => step = Prepare(4)
         /\ step.op \in {"Attempted", "Append", "Acknowledged"} =>
              Index \in 0..Records - 1 /\ step = Step(step.op, Index)
         /\ step.op \in {"Dispatched", "Perform"} =>
              /\ Index \in Schedules /\ Index \in 0..Records - 1
              /\ step = Step(step.op, Index)
         /\ step.op = "Over" => step = Over
BY Preparations, Sizes DEF StepOK, Step, Over, Index
-----------------------------------------------------------------------------
(* The highest of a stage                                                  *)

Top(S) == IF S = {} THEN None ELSE CHOOSE i \in S : \A j \in S : j <= i
Topped(S) == S \subseteq 0..Records - 1 /\ (S # {} => \E i \in S : \A j \in S : j <= i)

LEMMA TopIs ==
  ASSUME NEW S, Topped(S)
  PROVE  /\ Top(S) \in 0..Records - 1 \union {None}
         /\ \A i \in S : i <= Top(S)
         /\ S = {} <=> Top(S) = None
         /\ S # {} => Top(S) \in S
<1>1. ASSUME S # {}
      PROVE  Top(S) \in S /\ \A j \in S : j <= Top(S)
  <2>1. \E i \in S : \A j \in S : j <= i
    BY <1>1 DEF Topped
  <2> QED
    BY <1>1, <2>1 DEF Top
<1>2. S \subseteq 0..Records - 1
  BY DEF Topped
<1>3. S = {} => Top(S) = None
  BY DEF Top
<1>4. None = -1 /\ \A i \in 0..Records - 1 : i # None
  BY DEF None
<1> QED
  BY <1>1, <1>2, <1>3, <1>4

\* One that is higher than all becomes the highest.
LEMMA TopGrows ==
  ASSUME NEW S, Topped(S), NEW i \in 0..Records - 1, Top(S) < i,
         NEW T, T = S \union {i}
  PROVE  Topped(T) /\ Top(T) = i
<1>0. S \subseteq 0..Records - 1 /\ Records \in Nat
  BY Sizes DEF Topped
<1>1. \A j \in S : j < i
  <2>1. \A j \in S : j <= Top(S)
    BY TopIs
  <2>2. Top(S) \in Int
    BY <1>0, TopIs DEF None
  <2> QED
    BY <1>0, <2>1, <2>2
<1>2. Topped(T)
  <2>1. \A j \in T : j <= i
    BY <1>0, <1>1
  <2> QED
    BY <1>0, <2>1 DEF Topped
<1>3. Top(T) \in T /\ i <= Top(T)
  BY <1>2, TopIs
<1>4. Top(T) \in S => Top(T) < i
  BY <1>1
<1>5. Top(T) \in Int
  <2>1. Top(T) \in 0..Records - 1 \union {None}
    BY <1>2, TopIs
  <2> QED
    BY <1>0, <2>1 DEF None
<1>6. Top(T) \notin S
  BY <1>3, <1>4, <1>5
<1> QED
  BY <1>2, <1>3, <1>6

\* High is the highest of the indices, in this state and the next.
LEMMA HighIsTop ==
  \A stage : /\ High(stage) = Top(Indices(stage))
             /\ High(stage)' = Top(Indices(stage)')
BY DEF High, Top

\* The indices of a legible witness have a highest one.
LEMMA IndicesTopped ==
  ASSUME TypeOK, Legible, NEW stage \in Stages
  PROVE  Topped(Indices(stage))
<1>1. \A k \in Marked : witness[k] \in Marks
  BY DEF Marked, TypeOK
<1>2. Indices(stage) \subseteq 0..Records - 1
  BY <1>1 DEF Indices, Marks
<1> QED
  BY <1>2 DEF Legible, Topped

\* What the highest of a stage says of its marks.
LEMMA HighIs ==
  ASSUME TypeOK, Legible, NEW stage \in Stages
  PROVE  /\ High(stage) \in 0..Records - 1 \union {None}
         /\ \A k \in Marked : witness[k].stage = stage => witness[k].index <= High(stage)
         /\ Marked = {} => High(stage) = None
<1>1. Topped(Indices(stage)) /\ High(stage) = Top(Indices(stage))
  BY IndicesTopped, HighIsTop
<1>2. \A k \in Marked : witness[k].stage = stage => witness[k].index \in Indices(stage)
  BY DEF Indices
<1>3. Marked = {} => Indices(stage) = {}
  BY DEF Indices
<1> QED
  BY <1>1, <1>2, <1>3, TopIs
-----------------------------------------------------------------------------
(* What a write leaves of the witness                                      *)

\* A witness with one slot more.
LEMMA Appended ==
  ASSUME TypeOK, NEW slot \in Marks \union {Torn}, witness' = Append(witness, slot)
  PROVE  /\ witness' \in Seq(Marks \union {Torn}) /\ witness' # <<>>
         /\ Len(witness) \in Nat /\ Len(witness') = Len(witness) + 1
         /\ DOMAIN witness = 1..Len(witness) /\ DOMAIN witness' = 1..Len(witness) + 1
         /\ witness'[Len(witness) + 1] = slot
         /\ \A k \in 1..Len(witness) : witness'[k] = witness[k]
<1>1. witness \in Seq(Marks \union {Torn})
  BY DEF TypeOK
<1> QED
  BY <1>1

\* A mark is no torn slot.
LEMMA MarksAreWhole ==
  \A m \in Marks : /\ m # Torn
                   /\ m.stage \in Stages /\ m.index \in 0..Records - 1
                   /\ m.iteration \in 0..LastIteration
                   /\ m.index \in Int /\ m.iteration \in Int
<1>1. ASSUME NEW m \in Marks
      PROVE  /\ m.stage \in Stages /\ m.index \in 0..Records - 1
             /\ m.iteration \in 0..LastIteration
  BY <1>1 DEF Marks
<1>2. \A m \in Marks : m # Torn
  BY <1>1 DEF Stages, Torn
<1>3. \A x \in 0..Records - 1 : x \in Int
  BY Sizes
<1>4. \A x \in 0..LastIteration : x \in Int
  BY Sizes
<1> QED
  BY <1>1, <1>2, <1>3, <1>4

\* Two marks in this order are refused.
Clash(m, n) == m.iteration # n.iteration \/ (m.stage = n.stage /\ m.index >= n.index)
LEMMA UnreadableIs ==
  /\ Unreadable <=> \E j, k \in Marked : j < k /\ Clash(witness[j], witness[k])
  /\ Unreadable' <=> \E j, k \in Marked' : j < k /\ Clash(witness'[j], witness'[k])
BY DEF Unreadable, Clash

\* A mark above all of its stage, in a witness of this iteration.
LEMMA MarkWritten ==
  ASSUME TypeOK, Legible, Mine, UNCHANGED iteration,
         NEW stage \in Stages, NEW i \in 0..Records - 1, High(stage) < i,
         stage = "Dispatched" => i \in Schedules,
         witness' = Append(witness, Mark(stage, i))
  PROVE  /\ witness' \in Seq(Marks \union {Torn}) /\ Len(witness') = Len(witness) + 1
         /\ Legible' /\ Mine'
         /\ High(stage)' = i
         /\ \A other \in Stages : other # stage => High(other)' = High(other)
<1> DEFINE m == Mark(stage, i)
           last == Len(witness) + 1
<1>1. m \in Marks /\ m.stage = stage /\ m.index = i /\ m.iteration = iteration
  BY DEF Mark, Marks, TypeOK
<1>2. m # Torn
  BY <1>1, MarksAreWhole
<1> HIDE DEF m
<1>3. witness' = Append(witness, m)
  BY DEF m
<1>4. /\ witness' \in Seq(Marks \union {Torn}) /\ Len(witness') = Len(witness) + 1
      /\ Len(witness) \in Nat
      /\ DOMAIN witness = 1..Len(witness) /\ DOMAIN witness' = 1..last
      /\ witness'[last] = m /\ \A k \in 1..Len(witness) : witness'[k] = witness[k]
  BY <1>1, <1>3, Appended
<1> HIDE DEF last
<1>5. /\ Marked' = Marked \union {last}
      /\ \A k \in Marked : witness'[k] = witness[k] /\ k < last
  BY <1>2, <1>4 DEF Marked, last
<1>6. Mine'
  BY <1>1, <1>4, <1>5 DEF Mine
<1>7. /\ Indices(stage)' = Indices(stage) \union {i}
      /\ \A other \in Stages : other # stage => Indices(other)' = Indices(other)
  <2>1. \A other : Indices(other)' =
          {witness'[k].index : k \in {j \in Marked \union {last} : witness'[j].stage = other}}
    BY <1>5 DEF Indices
  <2>2. witness'[last].stage = stage /\ witness'[last].index = i
    BY <1>1, <1>4
  <2>3. \A other : Indices(other) =
          {witness[k].index : k \in {j \in Marked : witness[j].stage = other}}
    BY DEF Indices
  <2>4. ASSUME NEW other, NEW x
        PROVE  x \in Indices(other)' <=> x \in Indices(other) \/ (other = stage /\ x = i)
    <3>1. x \in Indices(other)' <=>
            \E k \in Marked \union {last} : witness'[k].stage = other /\ x = witness'[k].index
      BY <2>1
    <3>2. x \in Indices(other) <=>
            \E k \in Marked : witness[k].stage = other /\ x = witness[k].index
      BY <2>3
    <3> QED
      BY <1>5, <2>2, <3>1, <3>2
  <2>5. Indices(stage)' = Indices(stage) \union {i}
    BY <2>4
  <2>6. ASSUME NEW other, other # stage
        PROVE  Indices(other)' = Indices(other)
    <3>1. \A x : x \in Indices(other)' <=> x \in Indices(other)
      BY <2>4, <2>6
    <3>2. \A S, T : (\A x : x \in S <=> x \in T) => S = T
      OBVIOUS
    <3> QED
      BY <3>1, <3>2
  <2> QED
    BY <2>5, <2>6
<1>8. Topped(Indices(stage)') /\ High(stage)' = i
  BY <1>7, IndicesTopped, HighIsTop, TopGrows
<1>9. \A other \in Stages : other # stage => High(other)' = High(other)
  BY <1>7, HighIsTop
<1>10. Legible'
  <2>1. ~Unreadable'
    <3>1. ASSUME NEW j \in Marked', NEW k \in Marked', j < k
          PROVE  ~Clash(witness'[j], witness'[k])
      <4>1. j \in Marked
        BY <1>4, <1>5, <3>1 DEF Marked, last
      <4>2. CASE k \in Marked
        BY <1>5, <3>1, <4>1, <4>2, UnreadableIs DEF Legible
      <4>3. CASE k = last
        <5>1. witness[j] \in Marks
          BY <4>1 DEF Marked, TypeOK
        <5>2. witness[j].stage = stage => witness[j].index <= High(stage)
          BY <4>1, HighIs
        <5>3. High(stage) \in Int /\ witness[j].index \in Int
          BY <5>1, HighIs, MarksAreWhole, Sizes DEF None
        <5>4. ~Clash(witness[j], m)
          BY <1>1, <4>1, <5>2, <5>3, Sizes DEF Clash, Mine
        <5> QED
          BY <1>4, <1>5, <4>1, <4>3, <5>4
      <4> QED
        BY <1>5, <4>2, <4>3
    <3> QED
      BY <3>1, UnreadableIs
  <2>2. \A k \in Marked' : witness'[k].stage = "Dispatched" => witness'[k].index \in Schedules
    BY <1>1, <1>4, <1>5 DEF Legible
  <2>3. \A other \in Stages : Topped(Indices(other)')
    BY <1>7, <1>8, IndicesTopped
  <2> QED
    BY <2>1, <2>2, <2>3 DEF Legible, Topped
<1> QED
  BY <1>4, <1>6, <1>8, <1>9, <1>10

\* A torn mark says nothing.
LEMMA TearWritten ==
  ASSUME TypeOK, Legible, UNCHANGED iteration, witness' = Append(witness, Torn)
  PROVE  /\ witness' \in Seq(Marks \union {Torn}) /\ Len(witness') = Len(witness) + 1
         /\ Legible' /\ (Mine => Mine')
         /\ Marked' = Marked /\ \A k \in Marked : witness'[k] = witness[k]
         /\ \A stage \in Stages : High(stage)' = High(stage)
<1>1. /\ witness' \in Seq(Marks \union {Torn}) /\ Len(witness') = Len(witness) + 1
      /\ Len(witness) \in Nat
      /\ DOMAIN witness = 1..Len(witness) /\ DOMAIN witness' = 1..Len(witness) + 1
      /\ witness'[Len(witness) + 1] = Torn
      /\ \A k \in 1..Len(witness) : witness'[k] = witness[k]
  BY Appended
<1>2. Marked' = Marked /\ \A k \in Marked : witness'[k] = witness[k]
  BY <1>1 DEF Marked
<1>3. \A stage : Indices(stage)' = Indices(stage)
  BY <1>2 DEF Indices
<1>4. \A stage \in Stages : High(stage)' = High(stage)
  BY <1>3, HighIsTop
<1>5. ~Unreadable'
  BY <1>2, UnreadableIs DEF Legible
<1>6. /\ \A k \in Marked' : witness'[k].stage = "Dispatched" => witness'[k].index \in Schedules
      /\ \A stage \in Stages : Indices(stage)' # {} =>
           \E i \in Indices(stage)' : \A j \in Indices(stage)' : j <= i
  BY <1>2, <1>3 DEF Legible
<1>7. Legible'
  BY <1>5, <1>6 DEF Legible
<1> QED
  BY <1>1, <1>2, <1>4, <1>7 DEF Mine

\* A witness that is left alone says what it said.
LEMMA SameWitness ==
  ASSUME UNCHANGED witness
  PROVE  /\ Marked' = Marked /\ \A stage : High(stage)' = High(stage)
         /\ (Legible => Legible')
         /\ (UNCHANGED iteration /\ Mine) => Mine'
BY DEF Marked, High, Indices, Legible, Unreadable, Mine

\* A witness with nothing in it asks for nothing.
LEMMA NothingMarked ==
  ASSUME witness = <<>>
  PROVE  /\ Marked = {} /\ Mine /\ Legible
         /\ \A stage : High(stage) = None
BY DEF Marked, Mine, Legible, Unreadable, Indices, High
-----------------------------------------------------------------------------
(* Where a step leads                                                      *)

\* The bank as the type invariant has it.
Banks == [run : 0..LastIteration \union {None}, sealed : BOOLEAN,
          records : 0..Records, clean : BOOLEAN]

\* The steps of a run are none of preparing it.
LEMMA Apart ==
  \A op \in Stages \union {"Append", "Perform"} : \A i :
    /\ Step(op, i) # Over /\ Step(op, i).op = op /\ Step(op, i).index = i
    /\ \A k \in 1..4 : Step(op, i) # Prepare(k)
BY Preparations DEF Step, Over, Stages

\* Nor is either of them the end of a call.
LEMMA PreparationsApart ==
  /\ \A k \in 1..4 :
       /\ Prepare(k) # Over /\ Prepare(k).index = k
       /\ Prepare(k).op \notin Stages \union {"Append", "Perform", "Over"}
  /\ \A j, k \in 1..4 : Prepare(j) = Prepare(k) => j = k
  /\ Over.op \notin Stages \union {"Append", "Perform"}
BY Preparations DEF Step, Over, Stages

\* A step of an installed run, with the records and the marks it calls for.
LEMMA StandsAt ==
  ASSUME NEW op \in Stages \union {"Append", "Perform"}, NEW i \in 0..Records - 1,
         op \in {"Dispatched", "Perform"} => i \in Schedules,
         step' = Step(op, i), Installed',
         bank'.records = (IF op \in {"Attempted", "Append"} THEN i ELSE i + 1),
         op = "Append" => i <= High("Attempted")',
         op = "Perform" => i <= High("Dispatched")'
  PROVE  StepOK(step') /\ Placed'
<1>1. StepOK(step')
  BY DEF StepOK, Stages
<1>2. step' # Over /\ step'.op = op /\ step'.index = i /\ \A k \in 1..4 : step' # Prepare(k)
  BY Apart
<1>3. Preparing' /\ Stopped'
  BY <1>2 DEF Preparing, Stopped
<1>4. Writing'
  BY <1>2 DEF Writing, Index, Stages
<1> QED
  BY <1>1, <1>3, <1>4 DEF Placed

\* The run goes on with its next record, or is over.
LEMMA GoesOn ==
  ASSUME NEW n \in 0..Records, step' = From(n), Installed', bank'.records = n
  PROVE  StepOK(step') /\ Placed'
<1>1. CASE n < Records
  <2>1. step' = Step("Attempted", n) /\ n \in 0..Records - 1
    BY <1>1, Sizes DEF From
  <2> QED
    BY <2>1, StandsAt DEF Stages
<1>2. CASE ~(n < Records)
  <2>1. step' = Over
    BY <1>2 DEF From
  <2>2. StepOK(step')
    BY <2>1 DEF StepOK
  <2>3. Preparing' /\ Writing'
    BY <2>1, PreparationsApart DEF Preparing, Writing, Over, Step, Stages
  <2>4. Stopped'
    BY DEF Stopped, Installed
  <2> QED
    BY <2>2, <2>3, <2>4 DEF Placed
<1> QED
  BY <1>1, <1>2

\* A step that prepares the run.
LEMMA PreparesAt ==
  ASSUME NEW k \in 2..4, step' = Prepare(k), (witness = <<>>)',
         k = 2 => ~Own', k = 3 => bank' = NoBank, k = 4 => Own' /\ bank'.records = 0
  PROVE  StepOK(step') /\ Placed'
<1>0. k \in 1..4
  OBVIOUS
<1>1. StepOK(step')
  BY <1>0 DEF StepOK
<1>2. Mine'
  BY DEF Mine, Marked
<1>3. /\ step' # Over /\ step' # Prepare(1)
      /\ \A j \in 1..4 : step' = Prepare(j) => j = k
      /\ step'.op \notin Stages \union {"Append", "Perform"}
  BY <1>0, PreparationsApart
<1>4. Preparing'
  BY <1>2, <1>3 DEF Preparing
<1>5. Writing' /\ Stopped'
  BY <1>3 DEF Writing, Stopped, Stages
<1> QED
  BY <1>1, <1>4, <1>5 DEF Placed

\* The call is over.
LEMMA EndsAt ==
  ASSUME step' = Over, (Mine \/ Others)',
         (honest => Others \/ (witness = <<>> /\ (Own => bank.records = 0)) \/ Installed)'
  PROVE  StepOK(step') /\ Placed'
<1>1. StepOK(step')
  BY DEF StepOK
<1>2. Preparing' /\ Writing'
  BY PreparationsApart DEF Preparing, Writing, Over, Step, Stages
<1>3. Stopped'
  BY DEF Stopped
<1> QED
  BY <1>1, <1>2, <1>3 DEF Placed

\* A bank of this run means marks of this run.
LEMMA OwnIsMine ==
  ASSUME IInv, Own
  PROVE  Mine
<1>1. StepOK(step)
  BY DEF IInv, TypeOK
<1>2. CASE step = Over
  BY <1>2 DEF IInv, Placed, Stopped, Others
<1>3. CASE \E k \in 1..4 : step = Prepare(k)
  BY <1>3, Preparations DEF IInv, Placed, Preparing, Others
<1>4. CASE step.op \in Stages \union {"Append", "Perform"}
  BY <1>4 DEF IInv, Placed, Writing, Installed
<1>5. \A op, i : Step(op, i).op = op
  BY DEF Step
<1> QED
  BY <1>1, <1>2, <1>3, <1>4, <1>5 DEF StepOK, Stages
-----------------------------------------------------------------------------
(* Each step keeps the invariant                                           *)

LEMMA InitIInv == ASSUME Init PROVE IInv
<1>1. /\ iteration = 0 /\ step = Prepare(1) /\ power = "On" /\ witness = <<>> /\ bank = NoBank
      /\ honest = TRUE /\ claimed = None /\ performed = {}
  BY DEF Init
<1>2. Marked = {} /\ Mine /\ Legible /\ \A stage : High(stage) = None
  BY <1>1, NothingMarked
<1>3. bank.run = -1 /\ bank \in Banks
  BY <1>1, Sizes DEF NoBank, None, Banks
<1>4. TypeOK
  <2>1. StepOK(step)
    BY <1>1 DEF StepOK
  <2>2. witness \in Seq(Marks \union {Torn}) /\ Len(witness) <= Slots
    BY <1>1, Sizes
  <2> QED
    BY <1>1, <1>3, <2>1, <2>2, Sizes DEF TypeOK, Banks
<1>5. NotAhead
  BY <1>1, <1>2, <1>3 DEF NotAhead
<1>6. Placed
  <2>1. /\ step # Over /\ \A k \in 2..4 : step # Prepare(k)
        /\ step.op \notin Stages \union {"Append", "Perform"}
    BY <1>1, PreparationsApart
  <2>2. Others
    BY <1>1, <1>2, <1>3 DEF Others, Own
  <2> QED
    BY <2>1, <2>2 DEF Placed, Preparing, Writing, Stopped, Stages
<1>7. Backed
  BY <1>1, <1>2 DEF Backed, None
<1>8. Filled
  BY <1>1 DEF Filled
<1> QED
  BY <1>2, <1>4, <1>5, <1>6, <1>7, <1>8 DEF IInv

\* Preparing: the instrument first, and then the bank.
LEMMA EraseWitnessStep == ASSUME IInv, EraseWitness PROVE IInv'
<1>1. step = Prepare(1) /\ Index = 1
  BY Named, Preparations DEF IInv, TypeOK, EraseWitness, Doing, Index, Step
<1>2. /\ step' = Prepare(2) /\ witness' = <<>> /\ power' = "On"
      /\ UNCHANGED <<iteration, bank, honest, claimed, performed>>
  BY <1>1 DEF EraseWitness, Prepared, Goes, ghosts, Doing
<1>3. Others
  BY <1>1 DEF IInv, Placed, Preparing
<1>4. Marked' = {} /\ Legible' /\ High("Acknowledged")' = None
  BY <1>2 DEF Marked, Legible, Unreadable, Indices, High
<1>5. ~Own' /\ claimed' = None /\ performed' = {}
  BY <1>2, <1>3 DEF Others, Own
<1>6. StepOK(step') /\ Placed'
  BY <1>2, <1>5, PreparesAt
<1>7. TypeOK'
  BY <1>2, <1>6, Sizes DEF IInv, TypeOK
<1>8. NotAhead' /\ Backed' /\ Filled'
  BY <1>2, <1>4, <1>5 DEF IInv, NotAhead, Backed, Filled, None
<1> QED
  BY <1>4, <1>6, <1>7, <1>8 DEF IInv

\* What preparing the bank leaves alone, with nothing marked.
LEMMA BankPrepared ==
  ASSUME IInv, witness = <<>>, UNCHANGED <<iteration, witness, honest, claimed, performed>>,
         power' = "On", StepOK(step'), Placed', bank' \in Banks, bank'.run <= iteration
  PROVE  IInv'
<1>1. Legible' /\ Marked' = {} /\ \A stage : High(stage)' = High(stage)
  BY SameWitness, NothingMarked
<1>2. TypeOK'
  BY DEF IInv, TypeOK, Banks
<1>3. NotAhead' /\ Backed' /\ Filled'
  BY <1>1 DEF IInv, NotAhead, Backed, Filled
<1> QED
  BY <1>1, <1>2, <1>3 DEF IInv

LEMMA EraseBankStep == ASSUME IInv, EraseBank PROVE IInv'
<1>1. step = Prepare(2) /\ Index = 2
  BY Named, Preparations DEF IInv, TypeOK, EraseBank, Doing, Index, Step
<1>2. /\ step' = Prepare(3) /\ bank' = NoBank /\ power' = "On"
      /\ UNCHANGED <<iteration, witness, honest, claimed, performed>>
  BY <1>1 DEF EraseBank, Prepared, Goes, ghosts, Doing
<1>3. witness = <<>>
  BY <1>1 DEF IInv, Placed, Preparing
<1>4. StepOK(step') /\ Placed'
  BY <1>2, <1>3, PreparesAt
<1>5. bank' \in Banks /\ bank'.run <= iteration
  BY <1>2, Sizes DEF NoBank, None, Banks, IInv, TypeOK
<1> QED
  BY <1>2, <1>3, <1>4, <1>5, BankPrepared

LEMMA HeaderStep == ASSUME IInv, Header PROVE IInv'
<1>1. step = Prepare(3) /\ Index = 3
  BY Named, Preparations DEF IInv, TypeOK, Header, Doing, Index, Step
<1>2. /\ step' = Prepare(4) /\ bank' = [bank EXCEPT !.run = iteration] /\ power' = "On"
      /\ UNCHANGED <<iteration, witness, honest, claimed, performed>>
  BY <1>1 DEF Header, Prepared, Goes, ghosts, Doing
<1>3. witness = <<>> /\ bank = NoBank
  BY <1>1 DEF IInv, Placed, Preparing
<1>4. bank' = [run |-> iteration, sealed |-> FALSE, records |-> 0, clean |-> TRUE]
  BY <1>2, <1>3 DEF NoBank
<1>5. bank'.run = iteration /\ bank'.records = 0 /\ iteration \in Int
  BY <1>4, Sizes DEF IInv, TypeOK
<1>6. bank' \in Banks /\ bank'.run <= iteration /\ Own'
  BY <1>2, <1>4, <1>5, Sizes DEF Banks, Own, IInv, TypeOK
<1>7. StepOK(step') /\ Placed'
  BY <1>2, <1>3, <1>5, <1>6, PreparesAt
<1> QED
  BY <1>2, <1>3, <1>6, <1>7, BankPrepared

LEMMA SealStep == ASSUME IInv, Seal PROVE IInv'
<1>1. step = Prepare(4) /\ Index = 4
  BY Named, Preparations DEF IInv, TypeOK, Seal, Doing, Index, Step
<1>2. /\ step' = From(0) /\ bank' = [bank EXCEPT !.sealed = TRUE] /\ power' = "On"
      /\ UNCHANGED <<iteration, witness, honest, claimed, performed>>
  BY <1>1 DEF Seal, Prepared, Goes, ghosts, Doing
<1>3. witness = <<>> /\ Mine /\ Own /\ bank.records = 0 /\ bank \in Banks
  BY <1>1 DEF IInv, Placed, Preparing, TypeOK, Banks
<1>4. /\ bank' \in Banks /\ bank'.run = bank.run /\ bank'.sealed = TRUE /\ bank'.records = 0
  BY <1>2, <1>3 DEF Banks
<1>5. Installed'
  <2>1. Mine' /\ \A stage : High(stage)' = None
    BY <1>2, <1>3, SameWitness, NothingMarked
  <2> QED
    BY <1>2, <1>3, <1>4, <2>1 DEF Installed, Own, Counts, None
<1>6. StepOK(step') /\ Placed'
  BY <1>2, <1>4, <1>5, GoesOn, Sizes
<1>7. bank'.run <= iteration
  BY <1>4 DEF IInv, NotAhead
<1> QED
  BY <1>2, <1>3, <1>4, <1>6, <1>7, BankPrepared

\* What the highest of each stage can be.
LEMMA Highs ==
  ASSUME IInv, NEW stage \in Stages
  PROVE  High(stage) \in Int /\ High(stage) >= None
<1>1. High(stage) \in 0..Records - 1 \union {None}
  BY HighIs DEF IInv
<1> QED
  BY <1>1, Sizes DEF None

\* The run goes on from a mark that is there, whenever it was written.
LEMMA MarkGoes ==
  ASSUME IInv, NEW op \in Stages, step.op = op, NEW i, Index = i,
         step' = AfterMark, power' = "On", Claims,
         UNCHANGED <<iteration, bank, honest, performed>>,
         witness' \in Seq(Marks \union {Torn}), Len(witness') <= Slots, Legible', Mine',
         \A k \in Marked' : witness'[k].iteration <= iteration,
         High(op)' = (IF High(op) >= i THEN High(op) ELSE i),
         \A other \in Stages : other # op => High(other)' = High(other)
  PROVE  IInv'
<1> DEFINE A == High("Attempted")
           K == High("Acknowledged")
           D == High("Dispatched")
           n == bank.records
<1>1. /\ Installed /\ i \in 0..Records - 1 /\ i \in Int
      /\ op = "Attempted" => n = i
      /\ op \in {"Acknowledged", "Dispatched"} => n = i + 1
      /\ op = "Dispatched" => i \in Schedules
  BY Named, Sizes DEF IInv, TypeOK, Placed, Writing, Stages
<1>2. /\ "Attempted" \in Stages /\ "Acknowledged" \in Stages /\ "Dispatched" \in Stages
      /\ op \in {"Attempted", "Acknowledged", "Dispatched"}
  BY DEF Stages
<1>3. A \in Int /\ K \in Int /\ D \in Int /\ n \in Int
  <2>1. n \in Int
    BY Sizes DEF IInv, TypeOK
  <2> QED
    BY <1>2, <2>1, Highs
<1>4. K < n /\ D < n /\ n <= A + 1
  BY <1>1 DEF Installed, Counts
<1>5. /\ A' = IF op = "Attempted" /\ A < i THEN i ELSE A
      /\ K' = IF op = "Acknowledged" /\ K < i THEN i ELSE K
      /\ D' = IF op = "Dispatched" /\ D < i THEN i ELSE D
  <2>1. CASE op = "Attempted"
    <3>1. A' = IF A >= i THEN A ELSE i
      BY <2>1
    <3>2. K' = K /\ D' = D
      BY <1>2, <2>1
    <3> HIDE DEF A, K, D
    <3> QED
      BY <1>1, <1>3, <2>1, <3>1, <3>2
  <2>2. CASE op = "Acknowledged"
    <3>1. K' = IF K >= i THEN K ELSE i
      BY <2>2
    <3>2. A' = A /\ D' = D
      BY <1>2, <2>2
    <3> HIDE DEF A, K, D
    <3> QED
      BY <1>1, <1>3, <2>2, <3>1, <3>2
  <2>3. CASE op = "Dispatched"
    <3>1. D' = IF D >= i THEN D ELSE i
      BY <2>3
    <3>2. A' = A /\ K' = K
      BY <1>2, <2>3
    <3> HIDE DEF A, K, D
    <3> QED
      BY <1>1, <1>3, <2>3, <3>1, <3>2
  <2> QED
    BY <1>2, <2>1, <2>2, <2>3
<1>6. /\ A' >= A /\ K' >= K /\ D' >= D /\ K' < n /\ D' < n /\ n <= A' + 1
      /\ op = "Attempted" => i <= A'
      /\ op = "Acknowledged" => i <= K'
      /\ op = "Dispatched" => i <= D'
      /\ A' \in Int /\ K' \in Int /\ D' \in Int
  <2> HIDE DEF A, K, D, n
  <2> QED
    BY <1>1, <1>3, <1>4, <1>5
<1>7. Installed' /\ bank' = bank
  BY <1>1, <1>6 DEF Installed, Own, Counts
<1>8. StepOK(step') /\ Placed'
  <2>1. CASE op = "Attempted"
    <3>1. step' = Step("Append", i)
      BY <2>1 DEF AfterMark
    <3> QED
      BY <1>1, <1>6, <1>7, <2>1, <3>1, StandsAt
  <2>2. CASE op = "Dispatched"
    <3>1. step' = Step("Perform", i)
      BY <2>2 DEF AfterMark
    <3> QED
      BY <1>1, <1>6, <1>7, <2>2, <3>1, StandsAt
  <2>3. CASE op = "Acknowledged" /\ i \in Schedules
    <3>1. step' = Step("Dispatched", i)
      BY <2>3 DEF AfterMark, Deliver
    <3> QED
      BY <1>1, <1>2, <1>7, <2>3, <3>1, StandsAt
  <2>4. CASE op = "Acknowledged" /\ i \notin Schedules
    <3>1. step' = From(i + 1)
      BY <2>4 DEF AfterMark
    <3>2. i + 1 \in 0..Records
      BY <1>1, Sizes
    <3> QED
      BY <1>1, <1>7, <2>4, <3>1, <3>2, GoesOn
  <2> QED
    BY <1>2, <2>1, <2>2, <2>3, <2>4
<1>9. TypeOK'
  <2>1. claimed' \in 0..Records - 1 \union {None}
    BY <1>1 DEF Claims, IInv, TypeOK
  <2> QED
    BY <1>8, <2>1 DEF IInv, TypeOK
<1>10. Backed'
  <2>1. claimed \in Int /\ claimed <= K /\ \A j \in performed : j \in Int /\ j <= D
    BY Sizes DEF IInv, TypeOK, Backed, None
  <2>2. claimed' = IF op = "Acknowledged" THEN i ELSE claimed
    BY DEF Claims
  <2>3. claimed' <= K' /\ \A j \in performed : j <= D'
    <3> HIDE DEF K, D, A, n
    <3> QED
      BY <1>1, <1>3, <1>6, <2>1, <2>2
  <2> QED
    BY <2>3 DEF Backed
<1>11. NotAhead' /\ Filled'
  BY DEF IInv, NotAhead, Filled
<1> QED
  BY <1>8, <1>9, <1>10, <1>11 DEF IInv

LEMMA MarkStepStep == ASSUME IInv, MarkStep PROVE IInv'
<1> DEFINE op == step.op
<1>1. op \in Stages /\ power = "On" /\ UNCHANGED <<bank, honest, performed>>
  BY DEF MarkStep, Doing
<1>2. PICK i : i = Index
  OBVIOUS
<1>3. PICK stage \in Stages : stage = op
  BY <1>1
<1>4. /\ Mine /\ Legible /\ TypeOK /\ i \in 0..Records - 1
      /\ stage = "Dispatched" => i \in Schedules
      /\ High(stage) \in Int /\ i \in Int /\ iteration \in Int /\ Len(witness) \in Nat
  <2>1. /\ Mine /\ Legible /\ TypeOK /\ i \in 0..Records - 1
        /\ stage = "Dispatched" => i \in Schedules
    BY <1>1, <1>2, <1>3, Named DEF IInv, TypeOK, Placed, Writing, Installed, Stages
  <2>2. i \in Int /\ iteration \in Int /\ Len(witness) \in Nat
    BY <2>1, Sizes DEF TypeOK
  <2> QED
    BY <2>1, <2>2, Highs
<1>5. CASE High(stage) >= i /\ Goes(AfterMark) /\ UNCHANGED witness /\ Claims
  <2>1. UNCHANGED <<iteration, power>> /\ step' = AfterMark
    BY <1>5 DEF Goes
  <2>2. Mine' /\ Legible' /\ Marked' = Marked /\ \A s : High(s)' = High(s)
    BY <1>4, <1>5, <2>1, SameWitness
  <2>3. \A k \in Marked' : witness'[k].iteration <= iteration
    BY <1>5, <2>2 DEF IInv, NotAhead
  <2>4. High(stage)' = IF High(stage) >= i THEN High(stage) ELSE i
    BY <1>5, <2>2
  <2>5. witness' \in Seq(Marks \union {Torn}) /\ Len(witness') <= Slots
    BY <1>4, <1>5 DEF TypeOK
  <2> QED
    BY <1>1, <1>2, <1>3, <1>4, <1>5, <2>1, <2>2, <2>3, <2>4, <2>5, MarkGoes
<1>6. CASE /\ High(stage) < i /\ Len(witness) < Slots
           /\ Goes(AfterMark) /\ witness' = Append(witness, Mark(stage, i)) /\ Claims
  <2>1. UNCHANGED <<iteration, power>> /\ step' = AfterMark
    BY <1>6 DEF Goes
  <2>2. /\ witness' \in Seq(Marks \union {Torn}) /\ Len(witness') = Len(witness) + 1
        /\ Legible' /\ Mine' /\ High(stage)' = i
        /\ \A other \in Stages : other # stage => High(other)' = High(other)
    BY <1>4, <1>6, <2>1, MarkWritten
  <2>3. \A k \in Marked' : witness'[k].iteration <= iteration
    BY <1>4, <2>1, <2>2 DEF Mine
  <2>4. Len(witness') <= Slots
    BY <1>4, <1>6, <2>2, Sizes
  <2>5. High(stage)' = IF High(stage) >= i THEN High(stage) ELSE i
    BY <1>4, <1>6, <2>2
  <2> QED
    BY <1>1, <1>2, <1>3, <1>6, <2>1, <2>2, <2>3, <2>4, <2>5, MarkGoes
<1>7. CASE /\ High(stage) < i /\ Len(witness) = Slots /\ power' = "Full"
           /\ UNCHANGED <<iteration, step, witness, claimed>>
  <2>1. Legible' /\ Marked' = Marked /\ \A s : High(s)' = High(s)
    BY <1>4, <1>7, SameWitness
  <2>2. TypeOK'
    BY <1>1, <1>7 DEF IInv, TypeOK
  <2>3. NotAhead' /\ Backed'
    BY <1>1, <1>7, <2>1 DEF IInv, NotAhead, Backed
  <2>4. Filled'
    <3>1. step' = Step(stage, i)
      BY <1>2, <1>3, <1>7, Named DEF IInv, TypeOK, Stages
    <3>2. High(stage)' < i
      BY <1>7, <2>1
    <3> QED
      BY <1>4, <1>7, <3>1, <3>2 DEF Filled
  <2>5. Mine' <=> Mine
    BY <1>7, <2>1 DEF Mine
  <2>6. Placed'
    <3>1. (Installed <=> Installed') /\ (Own <=> Own')
      BY <1>1, <1>7, <2>1, <2>5 DEF Installed, Own, Counts
    <3>2. step # Over /\ \A k \in 1..4 : step # Prepare(k)
      BY <1>1, PreparationsApart
    <3>3. Preparing' /\ Stopped'
      BY <1>7, <3>2 DEF Preparing, Stopped
    <3>4. Writing'
      BY <1>1, <1>7, <2>1, <3>1 DEF IInv, Placed, Writing, Index
    <3> QED
      BY <3>3, <3>4 DEF Placed
  <2> QED
    BY <2>1, <2>2, <2>3, <2>4, <2>6 DEF IInv
<1> QED
  <2>1. Mark(step.op, Index) = Mark(stage, i) /\ Mark(stage, i).stage = stage
    BY <1>2, <1>3 DEF Mark
  <2> HIDE DEF op
  <2>2. \/ /\ High(stage) >= i
           /\ Goes(AfterMark) /\ UNCHANGED witness /\ Claims
        \/ /\ High(stage) < i /\ Len(witness) < Slots
           /\ Goes(AfterMark) /\ witness' = Append(witness, Mark(stage, i)) /\ Claims
        \/ /\ High(stage) < i /\ Len(witness) = Slots
           /\ power' = "Full"
           /\ UNCHANGED <<iteration, step, witness, claimed>>
    BY <1>2, <2>1 DEF MarkStep
  <2> QED
    BY <1>5, <1>6, <1>7, <2>2

\* A record is appended: it was attempted.
LEMMA AppendStepStep == ASSUME IInv, AppendStep PROVE IInv'
<1>1. PICK i \in 0..Records - 1 : i = Index /\ step = Step("Append", i)
  BY Named DEF IInv, TypeOK, AppendStep, Doing
<1>2. /\ step.op = "Append" /\ Installed /\ bank.records = i /\ i <= High("Attempted")
      /\ i \in Int /\ bank \in Banks
  BY <1>1, Sizes DEF IInv, Placed, Writing, AppendStep, Doing, TypeOK, Banks
<1>3. /\ step' = Step("Acknowledged", i) /\ bank' = [bank EXCEPT !.records = i + 1]
      /\ power' = "On" /\ UNCHANGED <<iteration, witness, honest, claimed, performed>>
  BY <1>1 DEF AppendStep, Goes, ghosts, Doing
<1>4. /\ bank' \in Banks /\ bank'.records = i + 1
      /\ bank'.run = bank.run /\ bank'.sealed = bank.sealed
  <2>1. i + 1 \in 0..Records
    BY <1>1, Sizes
  <2> QED
    BY <1>2, <1>3, <2>1 DEF Banks
<1>5. Marked' = Marked /\ Mine' /\ Legible' /\ \A stage : High(stage)' = High(stage)
  BY <1>2, <1>3, SameWitness DEF IInv, Installed
<1>6. Installed'
  <2>1. /\ High("Acknowledged") < i /\ High("Dispatched") < i /\ i <= High("Attempted")
        /\ High("Acknowledged") \in Int /\ High("Dispatched") \in Int /\ High("Attempted") \in Int
    BY <1>2, Highs DEF Installed, Counts, Stages
  <2>2. Counts(i + 1)
    BY <1>2, <2>1 DEF Counts
  <2> QED
    BY <1>2, <1>3, <1>4, <1>5, <2>2 DEF Installed, Own, Counts
<1>7. StepOK(step') /\ Placed'
  BY <1>3, <1>4, <1>6, StandsAt DEF Stages
<1>8. TypeOK'
  BY <1>3, <1>4, <1>7 DEF IInv, TypeOK, Banks
<1>9. NotAhead' /\ Backed' /\ Filled'
  BY <1>3, <1>4, <1>5 DEF IInv, NotAhead, Backed, Filled
<1> QED
  BY <1>5, <1>7, <1>8, <1>9 DEF IInv

\* An effect is performed: it was declared.
LEMMA PerformStep == ASSUME IInv, Perform PROVE IInv'
<1>1. PICK i \in 0..Records - 1 : i = Index /\ step = Step("Perform", i) /\ i \in Schedules
  BY Named DEF IInv, TypeOK, Perform, Doing
<1>2. step.op = "Perform" /\ Installed /\ bank.records = i + 1 /\ i <= High("Dispatched")
  BY <1>1 DEF IInv, Placed, Writing, Perform, Doing
<1>3. /\ step' = From(i + 1) /\ performed' = performed \union {i}
      /\ power' = "On" /\ UNCHANGED <<iteration, witness, bank, honest, claimed>>
  BY <1>1 DEF Perform, Goes, media, Doing
<1>4. Marked' = Marked /\ Mine' /\ Legible' /\ \A stage : High(stage)' = High(stage)
  BY <1>2, <1>3, SameWitness DEF IInv, Installed
<1>5. Installed'
  BY <1>2, <1>3, <1>4 DEF Installed, Own, Counts
<1>6. StepOK(step') /\ Placed'
  <2>1. i + 1 \in 0..Records
    BY <1>1, Sizes
  <2> QED
    BY <1>2, <1>3, <1>5, <2>1, GoesOn
<1>7. TypeOK'
  BY <1>1, <1>3, <1>6 DEF IInv, TypeOK
<1>8. NotAhead' /\ Backed' /\ Filled'
  BY <1>2, <1>3, <1>4 DEF IInv, NotAhead, Backed, Filled
<1> QED
  BY <1>4, <1>6, <1>7, <1>8 DEF IInv

\* What a cut leaves of the witness says what the witness said.
LEMMA WitnessCut ==
  ASSUME IInv, witness' \in WitnessLeft, UNCHANGED iteration
  PROVE  /\ witness' \in Seq(Marks \union {Torn}) /\ Len(witness') <= Slots
         /\ Legible' /\ (Mine => Mine')
         /\ Marked' = Marked /\ \A k \in Marked : witness'[k] = witness[k]
         /\ \A stage \in Stages : High(stage)' = High(stage)
         /\ step.op \notin Stages => witness' = witness
<1>1. TypeOK /\ Legible /\ Len(witness) \in Nat
  BY DEF IInv, TypeOK
<1>2. CASE witness' = witness
  BY <1>1, <1>2, SameWitness DEF TypeOK
<1>3. CASE witness' = Append(witness, Torn) /\ Len(witness) < Slots /\ step.op \in Stages
  <2>1. /\ witness' \in Seq(Marks \union {Torn}) /\ Len(witness') = Len(witness) + 1
        /\ Legible' /\ (Mine => Mine')
        /\ Marked' = Marked /\ \A k \in Marked : witness'[k] = witness[k]
        /\ \A stage \in Stages : High(stage)' = High(stage)
    BY <1>1, <1>3, TearWritten
  <2>2. Len(witness') <= Slots
    BY <1>1, <1>3, <2>1, Sizes
  <2> QED
    BY <1>3, <2>1, <2>2
<1> QED
  BY <1>2, <1>3 DEF WitnessLeft

\* What a cut leaves of the bank.
LEMMA BankCut ==
  ASSUME IInv, bank' \in BankLeft
  PROVE  /\ bank' \in Banks /\ bank'.run <= iteration
         /\ \/ bank' = bank
            \/ step.op = "EraseBank" /\ bank' = NoBank
            \/ /\ step.op = "Append" /\ bank'.run = bank.run
               /\ bank'.sealed = bank.sealed /\ bank'.records = bank.records
<1>1. bank \in Banks /\ bank.run <= iteration /\ iteration \in Nat
  BY Sizes DEF IInv, TypeOK, Banks, NotAhead
<1>2. CASE bank' = bank
  BY <1>1, <1>2
<1>3. CASE step.op = "EraseBank" /\ bank' = NoBank
  BY <1>1, <1>3, Sizes DEF NoBank, None, Banks
<1>4. CASE step.op = "Append" /\ bank' = [bank EXCEPT !.clean = FALSE]
  BY <1>1, <1>4 DEF Banks
<1> QED
  BY <1>2, <1>3, <1>4 DEF BankLeft

\* The power goes, anywhere.
LEMMA CutStep == ASSUME IInv, Cut PROVE IInv'
<1>1. /\ step' = Over /\ power' = "Off" /\ bank' \in BankLeft /\ witness' \in WitnessLeft
      /\ UNCHANGED <<iteration, honest, claimed, performed>>
  BY DEF Cut, ghosts
<1>2. /\ witness' \in Seq(Marks \union {Torn}) /\ Len(witness') <= Slots
      /\ Legible' /\ (Mine => Mine')
      /\ Marked' = Marked /\ \A k \in Marked : witness'[k] = witness[k]
      /\ \A stage \in Stages : High(stage)' = High(stage)
      /\ step.op \notin Stages => witness' = witness
  BY <1>1, WitnessCut
<1>3. /\ bank' \in Banks /\ bank'.run <= iteration
      /\ \/ bank' = bank
         \/ step.op = "EraseBank" /\ bank' = NoBank
         \/ /\ step.op = "Append" /\ bank'.run = bank.run
            /\ bank'.sealed = bank.sealed /\ bank'.records = bank.records
  BY <1>1, BankCut
<1>4. "Attempted" \in Stages /\ "Acknowledged" \in Stages /\ "Dispatched" \in Stages
  BY DEF Stages
<1>5. StepOK(step') /\ Placed'
  <2>1. CASE step.op \in Stages \union {"Append", "Perform"}
    <3>1. Installed
      BY <2>1 DEF IInv, Placed, Writing
    <3>2. bank'.run = bank.run /\ bank'.sealed = bank.sealed /\ bank'.records = bank.records
      BY <1>3, <2>1 DEF Stages
    <3>3. Installed'
      BY <1>1, <1>2, <1>4, <3>1, <3>2 DEF Installed, Own, Counts
    <3> QED
      BY <1>1, <3>3, EndsAt DEF Installed
  <2>2. CASE step = Over
    <3>1. witness' = witness /\ bank' = bank
      BY <1>2, <1>3, <2>2, PreparationsApart DEF Over, Step, Stages
    <3>2. (Mine <=> Mine') /\ (Others <=> Others') /\ (Own <=> Own') /\ (Installed <=> Installed')
      BY <1>1, <1>2, <1>4, <3>1 DEF Mine, Others, Own, Installed, Counts
    <3>3. /\ Mine \/ Others
          /\ honest => Others \/ (witness = <<>> /\ (Own => bank.records = 0)) \/ Installed
      BY <2>2 DEF IInv, Placed, Stopped
    <3>4. (Mine \/ Others)'
      BY <3>2, <3>3
    <3>5. (honest => Others \/ (witness = <<>> /\ (Own => bank.records = 0)) \/ Installed)'
      BY <1>1, <3>1, <3>2, <3>3
    <3> QED
      BY <1>1, <3>4, <3>5, EndsAt
  <2>3. CASE step = Prepare(1)
    <3>1. Others /\ witness' = witness /\ bank' = bank
      BY <1>2, <1>3, <2>3, Preparations DEF IInv, Placed, Preparing, Step, Stages
    <3>2. Others'
      BY <1>1, <1>2, <3>1 DEF Others, Own
    <3> QED
      BY <1>1, <3>2, EndsAt
  <2>4. CASE step \in {Prepare(2), Prepare(3), Prepare(4)}
    <3>1. step.op \notin Stages /\ step.op # "Append"
      BY <2>4, Preparations DEF Step, Stages
    <3>2. witness = <<>> /\ Mine /\ witness' = witness
      BY <1>2, <2>4, <3>1 DEF IInv, Placed, Preparing
    <3>3. Own' => bank'.records = 0
      <4>1. CASE bank' = NoBank
        BY <4>1 DEF NoBank
      <4>2. CASE bank' = bank
        <5>1. CASE step = Prepare(2)
          BY <1>1, <4>2, <5>1 DEF IInv, Placed, Preparing, Own
        <5>2. CASE step = Prepare(3)
          BY <4>2, <5>2 DEF IInv, Placed, Preparing, NoBank
        <5>3. CASE step = Prepare(4)
          BY <4>2, <5>3 DEF IInv, Placed, Preparing
        <5> QED
          BY <2>4, <5>1, <5>2, <5>3
      <4> QED
        BY <1>3, <3>1, <4>1, <4>2
    <3>4. Mine' /\ witness' = <<>>
      BY <1>2, <3>2
    <3> QED
      BY <1>1, <3>3, <3>4, EndsAt
  <2>5. \A o, i : Step(o, i).op = o
    BY DEF Step
  <2>6. StepOK(step)
    BY DEF IInv, TypeOK
  <2> QED
    BY <2>1, <2>2, <2>3, <2>4, <2>5, <2>6, Preparations DEF StepOK, Stages
<1>6. TypeOK'
  BY <1>1, <1>2, <1>3, <1>5 DEF IInv, TypeOK, Banks
<1>7. NotAhead' /\ Backed' /\ Filled'
  BY <1>1, <1>2, <1>3, <1>4 DEF IInv, NotAhead, Backed, Filled
<1> QED
  BY <1>2, <1>5, <1>6, <1>7 DEF IInv

\* The part loses records: the marks are this run's, as its bank was.
LEMMA LosesStep == ASSUME IInv, Loses PROVE IInv'
<1>1. /\ step' = Over /\ power' = "Off" /\ honest' = FALSE
      /\ UNCHANGED <<iteration, witness, claimed, performed>>
  BY DEF Loses
<1>2. Marked' = Marked /\ Mine' /\ Legible' /\ \A stage : High(stage)' = High(stage)
  BY <1>1, OwnIsMine, SameWitness DEF IInv, Loses
<1>3. bank \in Banks /\ bank.run <= iteration /\ iteration \in Nat
  BY Sizes DEF IInv, TypeOK, NotAhead, Banks
<1>4. bank' \in Banks /\ bank'.run <= iteration
  <2>1. CASE bank' = NoBank
    BY <1>3, <2>1, Sizes DEF NoBank, None, Banks
  <2>2. ASSUME NEW n \in 0..bank.records - 1, bank' = [bank EXCEPT !.records = n]
        PROVE  bank' \in Banks /\ bank'.run <= iteration
    <3>1. n \in 0..Records
      BY <1>3, <2>2, Sizes DEF Banks
    <3> QED
      BY <1>3, <2>2, <3>1 DEF Banks
  <2> QED
    BY <2>1, <2>2 DEF Loses
<1>5. StepOK(step') /\ Placed'
  BY <1>1, <1>2, EndsAt
<1>6. TypeOK'
  BY <1>1, <1>4, <1>5 DEF IInv, TypeOK, Banks
<1>7. NotAhead' /\ Backed' /\ Filled'
  BY <1>1, <1>2, <1>4 DEF IInv, NotAhead, Backed, Filled
<1> QED
  BY <1>2, <1>5, <1>6, <1>7 DEF IInv

\* The run is resumed: the verdict is what says that its bank stands with
\* its marks, for a part that may have lost anything.
LEMMA ResumeStep == ASSUME IInv, Resume PROVE IInv'
<1> DEFINE n == bank.records
<1>1. /\ power' = "On" /\ Own /\ bank.sealed /\ Passed /\ Recovered = n
      /\ step' = (IF n - 1 \in Schedules THEN Step("Dispatched", n - 1) ELSE From(n))
      /\ UNCHANGED <<iteration, witness, bank, honest, claimed, performed>>
  BY DEF Resume, Resumable, Recovered, Deliver, media, ghosts
<1>2. Mine /\ ~Foreign
  BY <1>1, OwnIsMine DEF Mine, Foreign
<1>3. n \in Int /\ n \in 0..Records
  BY Sizes DEF IInv, TypeOK
<1>4. Counts(n)
  <2>1. ~(n > High("Attempted") + 1) /\ ~(n <= High("Acknowledged")) /\ ~(n <= High("Dispatched"))
    BY <1>1, <1>2 DEF Passed, Breached, RecoveredPast, Lost, Undeclared
  <2>2. High("Acknowledged") \in Int /\ High("Dispatched") \in Int /\ High("Attempted") \in Int
    BY Highs DEF Stages
  <2> QED
    BY <1>3, <2>1, <2>2 DEF Counts
<1>5. Marked' = Marked /\ Mine' /\ Legible' /\ \A stage : High(stage)' = High(stage)
  BY <1>1, <1>2, SameWitness DEF IInv
<1>6. Installed'
  BY <1>1, <1>4, <1>5 DEF Installed, Own, Counts
<1>7. StepOK(step') /\ Placed'
  <2>1. CASE n - 1 \in Schedules
    <3>1. n - 1 \in 0..Records - 1 /\ n = n - 1 + 1
      BY <1>3, <2>1, Sizes
    <3>2. step' = Step("Dispatched", n - 1) /\ bank'.records = n - 1 + 1
      BY <1>1, <2>1, <3>1
    <3> QED
      BY <1>6, <2>1, <3>1, <3>2, StandsAt DEF Stages
  <2>2. CASE n - 1 \notin Schedules
    BY <1>1, <1>3, <1>6, <2>2, GoesOn
  <2> QED
    BY <2>1, <2>2
<1>8. TypeOK'
  BY <1>1, <1>7 DEF IInv, TypeOK
<1>9. NotAhead' /\ Backed' /\ Filled'
  BY <1>1, <1>5 DEF IInv, NotAhead, Backed, Filled
<1> QED
  BY <1>5, <1>7, <1>8, <1>9 DEF IInv

\* The next iteration finds an earlier one's bank and marks.
LEMMA NextIterationStep == ASSUME IInv, NextIteration PROVE IInv'
<1>1. /\ iteration' = iteration + 1 /\ iteration < LastIteration /\ power' = "On"
      /\ step' = Prepare(1) /\ claimed' = None /\ performed' = {} /\ honest' = TRUE
      /\ UNCHANGED <<witness, bank>>
  BY DEF NextIteration, media
<1>2. Legible' /\ Marked' = Marked /\ \A stage : High(stage)' = High(stage)
  BY <1>1, SameWitness DEF IInv
<1>3. /\ iteration \in Nat /\ iteration' \in 0..LastIteration
      /\ bank.run \in Int /\ bank.run <= iteration
  BY <1>1, Sizes DEF IInv, TypeOK, NotAhead, None
<1>4. \A k \in Marked : witness[k].iteration \in Int /\ witness[k].iteration <= iteration
  <2>1. \A k \in Marked : witness[k] \in Marks
    BY DEF IInv, TypeOK, Marked
  <2> QED
    BY <2>1, MarksAreWhole DEF IInv, NotAhead
<1>5. Others'
  <2>1. ~Own'
    BY <1>1, <1>3 DEF Own
  <2>2. \A k \in Marked' : witness'[k].iteration # iteration'
    BY <1>1, <1>2, <1>3, <1>4
  <2> QED
    BY <1>1, <2>1, <2>2 DEF Others
<1>6. StepOK(step') /\ Placed'
  <2>1. /\ step' # Over /\ step' # Prepare(2) /\ step' # Prepare(3) /\ step' # Prepare(4)
        /\ step'.op \notin Stages \union {"Append", "Perform"}
    BY <1>1, PreparationsApart
  <2>2. StepOK(step')
    BY <1>1 DEF StepOK
  <2> QED
    BY <1>5, <2>1, <2>2 DEF Placed, Preparing, Writing, Stopped, Stages
<1>7. TypeOK'
  BY <1>1, <1>3, <1>6 DEF IInv, TypeOK
<1>8. NotAhead'
  <2>1. \A k \in Marked' : witness'[k].iteration <= iteration'
    BY <1>1, <1>2, <1>3, <1>4
  <2> QED
    BY <1>1, <1>3, <2>1 DEF NotAhead
<1>9. Backed' /\ Filled'
  BY <1>1, <1>2, Highs DEF Backed, Filled, Stages
<1> QED
  BY <1>2, <1>6, <1>7, <1>8, <1>9 DEF IInv

\* Nothing happens.
LEMMA StutterStep == ASSUME IInv, UNCHANGED vars PROVE IInv'
<1>1. UNCHANGED <<iteration, step, power, witness, bank, honest, claimed, performed>>
  BY DEF vars, media, ghosts
<1>2. Legible' /\ Marked' = Marked /\ \A stage : High(stage)' = High(stage)
  BY <1>1, SameWitness DEF IInv
<1>3. (Mine <=> Mine') /\ (Others <=> Others') /\ (Own <=> Own')
  BY <1>1, <1>2 DEF Mine, Others, Own
<1>4. Installed <=> Installed'
  BY <1>1, <1>2, <1>3 DEF Installed, Counts
<1>5. Preparing' /\ Stopped'
  BY <1>1, <1>3, <1>4 DEF IInv, Placed, Preparing, Stopped
<1>6. Writing'
  BY <1>1, <1>2, <1>4 DEF IInv, Placed, Writing, Index
<1>7. TypeOK' /\ NotAhead' /\ Backed' /\ Filled'
  BY <1>1, <1>2 DEF IInv, TypeOK, NotAhead, Backed, Filled
<1> QED
  BY <1>2, <1>5, <1>6, <1>7 DEF IInv, Placed
-----------------------------------------------------------------------------
(* What the rig keeps                                                      *)

LEMMA StepIInv == ASSUME IInv, [Next]_vars PROVE IInv'
BY EraseWitnessStep, EraseBankStep, HeaderStep, SealStep, MarkStepStep, AppendStepStep,
   PerformStep, CutStep, LosesStep, ResumeStep, NextIterationStep, StutterStep DEF Next

\* Where the rig stands, its media stand with its marks, after any number of
\* cuts, resumes and lost records.
THEOREM Invariant == Spec => []IInv
<1>1. Init => IInv
  BY InitIInv
<1>2. IInv /\ [Next]_vars => IInv'
  BY StepIInv
<1> QED
  BY <1>1, <1>2, PTL DEF Spec

\* The types of the rig's variables (run.rs, witness.rs).
THEOREM Typing == Spec => []TypeOK
<1>1. IInv => TypeOK
  BY DEF IInv
<1> QED
  BY <1>1, Invariant, PTL

\* A part that kept every record it acknowledged is never reported for a
\* violation (run.rs, judge).
THEOREM HealthyIsNeverAccused == Spec => []NeverAccused
<1>1. ASSUME IInv, step = Over, honest, ~StaleTear
      PROVE  Passed
  <2>1. \A stage \in Stages : High(stage) \in Int
    BY <1>1, Highs
  <2>2. "Attempted" \in Stages /\ "Acknowledged" \in Stages /\ "Dispatched" \in Stages
    BY DEF Stages
  <2>3. ~Unreadable
    BY <1>1 DEF IInv, Legible
  <2>4. bank.records \in Int
    BY <1>1, Sizes DEF IInv, TypeOK
  <2>5. CASE witness = <<>> /\ (Own => bank.records = 0)
    <3>1. Marked = {} /\ \A stage : High(stage) = None
      BY <2>5, NothingMarked
    <3>2. Recovered = 0
      BY <2>5 DEF Recovered
    <3>3. ~Began /\ ~Foreign
      BY <2>5, <3>1 DEF Began, Foreign
    <3>4. ~RecoveredPast /\ ~Lost /\ ~Undeclared
      BY <3>1, <3>2 DEF RecoveredPast, Lost, Undeclared, None
    <3> QED
      BY <2>3, <3>3, <3>4 DEF Passed, Breached, Unauthorised
  <2>6. CASE Others
    <3>1. CASE Marked = {}
      <4>1. witness = <<>>
        BY <1>1, <2>6, <3>1 DEF StaleTear, Began, Others
      <4> QED
        BY <2>5, <2>6, <4>1 DEF Others
    <3>2. CASE Marked # {}
      <4>1. Foreign
        BY <2>6, <3>2 DEF Others, Foreign
      <4> QED
        BY <2>3, <2>6, <4>1 DEF Others, Passed, Breached
    <3> QED
      BY <3>1, <3>2
  <2>7. CASE Installed
    <3>1. Recovered = bank.records /\ ~Foreign /\ Own /\ bank.sealed
      BY <2>7 DEF Installed, Recovered, Mine, Foreign
    <3>2. Counts(Recovered)
      BY <2>7, <3>1 DEF Installed
    <3>3. ~RecoveredPast /\ ~Lost /\ ~Undeclared
      BY <2>1, <2>2, <2>4, <3>1, <3>2 DEF Counts, RecoveredPast, Lost, Undeclared
    <3> QED
      BY <2>3, <3>1, <3>3 DEF Passed, Breached, Unauthorised
  <2> QED
    BY <1>1, <2>5, <2>6, <2>7 DEF IInv, Placed, Stopped
<1>2. IInv => NeverAccused
  BY <1>1 DEF NeverAccused, Judged
<1> QED
  BY <1>2, Invariant, PTL

\* A part that lost a record whose acknowledgement was marked, or the schedule
\* of an effect the world has seen, never passes (audit.rs, finish).
THEOREM LossIsNeverExcused == Spec => []NeverExcused
<1>1. ASSUME IInv, step = Over, Passed
      PROVE  claimed < Recovered /\ \A i \in performed : i < Recovered
  <2>1. Recovered \in Nat
    BY <1>1, Sizes DEF IInv, TypeOK, Recovered
  <2>2. CASE Others
    BY <2>1, <2>2 DEF Others, None
  <2>3. CASE Mine
    <3>1. ~(Recovered <= High("Acknowledged")) /\ ~(Recovered <= High("Dispatched"))
      BY <1>1, <2>3 DEF Mine, Foreign, Passed, Breached, Lost, Undeclared
    <3>2. claimed <= High("Acknowledged") /\ \A i \in performed : i <= High("Dispatched")
      BY <1>1 DEF IInv, Backed
    <3>3. /\ High("Acknowledged") \in Int /\ High("Dispatched") \in Int
          /\ claimed \in Int /\ \A i \in performed : i \in Int
      <4>1. High("Acknowledged") \in Int /\ High("Dispatched") \in Int
        BY <1>1, Highs DEF Stages
      <4>2. claimed \in Int /\ \A i \in performed : i \in Int
        BY <1>1, Sizes DEF IInv, TypeOK, None
      <4> QED
        BY <4>1, <4>2
    <3> QED
      BY <2>1, <3>1, <3>2, <3>3
  <2> QED
    BY <1>1, <2>2, <2>3 DEF IInv, Placed, Stopped
<1>2. IInv => NeverExcused
  BY <1>1 DEF NeverExcused, Judged
<1> QED
  BY <1>2, Invariant, PTL
-----------------------------------------------------------------------------
(* The marks of a run, counted                                             *)

\* The mark of a stage and index among those a run can write.
Place(stage, i) ==
  IF stage = "Attempted" THEN i
  ELSE IF stage = "Acknowledged" THEN Records + i
  ELSE 2 * Records + (i - 1) \div 2
Writable(stage, i) ==
  stage \in Stages /\ i \in 0..Records - 1 /\ (stage = "Dispatched" => i \in Schedules)

\* A run writes its marks to places of their own, MarksPerRun in all.
LEMMA PlacesApart ==
  /\ \A stage, i : Writable(stage, i) => Place(stage, i) \in 0..MarksPerRun - 1
  /\ \A s, t, i, j :
       Writable(s, i) /\ Writable(t, j) /\ Place(s, i) = Place(t, j) => s = t /\ i = j
<1>1. /\ Effects \in Nat /\ Records = 2 * Effects + 2 /\ MarksPerRun = 5 * Effects + 4
  BY SizesAssumption DEF Records, MarksPerRun
<1>2. ASSUME NEW i \in Schedules
      PROVE  \E e \in 0..Effects - 1 : i = 2 * e + 1 /\ (i - 1) \div 2 = e
  <2>1. PICK e \in 0..Effects - 1 : i = 2 * e + 1
    BY DEF Schedules
  <2>2. e \in Int /\ (2 * e + 1 - 1) \div 2 = e
    BY <1>1
  <2> QED
    BY <2>1, <2>2
<1>3. ASSUME NEW stage, NEW i, Writable(stage, i)
      PROVE  \/ stage = "Attempted" /\ Place(stage, i) = i /\ i \in 0..Records - 1
             \/ /\ stage = "Acknowledged" /\ Place(stage, i) = Records + i
                /\ i \in 0..Records - 1
             \/ /\ stage = "Dispatched"
                /\ \E e \in 0..Effects - 1 : i = 2 * e + 1 /\ Place(stage, i) = 2 * Records + e
  BY <1>2, <1>3 DEF Writable, Place, Stages
<1>4. ASSUME NEW stage, NEW i, Writable(stage, i)
      PROVE  Place(stage, i) \in 0..MarksPerRun - 1
  BY <1>1, <1>3, <1>4
<1>5. ASSUME NEW s, NEW t, NEW i, NEW j, Writable(s, i), Writable(t, j),
             Place(s, i) = Place(t, j)
      PROVE  s = t /\ i = j
  BY <1>1, <1>3, <1>5
<1> QED
  BY <1>4, <1>5

\* An instrument that is not full of marks refused none: each was written once.
LEMMA MarksCounted ==
  ASSUME IInv, Mine, NEW stage, NEW i, Writable(stage, i), High(stage) < i
  PROVE  IsFiniteSet(Marked) /\ Cardinality(Marked) < MarksPerRun
<1> DEFINE place == Place(stage, i)
           Places == 0..MarksPerRun - 1
           at == [k \in Marked |-> Place(witness[k].stage, witness[k].index)]
<1>1. /\ TypeOK /\ Legible /\ MarksPerRun \in Nat /\ Records \in Nat /\ stage \in Stages
      /\ i \in Int /\ High(stage) \in Int
  <2>1. TypeOK /\ Legible /\ MarksPerRun \in Nat /\ Records \in Nat /\ stage \in Stages
    BY Sizes DEF IInv, Writable
  <2>2. i \in Int
    BY <2>1 DEF Writable
  <2> QED
    BY <2>1, <2>2, Highs
<1>2. ASSUME NEW k \in Marked
      PROVE  Writable(witness[k].stage, witness[k].index)
  <2>1. witness[k] \in Marks
    BY <1>1, <1>2 DEF TypeOK, Marked
  <2> QED
    BY <1>1, <1>2, <2>1, MarksAreWhole DEF Legible, Writable
<1>3. ASSUME NEW k \in Marked
      PROVE  at[k] \in Places \ {place}
  <2>1. at[k] \in Places
    BY <1>2, PlacesApart
  <2>2. ASSUME at[k] = place
        PROVE  FALSE
    <3>1. witness[k].stage = stage /\ witness[k].index = i
      BY <1>2, <2>2, PlacesApart
    <3>2. i <= High(stage)
      BY <1>1, <3>1, HighIs
    <3> QED
      BY <1>1, <3>2
  <2> QED
    BY <2>1, <2>2
<1>4. ASSUME NEW j \in Marked, NEW k \in Marked, at[j] = at[k]
      PROVE  j = k
  <2>1. witness[j].stage = witness[k].stage /\ witness[j].index = witness[k].index
    BY <1>2, <1>4, PlacesApart
  <2>2. witness[j].index \in Int /\ j \in Int /\ k \in Int
    <3>1. witness[j] \in Marks
      BY <1>1 DEF TypeOK, Marked
    <3>2. DOMAIN witness = 1..Len(witness) /\ Len(witness) \in Nat
      BY <1>1 DEF TypeOK
    <3> QED
      BY <3>1, <3>2, MarksAreWhole DEF Marked
  <2>3. Clash(witness[j], witness[k]) /\ Clash(witness[k], witness[j])
    BY <2>1, <2>2 DEF Clash
  <2>4. ~(j < k) /\ ~(k < j)
    BY <1>1, <2>3, UnreadableIs DEF Legible
  <2> QED
    BY <2>2, <2>4
<1>5. at \in Injection(Marked, Places \ {place})
  <2>1. at \in [Marked -> Places \ {place}]
    BY <1>3
  <2>2. \A j, k \in Marked : at[j] = at[k] => j = k
    BY <1>4
  <2> HIDE DEF at, Places, place
  <2> QED
    BY <2>1, <2>2 DEF Injection, IsInjective
<1>6. /\ IsFiniteSet(Places \ {place})
      /\ Cardinality(Places \ {place}) = MarksPerRun - 1
  <2>1. IsFiniteSet(Places) /\ Cardinality(Places) = MarksPerRun
    <3>1. IsFiniteSet(Places) /\ Cardinality(Places) =
            IF 0 > MarksPerRun - 1 THEN 0 ELSE MarksPerRun - 1 - 0 + 1
      BY <1>1, FS_Interval
    <3> HIDE DEF Places
    <3> QED
      BY <1>1, <3>1
  <2>2. place \in Places
    BY PlacesApart
  <2> HIDE DEF Places, place
  <2> QED
    BY <2>1, <2>2, FS_RemoveElement
<1> HIDE DEF at, Places, place
<1>7. IsFiniteSet(Marked) /\ Cardinality(Marked) <= Cardinality(Places \ {place})
  BY <1>5, <1>6, FS_Injection
<1>8. Cardinality(Marked) \in Nat
  BY <1>7, FS_CardinalityType
<1> QED
  BY <1>1, <1>6, <1>7, <1>8

\* The instrument refuses a mark only when more of its slots are torn than
\* reset_budget promised (run.rs, Rig::reset_budget).
THEOREM BudgetIsEnough == Spec => []BudgetSuffices
<1>1. ASSUME IInv, power = "Full"
      PROVE  TornSlots > ResetBudget
  <2> DEFINE Tears == {k \in DOMAIN witness : witness[k] = Torn}
  <2>1. PICK stage \in Stages, i \in 0..Records - 1 : step = Step(stage, i) /\ High(stage) < i
    BY <1>1 DEF IInv, Filled
  <2>2. step.op = stage /\ Index = i
    BY <2>1 DEF Step, Index
  <2>3. Mine
    BY <1>1, <2>2 DEF IInv, Placed, Writing, Installed
  <2>4. Writable(stage, i)
    <3>1. stage = "Dispatched" => i \in Schedules
      BY <1>1, <2>2, Named DEF IInv, TypeOK
    <3> QED
      BY <3>1 DEF Writable
  <2>5. IsFiniteSet(Marked) /\ Cardinality(Marked) < MarksPerRun
    BY <1>1, <2>1, <2>3, <2>4, MarksCounted
  <2>6. /\ DOMAIN witness = 1..Slots /\ Slots \in Nat /\ MarksPerRun \in Nat
    BY <1>1, Sizes DEF IInv, TypeOK, Filled
  <2>7. IsFiniteSet(1..Slots) /\ Cardinality(1..Slots) = Slots
    BY <2>6, FS_Interval
  <2>8. Tears = (1..Slots) \ Marked /\ Marked \subseteq 1..Slots
    BY <2>6 DEF Marked
  <2> HIDE DEF Tears
  <2>9. (1..Slots) \cap Marked = Marked
    BY <2>8
  <2>10. Cardinality(Tears) = Slots - Cardinality(Marked)
    <3>1. Cardinality((1..Slots) \ Marked) =
            Cardinality(1..Slots) - Cardinality((1..Slots) \cap Marked)
      BY <2>7, FS_Difference
    <3> QED
      BY <2>7, <2>8, <2>9, <3>1
  <2>11. Cardinality(Marked) \in Nat
    BY <2>5, FS_CardinalityType
  <2>12. Cardinality(Tears) > ResetBudget
    BY <2>5, <2>6, <2>10, <2>11 DEF ResetBudget
  <2> QED
    BY <2>12 DEF Tears, TornSlots
<1>2. IInv => BudgetSuffices
  BY <1>1 DEF BudgetSuffices
<1> QED
  BY <1>2, Invariant, PTL
=============================================================================
