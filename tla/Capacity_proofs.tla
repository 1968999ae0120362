---------------------------- MODULE Capacity_proofs ----------------------------
(***************************************************************************)
(* Proofs about Capacity, for every bound, bank and program unit: all that *)
(* is used of the wire format is that a longer payload never has a shorter *)
(* frame.                                                                  *)
(*                                                                         *)
(* The argument.  What is left in a journal never falls below what the     *)
(* phase of its run still owes: its exit, before that the outcome of an    *)
(* open boundary, and once more that outcome while none has been lost.     *)
(***************************************************************************)
EXTENDS Capacity, TLAPS

Tail == OutcomeBytes + TerminalBytes

Owed ==
  /\ phase = "Fresh" => room >= FloorBytes
  /\ phase = "Started" => room >= Frame(TimerBody) + OutcomeBytes + Tail
  /\ phase = "Idle" => room >= TerminalBytes
  /\ phase \in {"AwaitingOutcome", "AwaitingTimer"} =>
       /\ tears = 0 => room >= OutcomeBytes + Tail
       /\ tears = 1 => room >= Tail

IInv == TypeOK /\ Owed

USE LengthsAssumption, FrameAssumption, HeaderAssumption
-----------------------------------------------------------------------------
LEMMA Prices ==
  /\ OutcomeBytes \in Nat /\ TerminalBytes \in Nat
  /\ Frame(TimerBody) \in Nat /\ Frame(StartedPrefix + RunInput) \in Nat
  /\ \A m \in Lengths : Frame(m) \in Nat
  /\ \A p \in 0 .. Result : p \in Lengths /\ Frame(p) <= OutcomeBytes
  /\ \A p \in 0 .. Terminal : p \in Lengths /\ Frame(p) <= TerminalBytes
  /\ Frame(0) <= OutcomeBytes
  /\ Frame(EffectBody) <= Frame(TimerBody) /\ Frame(MarkerBody) <= Frame(TimerBody)
BY DEF Lengths, OutcomeBytes, TerminalBytes

LEMMA OpeningPrice ==
  ASSUME TypeOK
  PROVE  StartedPrefix + input \in Lengths
         /\ Frame(StartedPrefix + input) <= Frame(StartedPrefix + RunInput)
<1>1. StartedPrefix + input \in Lengths /\ StartedPrefix + input <= StartedPrefix + RunInput
  BY DEF Lengths, TypeOK
<1> QED BY <1>1

\* Every payload a record may have is one a frame may carry.
LEMMA PayloadsAreLengths ==
  ASSUME TypeOK, NEW type \in Types, NEW payload \in Payloads(type)
  PROVE  payload \in Lengths /\ Frame(payload) \in Nat
<1>1. CASE type = "RunStarted"
  <2>1. payload = StartedPrefix + input
    BY <1>1 DEF Payloads, Outcomes
  <2>2. payload \in Lengths
    BY <2>1, OpeningPrice
  <2> QED BY <2>2
<1>2. CASE type \in Boundaries \cup {"TimerFired"}
  BY <1>2 DEF Payloads, Boundaries, Lengths
<1>3. CASE type \in Outcomes
  BY <1>3, Prices DEF Payloads, Outcomes
<1>4. CASE type \in Terminals
  BY <1>4, Prices DEF Payloads, Terminals, Outcomes
<1> QED BY <1>1, <1>2, <1>3, <1>4 DEF Types

LEMMA InstallStep ==
  ASSUME IInv, NEW bytes \in 0 .. RunInput, Install(bytes)
  PROVE  IInv'
<1>1. bytes \in Lengths /\ HeaderLen(bytes) \in Nat /\ HeaderLen(RunInput) \in Nat
      /\ HeaderLen(bytes) <= HeaderLen(RunInput)
  BY DEF Lengths
<1>2. FloorBytes \in Nat
  BY Prices DEF FloorBytes
<1>3. bank \in Nat
  BY DEF IInv, TypeOK
<1>4. room' \in 0 .. bank /\ room' >= FloorBytes
  BY <1>1, <1>2, <1>3 DEF Install, ForLayout
<1> QED BY <1>4 DEF IInv, TypeOK, Owed, Install, Phases

LEMMA AppendStep ==
  ASSUME IInv, NEW type \in Types, NEW payload \in Payloads(type), Append(type, payload)
  PROVE  IInv'
<1>1. /\ Frame(payload) \in Nat /\ ExitBytesAfter(type) \in Nat /\ room \in Nat /\ bank \in Nat
      /\ room <= bank
  BY PayloadsAreLengths, Prices DEF IInv, TypeOK, ExitBytesAfter
<1>2. /\ room' = room - Frame(payload) /\ room' >= ExitBytesAfter(type)
      /\ room' \in 0 .. bank
  BY <1>1 DEF Append, Admits
<1>3. phase' = PhaseAfter(type) /\ tears' = 0 /\ UNCHANGED <<bank, input>>
  BY DEF Append
<1>4. TypeOK'
  BY <1>2, <1>3 DEF IInv, TypeOK, PhaseAfter, Phases
<1>5. CASE type = "RunStarted"
  <2>1. payload = StartedPrefix + input /\ phase = "Fresh" /\ phase' = "Started"
    BY <1>3, <1>5 DEF Payloads, Append, MayFollow, PhaseAfter, Boundaries, Outcomes, Terminals
  <2>2. room >= FloorBytes
    BY <2>1 DEF IInv, Owed
  <2>3. Frame(payload) <= Frame(StartedPrefix + RunInput)
    BY <2>1, OpeningPrice DEF IInv
  <2>4. room' >= Frame(TimerBody) + OutcomeBytes + Tail
    BY <1>1, <1>2, <2>2, <2>3, Prices DEF FloorBytes, Tail
  <2> QED BY <1>4, <2>1, <2>4 DEF IInv, Owed
<1>6. CASE type \in {"EffectScheduled", "TimerScheduled"}
  <2>0. ExitBytesAfter(type) = 2 * OutcomeBytes + TerminalBytes
    BY <1>6 DEF ExitBytesAfter, Terminals
  <2>1. room' >= OutcomeBytes + Tail
    BY <1>2, <2>0, Prices DEF Tail
  <2> QED BY <1>3, <1>4, <1>6, <2>1 DEF IInv, Owed, PhaseAfter
<1>7. CASE type \in Outcomes \cup {"TimerFired", "VersionMarker"}
  <2>1. room' >= TerminalBytes /\ phase' = "Idle"
    BY <1>2, <1>3, <1>7 DEF ExitBytesAfter, PhaseAfter, Outcomes, Terminals
  <2> QED BY <1>4, <2>1 DEF IInv, Owed
<1>8. CASE type \in Terminals
  <2>1. phase' = "Ended"
    BY <1>3, <1>8 DEF PhaseAfter, Terminals
  <2> QED BY <1>4, <2>1 DEF IInv, Owed
<1> QED BY <1>5, <1>6, <1>7, <1>8 DEF Types, Boundaries

LEMMA TearStep ==
  ASSUME IInv, NEW type \in Types, NEW payload \in Payloads(type), Tear(type, payload)
  PROVE  IInv'
<1>1. /\ Frame(payload) \in Nat /\ room \in Nat /\ bank \in Nat /\ room <= bank
      /\ ExitBytesAfter(type) \in Nat
  BY PayloadsAreLengths, Prices DEF IInv, TypeOK, ExitBytesAfter
<1>2. Frame(payload) <= OutcomeBytes
  <2>1. CASE type \in Outcomes
    BY <2>1, Prices DEF Payloads, Outcomes
  <2>2. CASE type = "TimerFired"
    BY <2>2, Prices DEF Payloads, Outcomes
  <2> QED BY <2>1, <2>2 DEF Tear
<1>3. /\ room' = room - Frame(payload) /\ room' \in 0 .. bank
      /\ tears' = tears + 1 /\ tears \in Nat /\ UNCHANGED <<bank, phase, input>>
      /\ phase \in {"AwaitingOutcome", "AwaitingTimer"}
  BY <1>1 DEF Tear, Admits, MayFollow, IInv, TypeOK, Boundaries, Terminals, Outcomes
<1>4. tears' = 1 => room' >= Tail
  BY <1>1, <1>2, <1>3, Prices DEF IInv, Owed, Tail
<1> QED BY <1>3, <1>4 DEF IInv, TypeOK, Owed

LEMMA Inductive == Spec => []IInv
<1>1. ASSUME Init PROVE IInv
  <2>1. bank \in Nat /\ 0 \in 0 .. bank /\ 0 \in 0 .. RunInput
    BY <1>1 DEF Init, Lengths
  <2> QED BY <1>1, <2>1 DEF Init, IInv, TypeOK, Owed, Phases
<1>2. IInv /\ [Next]_vars => IInv'
  <2>1. ASSUME IInv, UNCHANGED vars PROVE IInv'
    BY <2>1 DEF vars, IInv, TypeOK, Owed
  <2> QED BY <2>1, InstallStep, AppendStep, TearStep DEF Next
<1> QED BY <1>1, <1>2, PTL DEF Spec

\* No record is written past the end of its journal.
THEOREM Typing == Spec => []TypeOK
<1>1. IInv => TypeOK
  BY DEF IInv
<1> QED BY <1>1, Inductive, PTL

\* Whatever the bounds, the bank and the program unit: a run that is under way
\* is never refused the room for its next step towards an end, even when a
\* crash has cost it one outcome.
THEOREM EveryRunCanEnd == Spec => []RunCanEnd
<1>1. ASSUME IInv PROVE RunCanEnd
  <2>1. room \in Nat /\ TypeOK
    BY <1>1 DEF IInv, TypeOK
  <2>2. ASSUME phase = "Fresh", NEW p \in Payloads("RunStarted") PROVE Admits("RunStarted", p)
    <3>1. p = StartedPrefix + input /\ ExitBytesAfter("RunStarted") = TerminalBytes
      BY DEF Payloads, ExitBytesAfter, Outcomes, Terminals
    <3>2. room >= FloorBytes /\ Frame(p) <= Frame(StartedPrefix + RunInput) /\ Frame(p) \in Nat
      BY <1>1, <2>1, <2>2, <3>1, OpeningPrice DEF IInv, Owed
    <3>3. Frame(p) + TerminalBytes <= room
      BY <2>1, <3>2, Prices DEF FloorBytes
    <3> QED BY <3>1, <3>3 DEF Admits
  <2>3. ASSUME phase \in {"Started", "Idle"}, NEW type \in Terminals, NEW p \in Payloads(type)
        PROVE  Admits(type, p)
    <3>1. room >= TerminalBytes
      BY <1>1, <2>1, <2>3, Prices DEF IInv, Owed, Tail
    <3>2. p \in 0 .. Terminal /\ ExitBytesAfter(type) = 0
      BY DEF Payloads, Terminals, Outcomes, ExitBytesAfter
    <3> QED BY <2>1, <3>1, <3>2, Prices DEF Admits
  <2>4. ASSUME phase = "AwaitingOutcome", tears <= 1, NEW type \in Outcomes,
               NEW p \in Payloads(type)
        PROVE  Admits(type, p)
    <3>1. room >= Tail
      BY <1>1, <2>1, <2>4, Prices DEF IInv, Owed, Tail, TypeOK
    <3>2. p \in 0 .. Result /\ ExitBytesAfter(type) = TerminalBytes
      BY DEF Payloads, Terminals, Outcomes, ExitBytesAfter
    <3> QED BY <2>1, <3>1, <3>2, Prices DEF Admits, Tail
  <2>5. ASSUME phase = "AwaitingTimer", tears <= 1 PROVE Admits("TimerFired", 0)
    <3>1. room >= Tail /\ ExitBytesAfter("TimerFired") = TerminalBytes
      BY <1>1, <2>1, <2>5, Prices DEF IInv, Owed, Tail, TypeOK, ExitBytesAfter, Terminals
    <3>2. Frame(0) \in Nat
      BY DEF Lengths
    <3> QED BY <2>1, <3>1, <3>2, Prices DEF Admits, Tail
  <2> QED BY <2>2, <2>3, <2>4, <2>5 DEF RunCanEnd
<1> QED BY <1>1, Inductive, PTL

\* A run in a bank the reserve accepted is never refused its first boundary.
THEOREM EveryRunCanWork == Spec => []FirstBoundaryFits
<1>1. ASSUME IInv PROVE FirstBoundaryFits
  <2>1. SUFFICES ASSUME phase = "Started", NEW type \in Boundaries, NEW p \in Payloads(type)
                 PROVE  Admits(type, p)
    BY DEF FirstBoundaryFits
  <2>2. room \in Nat /\ room >= Frame(TimerBody) + OutcomeBytes + Tail
    BY <1>1, <2>1 DEF IInv, TypeOK, Owed
  <2>3. p \in {EffectBody, TimerBody, MarkerBody}
    <3>1. CASE type = "EffectScheduled"
      BY <3>1 DEF Payloads, Boundaries, Outcomes
    <3>2. CASE type = "TimerScheduled"
      BY <3>2 DEF Payloads, Boundaries, Outcomes
    <3>3. CASE type = "VersionMarker"
      BY <3>3 DEF Payloads, Boundaries, Outcomes
    <3> QED BY <3>1, <3>2, <3>3 DEF Boundaries
  <2>4. Frame(p) \in Nat /\ Frame(p) <= Frame(TimerBody)
    BY <2>3, Prices DEF Lengths
  <2>5. ExitBytesAfter(type) <= OutcomeBytes + Tail /\ ExitBytesAfter(type) \in Nat
    BY Prices DEF ExitBytesAfter, Tail, Boundaries, Terminals
  <2> QED BY <2>2, <2>4, <2>5, Prices DEF Admits, Tail
<1> QED BY <1>1, Inductive, PTL
=============================================================================
