------------------------------- MODULE Records -------------------------------
(***************************************************************************)
(* The vocabulary of a run's history: the records of                       *)
(* waymaker-core/src/record.rs with what a payload, an input or a deadline *)
(* holds reduced to members of small sets.  A record keeps its type, its   *)
(* effect sequence, what was asked for and what came of it.                *)
(***************************************************************************)
EXTENDS Integers, Sequences

CONSTANTS
  MaxSeq,      \* u32::MAX, the last sequence number an effect may have
  Kinds,       \* activity kinds
  Inputs,      \* what an input's recorded length and digest tell apart
  Deadlines,   \* timer deadlines
  Readings,    \* clock readings
  Gates,       \* version gates
  Versions,    \* values a version marker may record
  Payloads,    \* results and errors, opaque to the kernel
  NoArg        \* where a record's type has no such field

ASSUME MaxSeqAssumption == MaxSeq \in Nat
ASSUME VersionsAssumption == Versions \subseteq Nat

-----------------------------------------------------------------------------
(* A run-scoped record carries sequence 0, as its frame does: the identity *)
(* of an effect is its run and its sequence, and the run is the bank's.    *)
Seqs == 0 .. MaxSeq
Exhausted == MaxSeq + 1      \* the allocator's "no identity left"

ClockKinds == {"AfterBoot", "AtPersistentTime", "Unknown"}
Asks == [kind : Kinds, input : Inputs]
Specs == [clock : ClockKinds, deadline : Deadlines]

BoundaryTypes == {"EffectScheduled", "TimerScheduled", "VersionMarker"}
OutcomeTypes == {"EffectCompleted", "EffectFailed"}
TerminalTypes == {"RunCompleted", "RunFailed"}

Records ==
  [type : {"RunStarted"}, seq : {0}, arg : {NoArg}, val : Versions]
  \cup [type : TerminalTypes, seq : {0}, arg : {NoArg}, val : Payloads]
  \cup [type : {"EffectScheduled"}, seq : Seqs, arg : Asks, val : {NoArg}]
  \cup [type : OutcomeTypes, seq : Seqs, arg : {NoArg}, val : Payloads]
  \cup [type : {"TimerScheduled"}, seq : Seqs, arg : Specs, val : Readings]
  \cup [type : {"TimerFired"}, seq : Seqs, arg : {NoArg}, val : {NoArg}]
  \cup [type : {"VersionMarker"}, seq : Seqs, arg : Gates, val : Versions]

EndOfHistory == [type |-> "EndOfHistory", seq |-> 0, arg |-> NoArg, val |-> NoArg]
Steps == Records \cup {EndOfHistory}
NoRecord == EndOfHistory         \* `open` when no boundary is open

OpensBoundary(r) == r.type \in {"EffectScheduled", "TimerScheduled"}
=============================================================================
