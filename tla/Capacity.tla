------------------------------- MODULE Capacity -------------------------------
(***************************************************************************)
(* The capacity reserve (waymaker-flash/src/capacity.rs): how much of a    *)
(* bank a record may take, so that the run in it can still end.  The       *)
(* reserve holds no cursor and asks for history in section 08's order,     *)
(* which the replay kernel behind the driver enforces (ReplayMachine.tla); *)
(* that order is the guard of Append here.                                 *)
(*                                                                         *)
(* A record is its type and the length of its payload, and takes what its  *)
(* padded frame and its seal take.  A crash may leave an outcome written   *)
(* and unsealed: its bytes are spent, and the effect is still open.        *)
(*                                                                         *)
(* An operator whose name starts with Bad is a slip the properties must    *)
(* notice in the place of the operator it precedes.                        *)
(***************************************************************************)
EXTENDS Integers

CONSTANTS
  MaxPayload,     \* MAX_PAYLOAD_BYTES, the longest payload a frame may carry
  Frame(_),       \* encoded_len_for: bytes a frame of that payload takes
  HeaderLen(_),   \* header_len_for: bytes a bank header of that input takes
  BankSizes,      \* BankRegion::payload_bytes, of every board there may be
  RunInput,       \* Bounds::run_input_bytes
  Result,         \* Bounds::effect_result_bytes
  Terminal,       \* Bounds::terminal_bytes
  StartedPrefix,  \* RUN_STARTED_PREFIX_BYTES
  EffectBody,     \* EFFECT_SCHEDULED_BODY_BYTES
  TimerBody,      \* TIMER_SCHEDULED_BODY_BYTES
  MarkerBody      \* VERSION_MARKER_BODY_BYTES

Lengths == 0 .. MaxPayload

ASSUME LengthsAssumption ==
  /\ MaxPayload \in Nat /\ BankSizes \subseteq Nat
  /\ {RunInput, Result, Terminal, StartedPrefix, StartedPrefix + RunInput,
      EffectBody, TimerBody, MarkerBody} \subseteq Lengths
  /\ EffectBody <= TimerBody /\ MarkerBody <= EffectBody
ASSUME FrameAssumption ==
  \A m \in Lengths : Frame(m) \in Nat /\ \A n \in Lengths : m <= n => Frame(m) <= Frame(n)
ASSUME HeaderAssumption ==
  \A m \in Lengths : HeaderLen(m) \in Nat
                     /\ \A n \in Lengths : m <= n => HeaderLen(m) <= HeaderLen(n)

VARIABLES
  bank,      \* the size of this board's banks; it never changes
  room,      \* Journal::room
  phase,     \* where section 08's table stands
  input,     \* the length of the input this bank's run was given
  tears      \* outcomes of the open effect that were cut before their seal

vars == <<bank, room, phase, input, tears>>
-----------------------------------------------------------------------------
Boundaries == {"EffectScheduled", "TimerScheduled", "VersionMarker"}
Outcomes == {"EffectCompleted", "EffectFailed"}
Terminals == {"RunCompleted", "RunFailed"}
Types == Boundaries \cup Outcomes \cup Terminals \cup {"RunStarted", "TimerFired"}
Phases == {"NoRun", "Fresh", "Started", "Idle", "AwaitingOutcome", "AwaitingTimer", "Ended"}

\* The payloads a record of a type may have: within_bounds, and the bodies
\* whose length the format fixes.
Payloads(type) ==
  CASE type = "RunStarted"      -> {StartedPrefix + input}
    [] type = "EffectScheduled" -> {EffectBody}
    [] type = "TimerScheduled"  -> {TimerBody}
    [] type = "VersionMarker"   -> {MarkerBody}
    [] type = "TimerFired"      -> {0}
    [] type \in Outcomes        -> 0 .. Result
    [] OTHER                    -> 0 .. Terminal
-----------------------------------------------------------------------------
(* Reserve                                                                 *)

OutcomeBytes == Frame(Result)
TerminalBytes == Frame(Terminal)

\* The floor prices the effect's own kind of schedule and forgets the timer's.
BadFloorBytes == Frame(StartedPrefix + RunInput) + Frame(EffectBody) + 2 * OutcomeBytes + TerminalBytes

\* The smallest journal a run may be used in: its opening, one schedule, one
\* outcome that is cut and one that is not, and its exit.
FloorBytes == Frame(StartedPrefix + RunInput) + Frame(TimerBody) + 2 * OutcomeBytes + TerminalBytes

\* Reserve::for_layout accepts the bounds.
ForLayout == HeaderLen(RunInput) + FloorBytes <= bank

\* The redelivery slack is not owed.
BadExitBytesAfter(type) ==
  CASE type \in {"EffectScheduled", "TimerScheduled"} -> OutcomeBytes + TerminalBytes
    [] type \in Terminals                             -> 0
    [] OTHER                                          -> TerminalBytes

\* Reserve::exit_bytes_after.
ExitBytesAfter(type) ==
  CASE type \in {"EffectScheduled", "TimerScheduled"} -> 2 * OutcomeBytes + TerminalBytes
    [] type \in Terminals                             -> 0
    [] OTHER                                          -> TerminalBytes

\* The payload is weighed, not the frame it is written in.
BadAdmits(type, payload) == payload + ExitBytesAfter(type) <= room

\* Reserve::admits, of a record within its bound.
Admits(type, payload) == Frame(payload) + ExitBytesAfter(type) <= room
-----------------------------------------------------------------------------
(* A run in a bank                                                         *)

\* Section 08's order, which the caller's cursor keeps.
MayFollow(type) ==
  \/ phase = "Fresh" /\ type = "RunStarted"
  \/ phase \in {"Started", "Idle"} /\ type \in Boundaries \cup Terminals
  \/ phase = "AwaitingOutcome" /\ type \in Outcomes
  \/ phase = "AwaitingTimer" /\ type = "TimerFired"

PhaseAfter(type) ==
  CASE type = "RunStarted"      -> "Started"
    [] type = "EffectScheduled" -> "AwaitingOutcome"
    [] type = "TimerScheduled"  -> "AwaitingTimer"
    [] type \in Terminals       -> "Ended"
    [] OTHER                    -> "Idle"

(* Reserved::over and a bank whose run has the input it was given.         *)
Install(bytes) ==
  /\ phase # "Ended" /\ ForLayout
  /\ input' = bytes /\ room' = bank - HeaderLen(bytes)
  /\ phase' = "Fresh" /\ tears' = 0
  /\ UNCHANGED bank

(* Reserved::stage, and the commit that follows it.                        *)
Append(type, payload) ==
  /\ MayFollow(type) /\ Admits(type, payload)
  /\ room' = room - Frame(payload)
  /\ phase' = PhaseAfter(type)
  /\ tears' = 0
  /\ UNCHANGED <<bank, input>>

(* A crash between the body of an outcome and its seal: recovery steps     *)
(* over the slot, and the effect is redelivered.                           *)
Tear(type, payload) ==
  /\ type \in Outcomes \cup {"TimerFired"}
  /\ MayFollow(type) /\ Admits(type, payload)
  /\ room' = room - Frame(payload)
  /\ tears' = tears + 1
  /\ UNCHANGED <<bank, phase, input>>

Init == bank \in BankSizes /\ room = 0 /\ phase = "NoRun" /\ input = 0 /\ tears = 0

Next ==
  \/ \E bytes \in 0 .. RunInput : Install(bytes)
  \/ \E type \in Types : \E payload \in Payloads(type) :
       Append(type, payload) \/ Tear(type, payload)

Spec == Init /\ [][Next]_vars
-----------------------------------------------------------------------------
(* Properties                                                              *)

\* The room of a journal is never negative, however it is spent.
TypeOK ==
  /\ bank \in BankSizes /\ room \in 0 .. bank
  /\ phase \in Phases
  /\ input \in 0 .. RunInput
  /\ tears \in Nat

\* A run that is under way can always take its next step towards an end, even
\* after a crash cost it an outcome: the step is not refused for room
\* (docs/architecture.md, section 10; capacity.rs, exit_bytes_after).
RunCanEnd ==
  /\ phase = "Fresh" => \A p \in Payloads("RunStarted") : Admits("RunStarted", p)
  /\ phase \in {"Started", "Idle"} =>
       \A type \in Terminals : \A p \in Payloads(type) : Admits(type, p)
  /\ phase = "AwaitingOutcome" /\ tears <= 1 =>
       \A type \in Outcomes : \A p \in Payloads(type) : Admits(type, p)
  /\ phase = "AwaitingTimer" /\ tears <= 1 => Admits("TimerFired", 0)

\* A bank that was accepted for a run is one the run can do some work in: its
\* first boundary is never refused (capacity.rs, for_layout, "usable").
FirstBoundaryFits ==
  phase = "Started" => \A type \in Boundaries : \A p \in Payloads(type) : Admits(type, p)
=============================================================================
