------------------------------- MODULE Journal -------------------------------
(***************************************************************************)
(* One bank's journal on NOR flash: the scan that recovers it              *)
(* (waymaker-flash/src/recovery.rs) and the writer that appends to it      *)
(* (append.rs), over a device that honours the StableStorage contract      *)
(* (storage.rs) and nothing more.                                          *)
(*                                                                         *)
(* A frame's slot is its padded body and one commit seal.  A record is     *)
(* written in four device calls: program the body, barrier, program the    *)
(* seal, barrier.  Any of them may fail, having changed the media or not,  *)
(* and the power may go between any two.  What the body holds is reduced   *)
(* to how much of it is there: a frame check tells a whole body from a     *)
(* torn one.  Slots have one width here and as many widths as records in   *)
(* the code; a scan and a writer agree on a slot's width because both take *)
(* it from the header the check covers.                                    *)
(*                                                                         *)
(* An operator whose name starts with Bad is a slip the properties must    *)
(* notice in the place of the operator it precedes.                        *)
(***************************************************************************)
EXTENDS Integers

CONSTANTS
  Slots,          \* how many frames the region holds
  Recs,           \* the records written
  Redeliverable,  \* those recovery may skip: outcomes and timer firings
  NoRec,          \* what an erased slot holds
  WriteThrough    \* a completed program is durable without a barrier

ASSUME SlotsAssumption == Slots \in Nat
ASSUME RecsAssumption == Redeliverable \subseteq Recs /\ NoRec \notin Recs
ASSUME WriteThroughAssumption == WriteThrough \in BOOLEAN

VARIABLES
  media,       \* slot -> how much of its body and seal is programmed, and its record
  pending,     \* <<slot, part>>: programmed since the last successful barrier
  mode,        \* "Down" | "Scanning" | "Open"
  at,          \* the scan's offset, then the writer's
  ending,      \* how the scan ended, "None" while it has not
  seen,        \* the slots whose records the scan yielded
  appendable,  \* Journal::appendable
  stage,       \* which of Staged and Sealable the caller holds, if any
  acked        \* history: <<slot, record>> whose commit returned Ok

device == <<media, pending>>
writer == <<appendable, stage>>
vars == <<media, pending, mode, at, ending, seen, appendable, stage, acked>>
-----------------------------------------------------------------------------
Places == 1 .. Slots
Levels == {"Erased", "Torn", "Whole"}
Parts == {"body", "seal"}
Cells == [body : Levels, seal : Levels, rec : Recs \cup {NoRec}]
ErasedCell == [body |-> "Erased", seal |-> "Erased", rec |-> NoRec]
Endings == {"None", "Clean", "Damaged", "Unsealed", "Incomplete"}

\* commit_seal_holds over a body that passes its check.
Sealed(cell) == cell.body = "Whole" /\ cell.seal = "Whole"

\* Recovery skips an unsealed outcome whose slot, from the frame's own end,
\* is erased.
Skippable(cell) ==
  cell.body = "Whole" /\ cell.seal = "Erased" /\ cell.rec \in Redeliverable

\* What programming leaves: cells that were not erased are no longer what
\* either write meant.
Program(old, new) == IF old = "Erased" \/ new = "Erased" THEN new ELSE "Torn"

\* How much of an interrupted program may have landed.
Landings == Levels
-----------------------------------------------------------------------------
(* Recovery                                                                *)

\* Recovery::new over the device as it is.
Boot ==
  /\ mode = "Down"
  /\ mode' = "Scanning"
  /\ at' = 1 /\ ending' = "None" /\ seen' = {}
  /\ UNCHANGED <<device, writer, acked>>

Ends(how) ==
  /\ ending' = how
  /\ UNCHANGED <<device, writer, mode, at, seen, acked>>

Passes(yielded) ==
  /\ at' = at + 1
  /\ seen' = seen \cup yielded
  /\ UNCHANGED <<device, writer, mode, ending, acked>>

\* erased_to_end: the header is erased, and so is everything behind it.
ErasedFrom(i) == \A j \in Places : j >= i => media[j] = ErasedCell

\* A frame that passes its check is a record, sealed or not.
BadYields(cell) == cell.body = "Whole"

Yields(cell) == Sealed(cell)

\* The end of the journal is found at the first erased header.
BadCleanEnd == at \in Places => media[at].body = "Erased"

CleanEnd == at \in Places => media[at].body = "Erased" /\ ErasedFrom(at)

(* Recovery::next, one frame of its loop.                                  *)
ScanFrame ==
  /\ mode = "Scanning" /\ ending = "None"
  /\ \/ CleanEnd /\ Ends("Clean")
     \/ ~CleanEnd /\ media[at].body = "Erased" /\ Ends("Damaged")
     \/ ~CleanEnd /\ media[at].body = "Torn" /\ Ends("Damaged")
     \/ ~CleanEnd /\ Yields(media[at]) /\ Passes({at})
     \/ ~CleanEnd /\ ~Yields(media[at]) /\ Skippable(media[at]) /\ Passes({})
     \/ /\ ~CleanEnd /\ media[at].body = "Whole"
        /\ ~Yields(media[at]) /\ ~Skippable(media[at])
        /\ Ends("Unsealed")

\* A read fails, or the page or the device is not the one this bank needs.
ScanFault == mode = "Scanning" /\ ending = "None" /\ Ends("Incomplete")
-----------------------------------------------------------------------------
(* Journal                                                                 *)

\* Recovery::append_offset.
MayAppend == ending = "Clean"

\* Journal::after.
After ==
  /\ mode = "Scanning" /\ MayAppend
  /\ mode' = "Open" /\ appendable' = TRUE /\ stage' = "None"
  /\ UNCHANGED <<device, at, ending, seen, acked>>

\* A slot one part of which was programmed, as far as `level`.
Written(cell, part, level, rec) ==
  [body |-> IF part = "body" THEN Program(cell.body, level) ELSE cell.body,
   seal |-> IF part = "seal" THEN Program(cell.seal, level) ELSE cell.seal,
   rec  |-> IF level = "Erased" THEN cell.rec ELSE rec]

\* What a program call leaves in the slot at the writer's offset.
Lands(part, level, rec) ==
  /\ media' = [media EXCEPT ![at] = Written(media[at], part, level, rec)]
  /\ pending' = IF WriteThrough \/ level = "Erased" THEN pending
                ELSE pending \cup {<<at, part>>}

\* The writer is barred only once its write has failed.
BadBarred(ok) == appendable' = ok

\* The flag falls before the device is touched and rises in commit alone.
Barred(ok) == appendable' = FALSE

(* Journal::stage: encode, check the room, program the body.               *)
Stage(rec) ==
  /\ mode = "Open" /\ stage = "None" /\ appendable /\ at \in Places
  /\ \/ Lands("body", "Whole", rec) /\ stage' = "Staged" /\ Barred(TRUE)
     \/ /\ \E level \in Landings : Lands("body", level, rec)
        /\ stage' = "None" /\ Barred(FALSE)
  /\ UNCHANGED <<mode, at, ending, seen, acked>>

\* StableStorage::barrier, as far as a caller can rely on it.
Barrier(ok) == pending' = IF ok THEN {} ELSE pending

\* The payload barrier is believed without asking.
BadPayloadBarrier ==
  /\ mode = "Open" /\ stage = "Staged"
  /\ stage' = "Sealable" /\ UNCHANGED pending
  /\ UNCHANGED <<media, mode, at, ending, seen, appendable, acked>>

(* Staged::payload_barrier.                                                *)
PayloadBarrier ==
  /\ mode = "Open" /\ stage = "Staged"
  /\ \/ Barrier(TRUE) /\ stage' = "Sealable"
     \/ Barrier(FALSE) /\ stage' = "None"
  /\ UNCHANGED <<media, mode, at, ending, seen, appendable, acked>>

(* Sealable::commit, its two device calls.                                 *)
CommitSeal ==
  /\ mode = "Open" /\ stage = "Sealable"
  /\ \/ Lands("seal", "Whole", media[at].rec) /\ stage' = "Sealing"
     \/ \E level \in Landings : Lands("seal", level, media[at].rec) /\ stage' = "None"
  /\ UNCHANGED <<mode, at, ending, seen, appendable, acked>>

\* The record is acknowledged whatever its last barrier said.
BadCommitBarrier ==
  /\ mode = "Open" /\ stage = "Sealing"
  /\ (Barrier(TRUE) \/ Barrier(FALSE)) /\ at' = at + 1 /\ appendable' = TRUE
  /\ acked' = acked \cup {<<at, media[at].rec>>}
  /\ stage' = "None"
  /\ UNCHANGED <<media, mode, ending, seen>>

CommitBarrier ==
  /\ mode = "Open" /\ stage = "Sealing"
  /\ \/ /\ Barrier(TRUE)
        /\ at' = at + 1 /\ appendable' = TRUE
        /\ acked' = acked \cup {<<at, media[at].rec>>}
     \/ Barrier(FALSE) /\ UNCHANGED <<at, appendable, acked>>
  /\ stage' = "None"
  /\ UNCHANGED <<media, mode, ending, seen>>

(* Staged or Sealable dropped before commit: the journal stays barred.     *)
Abandon ==
  /\ mode = "Open" /\ stage \in {"Staged", "Sealable"}
  /\ stage' = "None"
  /\ UNCHANGED <<device, mode, at, ending, seen, appendable, acked>>
-----------------------------------------------------------------------------
(* The world: external to the code                                         *)

Stops ==
  /\ mode # "Down"
  /\ mode' = "Down" /\ ending' = "None" /\ seen' = {} /\ at' = 1
  /\ appendable' = FALSE /\ stage' = "None"
  /\ UNCHANGED acked

\* A watchdog or a caller that gives up: memory goes, the device does not.
Reset == Stops /\ UNCHANGED device

\* What may be left of a level that no barrier covers.
Remains(level) == IF level = "Whole" THEN Levels ELSE {"Erased", level}

\* What is left of one part of a slot.
LeftOf(i, part, left) ==
  IF <<i, part>> \in pending THEN left[<<i, part>>] ELSE media[i][part]

\* The power goes: what no barrier covers is there, torn, or gone.
PowerLoss ==
  /\ Stops
  /\ \E left \in [pending -> Levels] :
       /\ \A p \in pending : left[p] \in Remains(media[p[1]][p[2]])
       /\ media' = [i \in Places |->
            [body |-> LeftOf(i, "body", left),
             seal |-> LeftOf(i, "seal", left),
             rec  |-> IF LeftOf(i, "body", left) = "Erased" THEN NoRec ELSE media[i].rec]]
  /\ pending' = {}
-----------------------------------------------------------------------------
Init ==
  /\ media = [i \in Places |-> ErasedCell] /\ pending = {}
  /\ mode = "Down" /\ at = 1 /\ ending = "None" /\ seen = {}
  /\ appendable = FALSE /\ stage = "None"
  /\ acked = {}

Next ==
  \/ Boot \/ ScanFrame \/ ScanFault \/ After
  \/ \E rec \in Recs : Stage(rec)
  \/ PayloadBarrier \/ CommitSeal \/ CommitBarrier \/ Abandon
  \/ Reset \/ PowerLoss

Spec == Init /\ [][Next]_vars
-----------------------------------------------------------------------------
(* Properties                                                              *)

\* Every variable has the type its Rust counterpart has.
TypeOK ==
  /\ media \in [Places -> Cells]
  /\ pending \subseteq Places \X Parts
  /\ mode \in {"Down", "Scanning", "Open"}
  /\ at \in 1 .. Slots + 1
  /\ ending \in Endings
  /\ seen \subseteq Places
  /\ appendable \in BOOLEAN
  /\ stage \in {"None", "Staged", "Sealable", "Sealing"}
  /\ acked \subseteq Places \X Recs

Passable(cell) == Sealed(cell) \/ Skippable(cell)

\* The slots whose records a scan without faults yields.
Readable ==
  {i \in Places : Sealed(media[i]) /\ \A j \in Places : j < i => Passable(media[j])}

\* A record whose append returned Ok is on the media, whole and sealed, where
\* every scan gets to, whatever failed or was cut since (append.rs, "the
\* record is durable when this returns"; README, acknowledged durability).
AckedIsReadable ==
  \A a \in acked : a[1] \in Readable /\ media[a[1]].rec = a[2]

\* What the loop of Recovery::next yields is exactly the readable history,
\* in every scan that gets to its end (README, prefix safety).
ScanYieldsHistory ==
  mode = "Scanning" /\ ending \in {"Clean", "Damaged", "Unsealed"} => seen = Readable

\* A writer that may append stands in front of erased media alone, so no
\* append programs a cell twice and no record is written behind a gap
\* (append.rs, the invariants of Journal).
WriterFacesErased == mode = "Open" /\ appendable => ErasedFrom(at)

\* A seal is programmed only over a body a barrier has made durable, so a
\* power loss never leaves a seal that vouches for a torn body.
SealCoversDurableBody ==
  \A i \in Places :
    media[i].seal # "Erased" => media[i].body = "Whole" /\ <<i, "body">> \notin pending

\* On a write-through device history only grows: no append, crash or reset
\* removes, changes or overtakes a record a scan would have yielded.  On any
\* device only a power loss may take back what no barrier covered.
HistoryOnlyGrows ==
  [][WriteThrough \/ ~PowerLoss =>
       /\ Readable \subseteq Readable'
       /\ \A i \in Readable : media'[i].rec = media[i].rec
       /\ \A i \in Readable, j \in Readable' \ Readable : i < j]_vars

\* Row 5 of docs/book/src/failure-semantics.md: a torn completion whose slot
\* is otherwise erased is ignored and the run goes on in this bank.
TornOutcomeIsIgnored ==
  ending \in {"Damaged", "Unsealed"} =>
    ~ /\ at \in Places /\ media[at].rec \in Redeliverable
      /\ media[at].body # "Erased" /\ media[at].seal = "Erased"
=============================================================================
