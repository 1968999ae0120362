------------------------------- MODULE BankSwap -------------------------------
(***************************************************************************)
(* Continue-as-new: two banks, one of which holds the run that counts.     *)
(* The boot that chooses it is waymaker-drive/src/drive.rs (read_bank,     *)
(* resolve_bank_read, begin); the protocol that installs the next run in   *)
(* the other bank and retires this one is waymaker-flash/src/swap.rs, as   *)
(* drive.rs (swap_in) calls it.                                            *)
(*                                                                         *)
(* A bank holds a header naming its run, a seal that binds a generation to *)
(* that header, and a journal, here reduced to the RunStarted record that  *)
(* opens it (Journal.tla has the rest).  `view` is what a read finds and   *)
(* `durable` what a power loss is sure to leave; they are equal on a       *)
(* write-through device.  Any call may fail having done any part of what   *)
(* it was asked, and a reset or a power loss may come between any two.     *)
(* The first bank's installation is the board's, not this code's.          *)
(*                                                                         *)
(* An operator whose name starts with Bad is a slip the properties must    *)
(* notice in the place of the operator it precedes.                        *)
(***************************************************************************)
EXTENDS Integers

CONSTANTS
  MaxGeneration,  \* u32::MAX, the last generation a seal may carry
  MaxRun,         \* u64::MAX, the last run identity
  WriteThrough    \* a completed program or erase is durable without a barrier

ASSUME MaxGenerationAssumption == MaxGeneration \in Nat /\ MaxGeneration >= 1
ASSUME MaxRunAssumption == MaxRun \in Nat /\ MaxRun >= 1
ASSUME WriteThroughAssumption == WriteThrough \in BOOLEAN

VARIABLES
  view,      \* bank -> what a read finds there
  durable,   \* bank -> what no power loss takes away
  mode,      \* where the boot stands: the call it makes next
  booted,    \* the bank this boot chose
  started    \* history: the newest run whose RunStarted was acknowledged

vars == <<view, durable, mode, booted, started>>
-----------------------------------------------------------------------------
Blank == 0
Torn == -1
Generations == 1 .. MaxGeneration
Runs == 1 .. MaxRun

BankIds == {"A", "B"}
Other(b) == IF b = "A" THEN "B" ELSE "A"

Seal(gen, run) == [gen |-> gen, run |-> run]
Seals == [gen : Generations, run : Runs] \cup {Seal(Blank, Blank), Seal(Torn, Torn)}
Bank(header, seal, journal) == [header |-> header, seal |-> seal, journal |-> journal]
Banks == [header : Runs \cup {Blank, Torn}, seal : Seals, journal : {Blank, Torn, 1}]
BlankBank == Bank(Blank, Seal(Blank, Blank), Blank)
Opened == 1                        \* a journal that opens with RunStarted
-----------------------------------------------------------------------------
(* Choosing a bank                                                         *)

\* What can go wrong while a bank is read: the seal cannot be, the header
\* cannot be or is of no use to this firmware, or it exceeds the page.
Faults == {"None", "SealRead", "HeaderRead", "SmallPage"}

BankRead(kind, gen) == [kind |-> kind, gen |-> gen]

(* read_bank, once the seal could be read.  Unreadable and Oversized differ  *)
(* in the error they report and in nothing else.                           *)
ReadBank(bank, fault) ==
  LET gen == bank.seal.gen
  IN  IF gen \notin Generations THEN BankRead("Absent", Blank)
      ELSE IF fault = "HeaderRead" \/ (fault = "SmallPage" /\ bank.header # Blank)
        THEN BankRead("Unreadable", gen)
      ELSE IF bank.header # bank.seal.run THEN BankRead("Absent", Blank)
      ELSE BankRead("Found", gen)

\* A bank that could not be read is taken for one that is not there.
BadPreferred(r, s) == r.kind = "Found" /\ (s.kind # "Found" \/ s.gen < r.gen)

\* resolve_bank_read chooses the bank read as r over the one read as s.
Preferred(r, s) == r.kind = "Found" /\ (s.kind = "Absent" \/ s.gen < r.gen)

\* The bank a boot would choose, were it to read without a fault.
Chosen(banks, b) ==
  Preferred(ReadBank(banks[b], "None"), ReadBank(banks[Other(b)], "None"))

(* boot, as far as the record that must open the journal: select_bank,     *)
(* verify_header_identity and the scan begin makes.                        *)
Boot(b, faults) ==
  /\ mode = "Down"
  /\ \A c \in BankIds : faults[c] # "SealRead"
  /\ Preferred(ReadBank(view[b], faults[b]), ReadBank(view[Other(b)], faults[Other(b)]))
  /\ \/ view[b].journal = Blank /\ mode' = "Begin"
     \/ view[b].journal = Opened /\ mode' = "Running"
  /\ booted' = b
  /\ UNCHANGED <<view, durable, started>>
-----------------------------------------------------------------------------
(* The device                                                              *)

Programmed(old, new) == IF old = Blank THEN new ELSE Torn
SealProgrammed(old, new) == IF old = Seal(Blank, Blank) THEN new ELSE Seal(Torn, Torn)

WithHeader(bank, run) == Bank(Programmed(bank.header, run), bank.seal, bank.journal)
WithSeal(bank, seal) == Bank(bank.header, SealProgrammed(bank.seal, seal), bank.journal)
WithJournal(bank) == Bank(bank.header, bank.seal, Programmed(bank.journal, Opened))
WithTornJournal(bank) == Bank(bank.header, bank.seal, Torn)

Between(old, new) == IF old = new THEN {new} ELSE {old, new, Torn}
SealBetween(old, new) == IF old = new THEN {new} ELSE {old, new, Seal(Torn, Torn)}

\* Every way a bank may be left between one content and another.
Partial(old, new) ==
  {Bank(h, s, j) : h \in Between(old.header, new.header),
                   s \in SealBetween(old.seal, new.seal),
                   j \in Between(old.journal, new.journal)}

\* A program or an erase leaves bank b as `bank`.
Leaves(b, bank) ==
  /\ view' = [view EXCEPT ![b] = bank]
  /\ durable' = IF WriteThrough THEN [durable EXCEPT ![b] = bank] ELSE durable

(* A call that moves bank b to `bank`, and the call after it.              *)
Device(b, bank, next) ==
  /\ \/ Leaves(b, bank) /\ mode' = next
     \/ \E left \in Partial(view[b], bank) : Leaves(b, left) /\ mode' = "Down"
  /\ UNCHANGED <<booted, started>>

\* A barrier whose refusal goes unnoticed.
BadBarrier(next) ==
  /\ durable' = view \/ UNCHANGED durable
  /\ mode' = next
  /\ UNCHANGED <<view, booted>>

Barrier(next) ==
  /\ \/ durable' = view /\ mode' = next
     \/ UNCHANGED durable /\ mode' = "Down"
  /\ UNCHANGED <<view, booted>>
-----------------------------------------------------------------------------
(* begin: a fresh bank's journal is opened with RunStarted                 *)

BeginStage == mode = "Begin" /\ Device(booted, WithTornJournal(view[booted]), "BeginBarrier")
BeginBarrier == mode = "BeginBarrier" /\ Barrier("BeginSeal") /\ UNCHANGED started
BeginSeal ==
  /\ mode = "BeginSeal"
  /\ Device(booted, Bank(view[booted].header, view[booted].seal, Opened), "BeginCommit")

\* The run is under way though its RunStarted is not known to be durable.
BadBeginCommit ==
  /\ mode = "BeginCommit" /\ BadBarrier("Running") /\ started' = view[booted].header

BeginCommit ==
  /\ mode = "BeginCommit"
  /\ Barrier("Running")
  /\ started' = IF mode' = "Running" THEN view[booted].header ELSE started
-----------------------------------------------------------------------------
(* swap_in: continue as new                                                *)

Installing == Other(booted)

\* The space of generations is not asked whether it is spent.
BadMayContinue == view[booted].header < MaxRun

\* Swap::beginning and RunId::successor refuse before anything is touched.
MayContinue == view[booted].seal.gen < MaxGeneration /\ view[booted].header < MaxRun

\* The bank of the run that is still authoritative is cleared for its heir.
BadPrepare ==
  /\ mode = "Running" /\ MayContinue
  /\ Device(booted, BlankBank, "PrepareBarrier")

(* Swap::prepare: the other bank is erased.                                *)
Prepare ==
  /\ mode = "Running" /\ MayContinue
  /\ Device(Installing, BlankBank, "PrepareBarrier")
PrepareBarrier == mode = "PrepareBarrier" /\ Barrier("Stage") /\ UNCHANGED started

(* Prepared::stage: the next run's header.                                 *)
Stage ==
  /\ mode = "Stage"
  /\ Device(Installing, WithHeader(view[Installing], view[booted].header + 1), "PayloadBarrier")

(* Staged::payload_barrier.                                                *)
PayloadBarrier == mode = "PayloadBarrier" /\ Barrier("Commit") /\ UNCHANGED started

\* Generation::successor, bound to the header just staged.
NextSeal == Seal(view[booted].seal.gen + 1, view[Installing].header)

(* Sealable::commit: the seal, then the barrier behind it.                 *)
Commit ==
  /\ mode = "Commit"
  /\ Device(Installing, WithSeal(view[Installing], NextSeal), "CommitBarrier")

\* The old bank goes though the new one's seal is not known to be durable.
BadCommitBarrier == mode = "CommitBarrier" /\ BadBarrier("Reclaim") /\ UNCHANGED started

CommitBarrier == mode = "CommitBarrier" /\ Barrier("Reclaim") /\ UNCHANGED started

\* The bank erased is the one just installed.
BadReclaim == mode = "Reclaim" /\ Device(Installing, BlankBank, "ReclaimBarrier")

(* Installed::reclaim: erase the retired bank; its result is not looked at.*)
Reclaim == mode = "Reclaim" /\ Device(booted, BlankBank, "ReclaimBarrier")
ReclaimBarrier == mode = "ReclaimBarrier" /\ Barrier("Down") /\ UNCHANGED started
-----------------------------------------------------------------------------
(* The world: external to the code                                         *)

\* The workflow ends or suspends, a watchdog fires, a caller gives up.
Reset ==
  /\ mode # "Down"
  /\ mode' = "Down"
  /\ UNCHANGED <<view, durable, booted, started>>

\* The power goes: what no barrier covers is there, torn, or gone.
PowerLoss ==
  /\ mode' = "Down"
  /\ \E left \in [BankIds -> UNION {Partial(durable[b], view[b]) : b \in BankIds}] :
       /\ \A b \in BankIds : left[b] \in Partial(durable[b], view[b])
       /\ view' = left /\ durable' = left
  /\ UNCHANGED <<booted, started>>

\* A board ships with one bank installed.
Init ==
  /\ view = [b \in BankIds |-> IF b = "A" THEN Bank(1, Seal(1, 1), Blank) ELSE BlankBank]
  /\ durable = view
  /\ mode = "Down" /\ booted = "A" /\ started = 0

Next ==
  \/ \E b \in BankIds, faults \in [BankIds -> Faults] : Boot(b, faults)
  \/ BeginStage \/ BeginBarrier \/ BeginSeal \/ BeginCommit
  \/ Prepare \/ PrepareBarrier \/ Stage \/ PayloadBarrier
  \/ Commit \/ CommitBarrier \/ Reclaim \/ ReclaimBarrier
  \/ Reset \/ PowerLoss

Spec == Init /\ [][Next]_vars
-----------------------------------------------------------------------------
(* Properties                                                              *)

\* Every variable has the type its Rust counterpart has: no generation and no
\* run identity passes the last one there is.
TypeOK ==
  /\ view \in [BankIds -> Banks] /\ durable \in [BankIds -> Banks]
  /\ mode \in {"Down", "Begin", "BeginBarrier", "BeginSeal", "BeginCommit", "Running",
               "PrepareBarrier", "Stage", "PayloadBarrier", "Commit", "CommitBarrier",
               "Reclaim", "ReclaimBarrier"}
  /\ booted \in BankIds
  /\ started \in 0 .. MaxRun

\* Whatever was cut and whenever, a boot that can read finds exactly one bank
\* to run from: there is never none, and never a tie (bank.rs, Authority;
\* swap.rs, the postconditions of Installed::reclaim).
OneAuthority == \E b \in BankIds : Chosen(view, b) /\ ~Chosen(view, Other(b))

\* A boot that could not read everything runs from the bank a boot without
\* faults would have chosen, or from none: a bad sector never brings a retired
\* run back (drive.rs, resolve_bank_read).
FaultsElectNoOther ==
  \A b \in BankIds, faults \in [BankIds -> Faults \ {"SealRead"}] :
    Preferred(ReadBank(view[b], faults[b]), ReadBank(view[Other(b)], faults[Other(b)]))
      => Chosen(view, b)

\* Until the next run is sealed the workflow runs, and the swap works, on
\* behalf of the bank every boot would choose; once it is sealed, of the one
\* none would (docs/book/src/failure-semantics.md, its two rows on bank swaps).
SwapFollowsAuthority ==
  /\ mode \in {"Begin", "BeginBarrier", "BeginSeal", "BeginCommit", "Running",
              "PrepareBarrier", "Stage", "PayloadBarrier", "Commit"} => Chosen(view, booted)
  /\ mode \in {"CommitBarrier", "Reclaim", "ReclaimBarrier"} => Chosen(view, Other(booted))

\* Once begin has acknowledged a run's RunStarted, every later boot finds that
\* run with its journal open, or a later run: no crash forgets a run that may
\* have acted on the world, and none is started a second time.
StartedRunsStay ==
  started # 0 =>
    \A b \in BankIds : Chosen(view, b) =>
      \/ view[b].header > started
      \/ view[b].header = started /\ view[b].journal = Opened

\* While the power holds, authority moves only by a seal, to the next
\* generation and to the next run (swap.rs, Sealable::commit).
AuthorityMovesBySuccession ==
  [][\A b \in BankIds :
       (Chosen(view, b) /\ ~Chosen(view', b) /\ ~PowerLoss) =>
         /\ mode = "Commit"
         /\ Chosen(view', Other(b))
         /\ view'[Other(b)].seal.gen = view[b].seal.gen + 1
         /\ view'[Other(b)].header = view[b].header + 1]_vars
=============================================================================
