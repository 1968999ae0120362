------------------------------- MODULE BankLog -------------------------------
(***************************************************************************)
(* What one bank's journal promises to the driver above it: a sequence of  *)
(* records, which a boot reads from its start; a prefix of it that a power *)
(* loss cannot take; and whether a scan reaches erased media behind it, so *)
(* that there is a place to append at.  Slots, frames, seals and barriers  *)
(* are Journal.tla's, which is shown to implement this module.             *)
(*                                                                         *)
(* At most one record is ever owed to a barrier: a record is landed only   *)
(* behind records that no power loss can take.                             *)
(***************************************************************************)
EXTENDS Integers, Sequences

CONSTANTS
  Recs,           \* the records written
  WriteThrough    \* a record is durable as soon as it is readable

VARIABLES
  log,      \* the records a scan yields
  firm,     \* how many of them no power loss can take
  clean     \* the scan ends on erased media

\* A record becomes readable, at the end.
Land(rec) ==
  /\ firm = Len(log)
  /\ log' = Append(log, rec)
  /\ firm' = IF WriteThrough THEN firm + 1 ELSE firm
  /\ clean' = TRUE

\* A barrier succeeds: what was readable is durable.
Settle ==
  /\ firm' = Len(log)
  /\ UNCHANGED <<log, clean>>

\* A write is begun, is torn, or is taken back by a power loss.
Disturb == clean' \in BOOLEAN /\ UNCHANGED <<log, firm>>

\* The power goes: what no barrier covered is there for good, or gone.
PowerLoss ==
  /\ log' \in {log, SubSeq(log, 1, firm)}
  /\ firm' = Len(log')
  /\ clean' \in BOOLEAN

Init == log = <<>> /\ firm = 0 /\ clean = TRUE

Next == (\E rec \in Recs : Land(rec)) \/ Settle \/ Disturb \/ PowerLoss

Spec == Init /\ [][Next]_<<log, firm, clean>>
=============================================================================
