-------------------------- MODULE JournalRefinement --------------------------
(***************************************************************************)
(* The journal implements BankLog: what a scan would yield, in order, how  *)
(* much of it owes nothing to a barrier, and whether erased media alone is *)
(* behind it.                                                              *)
(***************************************************************************)
EXTENDS Journal, FiniteSets, Sequences

\* The place of the k-th readable record.
NthReadable(k) ==
  CHOOSE i \in Readable : Cardinality({j \in Readable : j <= i}) = k

ReadableLog == [k \in 1 .. Cardinality(Readable) |-> media[NthReadable(k)].rec]

\* Every part of every slot up to i is covered by a barrier.
Settled(i) == \A p \in pending : p[1] > i

FirmLength == Cardinality({i \in Readable : Settled(i)})

\* A scan without faults would end on erased media.
EndsClean ==
  \E i \in 1 .. Slots + 1 : ErasedFrom(i) /\ \A j \in Places : j < i => Passable(media[j])

Abstract == INSTANCE BankLog WITH log <- ReadableLog, firm <- FirmLength, clean <- EndsClean

\* Seen through its readable records a journal only ever grows by one record
\* at its end, and a power loss takes back at most that one, and only while
\* no barrier has covered it (append.rs, recovery.rs; docs/architecture.md,
\* section 09).
ImplementsBankLog == Abstract!Spec
=============================================================================
