------------------------------ MODULE MCJournal ------------------------------
(***************************************************************************)
(* Journal with three slots: one to be torn, one to be skipped and one to  *)
(* be acknowledged behind them.  Two records suffice, one recovery may     *)
(* skip and one it may not: records are compared only with themselves.     *)
(***************************************************************************)
EXTENDS JournalRefinement

CONSTANTS schedule, outcome, none

MCRecs == {schedule, outcome}
MCRedeliverable == {outcome}
=============================================================================
