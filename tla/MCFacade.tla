----------------------------- MODULE MCFacade -----------------------------
(***************************************************************************)
(* Facade with one activity and a timer on each clock, in banks of two     *)
(* boundaries: an effect or a timer in front of another, and a third that  *)
(* does not fit.                                                           *)
(***************************************************************************)
EXTENDS Facade

CONSTANT a

MCActivities == {a}
MCSpecs == {[clock |-> "AfterBoot", deadline |-> 1],
            [clock |-> "AtPersistentTime", deadline |-> 1]}
=============================================================================
