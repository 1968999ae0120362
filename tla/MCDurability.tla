---------------------------- MODULE MCDurability ----------------------------
(***************************************************************************)
(* DurabilityWitness over every region that holds no witness, armed twice: *)
(* the second time on whatever the first one left.                         *)
(***************************************************************************)
EXTENDS DurabilityWitness
=============================================================================
