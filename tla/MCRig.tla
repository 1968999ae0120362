------------------------------- MODULE MCRig -------------------------------
(***************************************************************************)
(* Rig with one effect and two iterations, on an instrument with room for  *)
(* one torn slot: a second tear finds it full.                             *)
(***************************************************************************)
EXTENDS Rig
=============================================================================
