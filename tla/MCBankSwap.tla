------------------------------ MODULE MCBankSwap ------------------------------
(***************************************************************************)
(* BankSwap with room for two swaps, so that each bank is installed over   *)
(* and the one after the last generation is refused.                       *)
(***************************************************************************)
EXTENDS BankSwap
=============================================================================
