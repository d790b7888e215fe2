------------------------------ MODULE MCSettlement -----------------------------
(***************************************************************************)
(* Instances of Settlement for TLC; the configurations give all constants. *)
(***************************************************************************)
EXTENDS Settlement, TLC

================================================================================
