-------------------------------- MODULE MCSbcp --------------------------------
(***************************************************************************)
(* Instances of Sbcp for TLC.  Both transactions of request aa are of a.   *)
(***************************************************************************)
EXTENDS SbcpInvariant, TLC

CONSTANTS a, aa

MCTxChains == [r \in XtRequest |-> <<a, a>>]

================================================================================
