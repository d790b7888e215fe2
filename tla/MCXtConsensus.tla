----------------------------- MODULE MCXtConsensus -----------------------------
(***************************************************************************)
(* Instances of XtConsensus for TLC.  ab and bc compete for chain b, cd    *)
(* runs beside ab and competes with bc, and aa names one chain twice.      *)
(***************************************************************************)
EXTENDS XtConsensus

CONSTANTS a, b, c, d, ab, bc, cd, aa

MCTxChains ==
  [r \in XtRequest |-> CASE r = ab -> <<a, b>>
                         [] r = bc -> <<b, c, b>>
                         [] r = cd -> <<c, d>>
                         [] r = aa -> <<a, a>>]

================================================================================
