---------------------------- MODULE MCSbcpPublisher ----------------------------
(***************************************************************************)
(* Instances of SbcpPublisher for TLC.  Requests ab and bb share chain b:  *)
(* start_instance counts the transactions of a request, not its chains.    *)
(* solo has one transaction only and is refused.                           *)
(***************************************************************************)
EXTENDS SbcpPublisher, TLC

CONSTANTS a, b, ab, bb, solo

MCTxChains == [r \in XtRequest |->
  CASE r = ab -> <<a, b>> [] r = bb -> <<b, b>> [] OTHER -> <<a>>]

================================================================================
