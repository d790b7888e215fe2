-------------------------------- MODULE MCWire --------------------------------
(***************************************************************************)
(* Instances of Wire for TLC.  The data has the shape of a length followed *)
(* by that many bytes, and includes the empty transaction.                 *)
(***************************************************************************)
EXTENDS Wire, TLC

MCData == {<<>>, <<1>>, <<1, 1>>}

================================================================================
