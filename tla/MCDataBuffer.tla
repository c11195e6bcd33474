---------------------------- MODULE MCDataBuffer ----------------------------
(***************************************************************************)
(* Model values for the run of DataBuffer.                                 *)
(***************************************************************************)
EXTENDS DataBuffer

MCStrings == {<<>>, <<1>>, <<1, 2>>, <<2, 1, 1>>}
=============================================================================
