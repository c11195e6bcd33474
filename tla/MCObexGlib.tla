----------------------------- MODULE MCObexGlib -----------------------------
(* The sizes for model checking ObexGlib: a buffer of two bytes. *)
EXTENDS ObexGlib
=============================================================================
