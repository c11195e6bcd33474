----------------------------- MODULE MCObexWire -----------------------------
(***************************************************************************)
(* The sizes for the run of ObexWire: nine bytes of a packet of twelve are *)
(* left for headers, seven over IrDA.  Each set has sizes that fill what   *)
(* is left, that leave one or two bytes, and that do not fit; a header of  *)
(* nine is one that is accepted and never fits over IrDA.                  *)
(***************************************************************************)
EXTENDS ObexWire
=============================================================================
