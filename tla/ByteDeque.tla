----------------------------- MODULE ByteDeque -----------------------------
(***************************************************************************)
(* What a data buffer of OpenOBEX promises: a string of bytes that grows   *)
(* and shrinks at both ends.  DataBuffer implements it (see Deque there).  *)
(***************************************************************************)
EXTENDS Naturals, Sequences

CONSTANTS
  Bytes,    \* what a byte of the buffer may be, fresh memory included
  Lengths   \* how many bytes one operation adds

VARIABLE bytes

\* Bytes are added at an end; what they are is up to the writer.
AddLast == \E n \in Lengths : \E s \in [1..n -> Bytes] : bytes' = bytes \o s
AddFirst == \E n \in Lengths : \E s \in [1..n -> Bytes] : bytes' = s \o bytes

\* Bytes are taken away at an end.
DropFirst == \E n \in 0..Len(bytes) : bytes' = SubSeq(bytes, n + 1, Len(bytes))
DropLast == \E n \in 0..Len(bytes) : bytes' = SubSeq(bytes, 1, n)

Init == bytes = <<>>

Next == AddLast \/ AddFirst \/ DropFirst \/ DropLast

Spec == Init /\ [][Next]_bytes
=============================================================================
