----------------------------- MODULE HeaderPipe -----------------------------
(***************************************************************************)
(* What the transfer of one object promises the two applications,          *)
(* whatever packets and reads it takes: the headers the one application    *)
(* has added reach the other whole and in the order they were added.  The  *)
(* transfer is done only when all of them are there; it may fail at any    *)
(* time.                                                                   *)
(***************************************************************************)
EXTENDS Naturals, Sequences, SequencesExt

CONSTANT Headers      \* the headers an application may add

VARIABLES
  given,              \* the headers added, in order
  got,                \* those that have arrived
  end                 \* "open", or how the transfer ended

vars == <<given, got, end>>

Init == given = <<>> /\ got = <<>> /\ end = "open"

Give ==
  /\ end = "open" /\ got = <<>>
  /\ \E h \in Headers : given' = Append(given, h)
  /\ UNCHANGED <<got, end>>

Get ==
  /\ end = "open"
  /\ got # given
  /\ got' = Append(got, given[Len(got) + 1])
  /\ UNCHANGED <<given, end>>

Done == end = "open" /\ got = given /\ end' = "done" /\ UNCHANGED <<given, got>>

Fail == end = "open" /\ end' = "failed" /\ UNCHANGED <<given, got>>

Next == Give \/ Get \/ Done \/ Fail

Spec == Init /\ [][Next]_vars
=============================================================================
