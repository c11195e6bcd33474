----------------------------- MODULE DataBuffer -----------------------------
(***************************************************************************)
(* The data buffers of lib/databuffer.c (buf_t): one allocation that holds *)
(* a string of bytes, with room kept in front of it (head_avail, left by   *)
(* removing at the beginning), after it (tail_avail, left by removing at   *)
(* the end) and for either side (data_avail).                              *)
(*                                                                         *)
(* Every function is an operator from a buffer to a buffer.  Memory is a   *)
(* sequence and a pointer into it an offset; memmove, memcpy and realloc   *)
(* do to the sequence what they do to memory.                              *)
(*                                                                         *)
(* An operator marked "Variant" is not part of the model: it is a way the  *)
(* definition after it could have been wrong.                              *)
(***************************************************************************)
EXTENDS Integers, Sequences

CONSTANTS
  Byte,             \* the values of a byte
  Junk,             \* what fresh memory holds
  Strings,          \* the strings the callers insert
  Sizes,            \* the sizes they allocate, reserve, remove and resize to
  MaxTotal,         \* bound on the allocation
  ReallocFails,     \* realloc may fail to make a buffer larger
  ShrinkFails       \* ... or smaller

Bytes == Byte \cup {Junk}

ASSUME SizesAssumption ==
  /\ Sizes \subseteq Nat
  /\ Strings \subseteq Seq(Byte)
  /\ \A s \in Strings : Len(s) \in Sizes
ASSUME TotalAssumption == MaxTotal \in Nat
ASSUME FailsAssumption == {ReallocFails, ShrinkFails} \subseteq BOOLEAN

VARIABLES
  buf,      \* the buffer
  aborted   \* assert(dest != NULL) has failed

vars == <<buf, aborted>>

\* struct databuffer: mem is what buffer points to, data the offset of data.
Buffer == [mem : Seq(Bytes), data : Nat, head : Nat, avail : Nat, tail : Nat,
           size : Nat]

Lesser(m, n) == IF m < n THEN m ELSE n

\* buf_total_size.
Total(p) == p.head + p.avail + p.tail + p.size

\* The bytes the buffer holds.
Content(p) == SubSeq(p.mem, p.head + 1, p.head + p.size)

\* memmove within a buffer's memory, memcpy into it, realloc.
Moved(mem, to, from, n) ==
  [i \in 1..Len(mem) |-> IF to < i /\ i <= to + n THEN mem[i - to + from] ELSE mem[i]]
Copied(mem, to, s) ==
  [i \in 1..Len(mem) |-> IF to < i /\ i <= to + Len(s) THEN s[i - to] ELSE mem[i]]
Realloc(mem, n) == [i \in 1..n |-> IF i <= Len(mem) THEN mem[i] ELSE Junk]

\* buf_new.
New(n) == [mem |-> [i \in 1..n |-> Junk], data |-> 0, head |-> 0, avail |-> n,
           tail |-> 0, size |-> 0]

\* Variant: the bytes stay where they are.
ShrunkUnmoved(p, n) ==
  LET over == Total(p) - n
      a == Lesser(over, p.avail)
      t == Lesser(over - a, p.tail)
      h == Lesser(over - a - t, p.head)
  IN  [p EXCEPT !.avail = @ - a, !.tail = @ - t, !.head = @ - h,
                !.size = @ - Lesser(over - a - t - h, @)]

\* buf_resize to less: the room goes first (for either side, after, in front),
\* then bytes at the end.
Shrunk(p, n) ==
  LET over == Total(p) - n
      a == Lesser(over, p.avail)
      t == Lesser(over - a, p.tail)
      h == Lesser(over - a - t, p.head)
  IN  [p EXCEPT !.avail = @ - a, !.tail = @ - t, !.head = @ - h,
                !.size = @ - Lesser(over - a - t - h, @),
                !.mem = Moved(@, p.head - h, p.head, p.size)]

\* buf_resize.  When realloc fails it leaves the memory, and the pointer, as
\* they are; the room given up is gone all the same.
Resize(p, n, ok) ==
  LET q    == IF n < Total(p) THEN Shrunk(p, n) ELSE p
      grow == IF n < Total(p) THEN 0 ELSE n - Total(p)
  IN  IF ok \/ n = 0
      THEN [q EXCEPT !.mem = Realloc(@, n), !.avail = @ + grow, !.data = q.head]
      ELSE q

\* Variant: the room at the ends is forgotten.
ReuseMiddle(p) == [p EXCEPT !.avail = @ + p.size, !.head = 0, !.tail = 0, !.size = 0,
                            !.data = 0]

\* buf_reuse.
Reuse(p) == [p EXCEPT !.avail = Total(p), !.head = 0, !.tail = 0, !.size = 0,
                      !.data = 0]

\* buf_reserve_begin: the buffer, and whether the pointer returned is not NULL.
\* The room for it is the one in front, then the one for either side, then new
\* memory.  A buffer resized to nothing has no memory: its pointers are NULL.
ReserveBegin(p, n, ok) ==
  IF p.head >= n
  THEN [ok  |-> p.mem # <<>>,
        buf |-> [p EXCEPT !.head = @ - n, !.size = @ + n, !.data = p.head - n]]
  ELSE LET q == IF n > p.head + p.avail
                THEN Resize(p, Total(p) + n - p.head - p.avail, ok) ELSE p
       IN  IF n > p.head + p.avail /\ q.avail = p.avail
           THEN [ok |-> FALSE, buf |-> q]
           ELSE [ok  |-> TRUE,
                 buf |-> [q EXCEPT !.mem   = Moved(@, n, q.head, q.size),
                                   !.avail = IF n > p.head + p.avail THEN 0
                                             ELSE @ - (n - p.head),
                                   !.head  = 0, !.size = @ + n, !.data = 0]]

\* Variant: the room at the end stays available.
ReserveEndTwice(p, n, ok) ==
  IF p.tail >= n
  THEN [ok  |-> p.mem # <<>>,
        buf |-> [p EXCEPT !.tail = @ - n, !.size = @ + n, !.data = p.head]]
  ELSE LET q == IF n > p.tail + p.avail
                THEN Resize(p, Total(p) + n - p.tail - p.avail, ok) ELSE p
       IN  IF n > p.tail + p.avail /\ q.avail = p.avail
           THEN [ok |-> FALSE, buf |-> q]
           ELSE [ok  |-> TRUE,
                 buf |-> [q EXCEPT !.avail = IF n > p.tail + p.avail THEN 0
                                             ELSE @ - (n - p.tail),
                                   !.size = @ + n, !.data = p.head]]

\* buf_reserve_end, in the same way.
ReserveEnd(p, n, ok) ==
  IF p.tail >= n
  THEN [ok  |-> p.mem # <<>>,
        buf |-> [p EXCEPT !.tail = @ - n, !.size = @ + n, !.data = p.head]]
  ELSE LET q == IF n > p.tail + p.avail
                THEN Resize(p, Total(p) + n - p.tail - p.avail, ok) ELSE p
       IN  IF n > p.tail + p.avail /\ q.avail = p.avail
           THEN [ok |-> FALSE, buf |-> q]
           ELSE [ok  |-> TRUE,
                 buf |-> [q EXCEPT !.avail = IF n > p.tail + p.avail THEN 0
                                             ELSE @ - (n - p.tail),
                                   !.tail = 0, !.size = @ + n, !.data = p.head]]

\* Variant: the pointer stays.
RemoveBeginStale(p, n) ==
  [p EXCEPT !.head = @ + Lesser(n, p.size), !.size = @ - Lesser(n, @)]

\* buf_remove_begin, buf_remove_end.
RemoveBegin(p, n) ==
  [p EXCEPT !.head = @ + Lesser(n, p.size), !.size = @ - Lesser(n, @),
            !.data = p.head + Lesser(n, p.size)]
RemoveEnd(p, n) ==
  [p EXCEPT !.tail = @ + Lesser(n, p.size), !.size = @ - Lesser(n, @)]

-----------------------------------------------------------------------------
(* The calls.                                                               *)

\* Whether realloc succeeds.
Reallocs == IF ReallocFails THEN BOOLEAN ELSE {TRUE}
Shrinks == IF ShrinkFails THEN BOOLEAN ELSE {TRUE}

\* The bound of the model.
Within(p) == Len(p.mem) <= MaxTotal

\* buf_insert_begin, buf_insert_end: reserve, assert, and copy.
InsertBegin(s) ==
  \E ok \in Reallocs :
    LET r == ReserveBegin(buf, Len(s), ok)
    IN  /\ ~aborted /\ Within(r.buf)
        /\ buf' = IF r.ok THEN [r.buf EXCEPT !.mem = Copied(@, r.buf.head, s)] ELSE r.buf
        /\ aborted' = ~r.ok
InsertEnd(s) ==
  \E ok \in Reallocs :
    LET r == ReserveEnd(buf, Len(s), ok)
    IN  /\ ~aborted /\ Within(r.buf)
        /\ buf' = IF r.ok THEN [r.buf EXCEPT !.mem = Copied(@, r.buf.head + buf.size, s)]
                  ELSE r.buf
        /\ aborted' = ~r.ok

\* The other functions, called by themselves.
Becomes(p) == ~aborted /\ Within(p) /\ buf' = p /\ UNCHANGED aborted

Reserve(n) ==
  \E ok \in Reallocs :
    Becomes(ReserveBegin(buf, n, ok).buf) \/ Becomes(ReserveEnd(buf, n, ok).buf)
Remove(n) == Becomes(RemoveBegin(buf, n)) \/ Becomes(RemoveEnd(buf, n))
Grow(n) == n >= Total(buf) /\ \E ok \in Reallocs : Becomes(Resize(buf, n, ok))
Shrink(n) == n < Total(buf) /\ \E ok \in Shrinks : Becomes(Resize(buf, n, ok))

Init == aborted = FALSE /\ \E n \in Sizes \ {0} : buf = New(n)

Next ==
  \/ \E s \in Strings : InsertBegin(s) \/ InsertEnd(s)
  \/ \E n \in Sizes : Reserve(n) \/ Remove(n) \/ Grow(n) \/ Shrink(n)
  \/ Becomes(Reuse(buf))

Spec == Init /\ [][Next]_vars

-----------------------------------------------------------------------------
(* Properties.                                                              *)

\* Type correctness, and no more room claimed than there is memory.
TypeOK == buf \in Buffer /\ aborted \in BOOLEAN /\ Total(buf) <= Len(buf.mem)

\* The room in front, for either side and at the end and the bytes held add up
\* to the allocation, so that none is ever lost (a realloc that fails to shrink
\* aside).
NothingLost == ~ShrinkFails => Total(buf) = Len(buf.mem)

\* "data: pointer to the location of *buffer where there is valid data"
\* (databuffer.h), after every function.
DataPointer == ~ShrinkFails => buf.data = buf.head

\* Every function does to the bytes held what its name says: they are added and
\* taken away at the ends, and neither a move nor a new allocation changes or
\* loses one.
Deque == INSTANCE ByteDeque WITH Lengths <- Sizes, bytes <- Content(buf)
ImplementsDeque == Deque!Spec
=============================================================================
