-------------------------- MODULE DataBufferProofs --------------------------
(***************************************************************************)
(* Theorems of DataBuffer, for all sizes, strings and failures: the room   *)
(* adds up, the data pointer is current, and every function does to the    *)
(* bytes held what ByteDeque says.                                         *)
(*                                                                         *)
(* The proof speaks of memory byte by byte: Holds relates the bytes of two *)
(* buffers by their places in memory, and one lemma for each end turns     *)
(* that into an equation of strings.                                       *)
(***************************************************************************)
EXTENDS DataBuffer, SequenceTheorems, TLAPS

\* No more room claimed than there is memory.
Room(p) == p \in Buffer /\ Total(p) <= Len(p.mem)

\* ... and no less, and a data pointer that is current.
Exact(p) == Total(p) = Len(p.mem) /\ p.data = p.head

\* q holds the bytes of p from the first "from", those at the places 1..n of p
\* at the places k+1..k+n of q.
Holds(q, k, p, from, n) ==
  \A i \in 1..n : q.mem[q.head + k + i] = p.mem[p.head + from + i]

\* The inductive invariant.
IInv == Room(buf) /\ aborted \in BOOLEAN /\ (~ShrinkFails => Exact(buf))

-----------------------------------------------------------------------------
(* Memory.                                                                  *)

\* The bytes of a buffer, one by one.
LEMMA ContentBytes ==
  ASSUME NEW p, Room(p)
  PROVE  /\ Content(p) \in Seq(Bytes)
         /\ Len(Content(p)) = p.size
         /\ \A i \in 1..p.size : Content(p)[i] = p.mem[p.head + i]
<1>1. /\ p.head \in Nat /\ p.size \in Nat /\ p.mem \in Seq(Bytes)
      /\ p.head + p.size <= Len(p.mem) /\ Len(p.mem) \in Nat
  BY LenProperties DEF Room, Buffer, Total
<1>2. \A i \in (p.head + 1)..(p.head + p.size) : p.mem[i] \in Bytes
  BY <1>1, ElementOfSeq
<1> QED
  BY <1>1, <1>2, SubSeqProperties DEF Content

\* memmove stays within the memory and moves the bytes.
LEMMA MovedBytes ==
  ASSUME NEW mem \in Seq(Bytes), NEW to \in Nat, NEW from \in Nat, NEW n \in Nat,
         to + n <= Len(mem), from + n <= Len(mem)
  PROVE  /\ Moved(mem, to, from, n) \in Seq(Bytes)
         /\ Len(Moved(mem, to, from, n)) = Len(mem)
         /\ \A i \in 1..n : Moved(mem, to, from, n)[to + i] = mem[from + i]
<1>1. Len(mem) \in Nat /\ \A i \in 1..Len(mem) : mem[i] \in Bytes
  BY LenProperties, ElementOfSeq
<1> QED
  BY <1>1 DEF Moved

\* memcpy of a string into memory.
LEMMA CopiedBytes ==
  ASSUME NEW mem \in Seq(Bytes), NEW to \in Nat, NEW s \in Seq(Byte),
         to + Len(s) <= Len(mem)
  PROVE  /\ Copied(mem, to, s) \in Seq(Bytes)
         /\ Len(Copied(mem, to, s)) = Len(mem)
         /\ \A i \in 1..Len(mem) :
              (i <= to \/ to + Len(s) < i) => Copied(mem, to, s)[i] = mem[i]
<1>1. Len(mem) \in Nat /\ \A i \in 1..Len(mem) : mem[i] \in Bytes
  BY LenProperties, ElementOfSeq
<1>2. Len(s) \in Nat /\ \A i \in 1..Len(s) : s[i] \in Bytes
  BY LenProperties, ElementOfSeq DEF Bytes
<1> QED
  BY <1>1, <1>2 DEF Copied

\* realloc keeps what fits.
LEMMA ReallocBytes ==
  ASSUME NEW mem \in Seq(Bytes), NEW n \in Nat
  PROVE  /\ Realloc(mem, n) \in Seq(Bytes)
         /\ Len(Realloc(mem, n)) = n
         /\ \A i \in 1..Lesser(n, Len(mem)) : Realloc(mem, n)[i] = mem[i]
<1>1. Len(mem) \in Nat /\ \A i \in 1..Len(mem) : mem[i] \in Bytes
  BY LenProperties, ElementOfSeq
<1> QED
  BY <1>1 DEF Realloc, Bytes, Lesser

-----------------------------------------------------------------------------
(* From places in memory to strings.                                        *)

\* q holds the bytes of p and n more after them.
LEMMA LongerAtEnd ==
  ASSUME NEW p, NEW q, NEW n \in Nat, Room(p), Room(q),
         q.size = p.size + n, Holds(q, 0, p, 0, p.size)
  PROVE  \E s \in [1..n -> Bytes] : Content(q) = Content(p) \o s
<1> DEFINE s == [i \in 1..n |-> Content(q)[p.size + i]]
<1>1. p.size \in Nat /\ q.size \in Nat
  BY DEF Room, Buffer
<1>2. \A i \in 1..n : Content(q)[p.size + i] \in Bytes
  BY <1>1, ContentBytes, ElementOfSeq
<1>3. s \in [1..n -> Bytes] /\ s \in Seq(Bytes) /\ Len(s) = n
  BY <1>2
<1>4. \A i \in 1..n : s[i] = Content(q)[p.size + i]
  OBVIOUS
<1> HIDE DEF s
<1>5. /\ Content(p) \o s \in Seq(Bytes)
      /\ Len(Content(p) \o s) = q.size
      /\ \A i \in 1..q.size : (Content(p) \o s)[i] =
                                IF i <= p.size THEN Content(p)[i] ELSE s[i - p.size]
  <2>1. Content(p) \in Seq(Bytes) /\ Len(Content(p)) = p.size
    BY ContentBytes
  <2> QED
    BY <1>1, <1>3, <2>1, ConcatProperties, SMTT(20)
<1>6. \A i \in 1..p.size : Content(q)[i] = Content(p)[i]
  <2> SUFFICES ASSUME NEW i \in 1..p.size
               PROVE  Content(q)[i] = Content(p)[i]
    OBVIOUS
  <2>1. Content(q)[i] = q.mem[q.head + i] /\ Content(p)[i] = p.mem[p.head + i]
    BY <1>1, ContentBytes
  <2>2. q.mem[q.head + 0 + i] = p.mem[p.head + 0 + i]
    BY DEF Holds
  <2>3. q.head \in Nat /\ p.head \in Nat
    BY DEF Room, Buffer
  <2> QED
    BY <2>1, <2>2, <2>3
<1>7. \A i \in 1..q.size : Content(q)[i] = (Content(p) \o s)[i]
  BY <1>1, <1>4, <1>5, <1>6, SMTT(20)
<1>8. Content(q) \in Seq(Bytes) /\ Len(Content(q)) = q.size
  BY ContentBytes
<1>9. Content(q) = Content(p) \o s
  BY <1>5, <1>7, <1>8, SeqEqual
<1> QED
  BY <1>3, <1>9

\* q holds n more bytes before those of p.
LEMMA LongerAtBegin ==
  ASSUME NEW p, NEW q, NEW n \in Nat, Room(p), Room(q),
         q.size = p.size + n, Holds(q, n, p, 0, p.size)
  PROVE  \E s \in [1..n -> Bytes] : Content(q) = s \o Content(p)
<1> DEFINE s == [i \in 1..n |-> Content(q)[i]]
<1>1. p.size \in Nat /\ q.size \in Nat
  BY DEF Room, Buffer
<1>2. \A i \in 1..n : Content(q)[i] \in Bytes
  BY <1>1, ContentBytes, ElementOfSeq
<1>3. s \in [1..n -> Bytes] /\ s \in Seq(Bytes) /\ Len(s) = n
  BY <1>2
<1>4. \A i \in 1..n : s[i] = Content(q)[i]
  OBVIOUS
<1> HIDE DEF s
<1>5. /\ s \o Content(p) \in Seq(Bytes)
      /\ Len(s \o Content(p)) = q.size
      /\ \A i \in 1..q.size : (s \o Content(p))[i] =
                                IF i <= n THEN s[i] ELSE Content(p)[i - n]
  <2>1. Content(p) \in Seq(Bytes) /\ Len(Content(p)) = p.size
    BY ContentBytes
  <2>2. /\ s \o Content(p) \in Seq(Bytes)
        /\ Len(s \o Content(p)) = n + p.size
        /\ \A i \in 1..(n + p.size) : (s \o Content(p))[i] =
                                        IF i <= n THEN s[i] ELSE Content(p)[i - n]
    <3>1. /\ s \o Content(p) \in Seq(Bytes)
          /\ Len(s \o Content(p)) = Len(s) + Len(Content(p))
          /\ \A i \in 1..(Len(s) + Len(Content(p))) :
               (s \o Content(p))[i] = IF i <= Len(s) THEN s[i]
                                     ELSE Content(p)[i - Len(s)]
      BY <1>3, <2>1, ConcatProperties
    <3> QED
      BY <1>3, <2>1, <3>1
  <2>3. n + p.size = q.size
    BY <1>1
  <2> QED
    BY <2>2, <2>3
<1>6. \A i \in 1..p.size : Content(q)[n + i] = Content(p)[i]
  <2> SUFFICES ASSUME NEW i \in 1..p.size
               PROVE  Content(q)[n + i] = Content(p)[i]
    OBVIOUS
  <2>1. Content(q)[n + i] = q.mem[q.head + (n + i)] /\ Content(p)[i] = p.mem[p.head + i]
    <3>1. n + i \in 1..q.size
      BY <1>1
    <3> QED
      BY <3>1, ContentBytes
  <2>2. q.mem[q.head + n + i] = p.mem[p.head + 0 + i]
    BY DEF Holds
  <2>3. q.head \in Nat /\ p.head \in Nat
    BY DEF Room, Buffer
  <2>4. q.head + (n + i) = q.head + n + i /\ p.head + 0 + i = p.head + i
    BY <2>3
  <2> QED
    BY <2>1, <2>2, <2>4
<1>7. \A i \in 1..q.size : Content(q)[i] = (s \o Content(p))[i]
  <2> SUFFICES ASSUME NEW i \in 1..q.size
               PROVE  Content(q)[i] = (s \o Content(p))[i]
    OBVIOUS
  <2>1. CASE i <= n
    BY <2>1, <1>4, <1>5
  <2>2. CASE i > n
    <3>1. i - n \in 1..p.size /\ n + (i - n) = i
      BY <1>1, <2>2
    <3>2. Content(q)[n + (i - n)] = Content(p)[i - n]
      BY <3>1, <1>6
    <3>3. (s \o Content(p))[i] = Content(p)[i - n]
      BY <1>1, <2>2, <1>5
    <3> QED
      BY <3>1, <3>2, <3>3
  <2>3. i <= n \/ i > n
    BY <1>1
  <2> QED
    BY <2>1, <2>2, <2>3
<1>8. Content(q) \in Seq(Bytes) /\ Len(Content(q)) = q.size
  BY ContentBytes
<1>9. Content(q) = s \o Content(p)
  BY <1>5, <1>7, <1>8, SeqEqual
<1> QED
  BY <1>3, <1>9

\* q holds what is left of p after its first n bytes.
LEMMA ShorterAtBegin ==
  ASSUME NEW p, NEW q, NEW n \in Nat, Room(p), Room(q),
         p.size = q.size + n, Holds(q, 0, p, n, q.size)
  PROVE  /\ n \in 0..Len(Content(p))
         /\ Content(q) = SubSeq(Content(p), n + 1, Len(Content(p)))
<1>1. p.size \in Nat /\ q.size \in Nat /\ p.head \in Nat /\ q.head \in Nat
  BY DEF Room, Buffer
<1>2. /\ Content(p) \in Seq(Bytes) /\ Len(Content(p)) = p.size
      /\ Content(q) \in Seq(Bytes) /\ Len(Content(q)) = q.size
  BY ContentBytes
<1> DEFINE t == SubSeq(Content(p), n + 1, p.size)
<1>3. \A i \in (n + 1)..p.size : Content(p)[i] \in Bytes
  BY <1>1, <1>2, ElementOfSeq
<1>4. /\ t \in Seq(Bytes)
      /\ Len(t) = IF n + 1 <= p.size THEN p.size - (n + 1) + 1 ELSE 0
      /\ \A i \in 1..(p.size - (n + 1) + 1) : t[i] = Content(p)[n + 1 + i - 1]
  BY <1>1, <1>3, SubSeqProperties
<1> HIDE DEF t
<1>5. Len(t) = q.size
  BY <1>1, <1>4
<1>6. \A i \in 1..q.size : Content(q)[i] = t[i]
  <2> SUFFICES ASSUME NEW i \in 1..q.size
               PROVE  Content(q)[i] = t[i]
    OBVIOUS
  <2>1. t[i] = Content(p)[n + i] /\ n + i \in 1..p.size
    <3>1. i \in 1..(p.size - (n + 1) + 1) /\ n + 1 + i - 1 = n + i
      BY <1>1
    <3>2. t[i] = Content(p)[n + 1 + i - 1]
      BY <1>4, <3>1
    <3> QED
      BY <1>1, <3>1, <3>2
  <2>2. Content(q)[i] = q.mem[q.head + i] /\ Content(p)[n + i] = p.mem[p.head + (n + i)]
    BY <1>1, <2>1, ContentBytes
  <2>3. q.mem[q.head + 0 + i] = p.mem[p.head + n + i]
    BY DEF Holds
  <2>4. q.head + 0 + i = q.head + i /\ p.head + (n + i) = p.head + n + i
    BY <1>1
  <2> QED
    BY <2>1, <2>2, <2>3, <2>4
<1>7. Content(q) = t
  BY <1>2, <1>4, <1>5, <1>6, SeqEqual
<1> QED
  BY <1>1, <1>2, <1>7 DEF t

\* q holds the first bytes of p.
LEMMA ShorterAtEnd ==
  ASSUME NEW p, NEW q, Room(p), Room(q),
         q.size <= p.size, Holds(q, 0, p, 0, q.size)
  PROVE  /\ q.size \in 0..Len(Content(p))
         /\ Content(q) = SubSeq(Content(p), 1, q.size)
<1>1. p.size \in Nat /\ q.size \in Nat /\ p.head \in Nat /\ q.head \in Nat
  BY DEF Room, Buffer
<1>2. /\ Content(p) \in Seq(Bytes) /\ Len(Content(p)) = p.size
      /\ Content(q) \in Seq(Bytes) /\ Len(Content(q)) = q.size
  BY ContentBytes
<1> DEFINE t == SubSeq(Content(p), 1, q.size)
<1>3. \A i \in 1..q.size : Content(p)[i] \in Bytes
  BY <1>1, <1>2, ElementOfSeq
<1>4. /\ t \in Seq(Bytes)
      /\ Len(t) = IF 1 <= q.size THEN q.size - 1 + 1 ELSE 0
      /\ \A i \in 1..(q.size - 1 + 1) : t[i] = Content(p)[1 + i - 1]
  BY <1>1, <1>3, SubSeqProperties
<1> HIDE DEF t
<1>5. Len(t) = q.size
  BY <1>1, <1>4
<1>6. \A i \in 1..q.size : Content(q)[i] = t[i]
  <2> SUFFICES ASSUME NEW i \in 1..q.size
               PROVE  Content(q)[i] = t[i]
    OBVIOUS
  <2>1. t[i] = Content(p)[i] /\ i \in 1..p.size
    BY <1>1, <1>4
  <2>2. Content(q)[i] = q.mem[q.head + i] /\ Content(p)[i] = p.mem[p.head + i]
    BY <1>1, <2>1, ContentBytes
  <2>3. q.mem[q.head + 0 + i] = p.mem[p.head + 0 + i]
    BY DEF Holds
  <2>4. q.head + 0 + i = q.head + i /\ p.head + 0 + i = p.head + i
    BY <1>1
  <2> QED
    BY <2>1, <2>2, <2>3, <2>4
<1>7. Content(q) = t
  BY <1>2, <1>4, <1>5, <1>6, SeqEqual
<1> QED
  BY <1>1, <1>2, <1>7 DEF t

-----------------------------------------------------------------------------
(* The functions.                                                           *)

\* buf_new.
LEMMA NewRoom ==
  ASSUME NEW n \in Nat
  PROVE  Room(New(n)) /\ Exact(New(n)) /\ Content(New(n)) = <<>>
<1>1. [i \in 1..n |-> Junk] \in Seq(Bytes) /\ Len([i \in 1..n |-> Junk]) = n
  BY DEF Bytes
<1>2. Room(New(n)) /\ Exact(New(n)) /\ New(n).size = 0
  BY <1>1 DEF Room, Exact, New, Buffer, Total
<1>3. Content(New(n)) \in Seq(Bytes) /\ Len(Content(New(n))) = 0
  BY <1>2, ContentBytes
<1> QED
  BY <1>2, <1>3, EmptySeq

\* The amounts of a buffer as numbers.
Amounts(p, head, avail, tail, size, len) ==
  /\ p.head = head /\ p.avail = avail /\ p.tail = tail /\ p.size = size
  /\ Len(p.mem) = len /\ p.mem \in Seq(Bytes) /\ p.data \in Nat
  /\ Total(p) = head + avail + tail + size

LEMMA RoomAmounts ==
  ASSUME NEW p, Room(p)
  PROVE  \E head \in Nat, avail \in Nat, tail \in Nat, size \in Nat, len \in Nat :
           Amounts(p, head, avail, tail, size, len) /\ head + avail + tail + size <= len
BY LenProperties DEF Room, Buffer, Total, Amounts

\* What each kind of room, and the bytes, give up when "over" bytes are too many.
GivenUp(head, avail, tail, size, over, a, t, h, d) ==
  /\ a = Lesser(over, avail) /\ t = Lesser(over - a, tail)
  /\ h = Lesser(over - a - t, head) /\ d = Lesser(over - a - t - h, size)
  /\ a + t + h + d = over

LEMMA ShrunkAmounts ==
  ASSUME NEW head \in Nat, NEW avail \in Nat, NEW tail \in Nat, NEW size \in Nat,
         NEW n \in Nat, n < head + avail + tail + size
  PROVE  \E a \in 0..avail, t \in 0..tail, h \in 0..head, d \in 0..size :
           GivenUp(head, avail, tail, size, head + avail + tail + size - n, a, t, h, d)
<1> DEFINE over == head + avail + tail + size - n
<1>1. PICK a \in 0..avail : a = Lesser(over, avail) /\ over - a \in Nat
  BY DEF Lesser
<1>2. PICK t \in 0..tail : t = Lesser(over - a, tail) /\ over - a - t \in Nat
  BY <1>1 DEF Lesser
<1>3. PICK h \in 0..head : h = Lesser(over - a - t, head) /\ over - a - t - h \in Nat
  BY <1>2 DEF Lesser
<1>4. over - a - t - h <= size
  BY <1>1, <1>2, <1>3 DEF Lesser
<1>5. PICK d \in 0..size : d = Lesser(over - a - t - h, size) /\ a + t + h + d = over
  BY <1>3, <1>4 DEF Lesser
<1> QED
  BY <1>1, <1>2, <1>3, <1>5 DEF GivenUp

\* buf_resize to less, before realloc.
LEMMA ShrunkRoom ==
  ASSUME NEW p, Room(p), NEW n \in Nat, n < Total(p)
  PROVE  LET q == Shrunk(p, n)
         IN  /\ Room(q) /\ Total(q) = n /\ q.size <= p.size
             /\ Holds(q, 0, p, 0, q.size)
<1>1. PICK head \in Nat, avail \in Nat, tail \in Nat, size \in Nat, len \in Nat :
           Amounts(p, head, avail, tail, size, len) /\ head + avail + tail + size <= len
  BY RoomAmounts
<1>2. PICK a \in 0..avail, t \in 0..tail, h \in 0..head, d \in 0..size :
           GivenUp(head, avail, tail, size, head + avail + tail + size - n, a, t, h, d)
  <2>1. n < head + avail + tail + size
    BY <1>1 DEF Amounts
  <2> QED
    BY <2>1, ShrunkAmounts
<1> DEFINE q == Shrunk(p, n)
<1>3. q = [p EXCEPT !.avail = avail - a, !.tail = tail - t, !.head = head - h,
                    !.size = size - d, !.mem = Moved(p.mem, head - h, head, size)]
  <2>1. Lesser(Total(p) - n, p.avail) = a
    BY <1>1, <1>2 DEF Amounts, GivenUp
  <2>2. Lesser(Total(p) - n - a, p.tail) = t
    BY <1>1, <1>2 DEF Amounts, GivenUp
  <2>3. Lesser(Total(p) - n - a - t, p.head) = h
    BY <1>1, <1>2 DEF Amounts, GivenUp
  <2>4. Lesser(Total(p) - n - a - t - h, p.size) = d
    BY <1>1, <1>2 DEF Amounts, GivenUp
  <2>5. p.avail = avail /\ p.tail = tail /\ p.head = head /\ p.size = size
    BY <1>1 DEF Amounts
  <2> QED
    BY <2>1, <2>2, <2>3, <2>4, <2>5 DEF Shrunk, Room, Buffer
<1>4. /\ q.avail = avail - a /\ q.tail = tail - t /\ q.head = head - h /\ q.size = size - d
      /\ q.data = p.data /\ q.mem = Moved(p.mem, head - h, head, size)
  BY <1>3 DEF Room, Buffer
<1>5. /\ Moved(p.mem, head - h, head, size) \in Seq(Bytes)
      /\ Len(Moved(p.mem, head - h, head, size)) = len
      /\ \A i \in 1..size : Moved(p.mem, head - h, head, size)[(head - h) + i] = p.mem[head + i]
  <2>1. PICK k \in Nat : k = head - h
    OBVIOUS
  <2>2. PICK mem \in Seq(Bytes) : mem = p.mem /\ Len(mem) = len
    BY <1>1 DEF Amounts
  <2>3. k + size <= Len(mem) /\ head + size <= Len(mem)
    BY <1>1, <2>1, <2>2
  <2> HIDE DEF q
  <2>4. Moved(mem, k, head, size) \in Seq(Bytes)
    BY <2>3, MovedBytes
  <2>5. Len(Moved(mem, k, head, size)) = Len(mem)
    BY <2>3, MovedBytes
  <2>6. \A i \in 1..size : Moved(mem, k, head, size)[k + i] = mem[head + i]
    BY <2>3, MovedBytes
  <2> QED
    BY <2>1, <2>2, <2>4, <2>5, <2>6
<1>6. avail - a \in Nat /\ tail - t \in Nat /\ head - h \in Nat /\ size - d \in Nat
  OBVIOUS
<1>7. q \in Buffer
  BY <1>3, <1>5, <1>6 DEF Room, Buffer
<1> HIDE DEF q
<1>8. Total(q) = n /\ n <= len
  <2>1. Total(q) = (head - h) + (avail - a) + (tail - t) + (size - d)
    BY <1>4 DEF Total
  <2> QED
    BY <1>1, <1>2, <2>1 DEF GivenUp
<1>9. Holds(q, 0, p, 0, q.size)
  <2> SUFFICES ASSUME NEW i \in 1..(size - d)
               PROVE  q.mem[(head - h) + 0 + i] = p.mem[head + 0 + i]
    BY <1>1, <1>4 DEF Holds, Amounts
  <2>1. i \in 1..size /\ (head - h) + 0 + i = (head - h) + i /\ head + 0 + i = head + i
    OBVIOUS
  <2> QED
    BY <1>4, <1>5, <2>1
<1> QED
  BY <1>1, <1>4, <1>5, <1>7, <1>8, <1>9 DEF Room, Amounts, q

\* realloc of a buffer whose bytes all stay.
Reallocated(p, n, g) ==
  [p EXCEPT !.mem = Realloc(p.mem, n), !.avail = p.avail + g, !.data = p.head]

LEMMA ReallocRoom ==
  ASSUME NEW p, Room(p), NEW n \in Nat, NEW g \in Nat, Total(p) + g = n
  PROVE  LET q == Reallocated(p, n, g)
         IN  /\ Room(q) /\ Exact(q) /\ q.size = p.size /\ q.head = p.head
             /\ q.tail = p.tail /\ q.avail = p.avail + g /\ Holds(q, 0, p, 0, p.size)
<1>1. PICK head \in Nat, avail \in Nat, tail \in Nat, size \in Nat, len \in Nat :
           Amounts(p, head, avail, tail, size, len) /\ head + avail + tail + size <= len
  BY RoomAmounts
<1> DEFINE q == Reallocated(p, n, g)
<1>q. q = [p EXCEPT !.mem = Realloc(p.mem, n), !.avail = avail + g, !.data = head]
  BY <1>1 DEF Reallocated, Amounts
<1> HIDE DEF q
<1>2. /\ q.mem = Realloc(p.mem, n) /\ q.avail = avail + g /\ q.data = head
      /\ q.head = head /\ q.tail = tail /\ q.size = size
  BY <1>1, <1>q DEF Room, Buffer, Amounts
<1>3. /\ Realloc(p.mem, n) \in Seq(Bytes) /\ Len(Realloc(p.mem, n)) = n
      /\ \A i \in 1..Lesser(n, len) : Realloc(p.mem, n)[i] = p.mem[i]
  BY <1>1, ReallocBytes DEF Amounts
<1>4. q \in Buffer
  <2>1. avail + g \in Nat
    OBVIOUS
  <2> QED
    BY <1>1, <1>q, <1>3, <2>1 DEF Room, Buffer, Amounts
<1>5. Total(q) = n
  <2>1. Total(q) = head + (avail + g) + tail + size /\ head + avail + tail + size + g = n
    BY <1>1, <1>2 DEF Total, Amounts
  <2> QED
    BY <2>1
<1>6. Holds(q, 0, p, 0, p.size)
  <2> SUFFICES ASSUME NEW i \in 1..size
               PROVE  q.mem[head + 0 + i] = p.mem[head + 0 + i]
    BY <1>1, <1>2 DEF Holds, Amounts
  <2>1. head + avail + tail + size + g = n
    BY <1>1 DEF Amounts
  <2>2. head + 0 + i \in 1..Lesser(n, len)
    BY <1>1, <2>1 DEF Lesser
  <2> QED
    BY <1>2, <1>3, <2>2
<1> QED
  BY <1>1, <1>2, <1>3, <1>4, <1>5, <1>6 DEF Room, Exact, Amounts, q

\* Bytes moved twice.
LEMMA HoldsTwice ==
  ASSUME NEW p, NEW q, NEW r, NEW k, NEW n, Holds(r, k, q, 0, n), Holds(q, 0, p, 0, n)
  PROVE  Holds(r, k, p, 0, n)
BY DEF Holds

\* buf_resize.
LEMMA ResizeRoom ==
  ASSUME NEW p, Room(p), NEW n \in Nat, NEW ok \in BOOLEAN
  PROVE  LET q == Resize(p, n, ok)
         IN  /\ Room(q) /\ q.size <= p.size /\ Holds(q, 0, p, 0, q.size)
             /\ ok => Exact(q)
             /\ n > Total(p) => /\ ok \/ q = p
                                /\ ok => /\ q.size = p.size /\ q.head = p.head
                                         /\ q.tail = p.tail
                                         /\ q.avail = p.avail + (n - Total(p))
             /\ n >= Total(p) /\ Exact(p) => Exact(q)
             /\ n >= Total(p) => q.size = p.size
<1> DEFINE q == Resize(p, n, ok)
<1>1. Total(p) \in Nat /\ p.size \in Nat /\ p.avail \in Nat
  BY DEF Room, Buffer, Total
<1>2. p.size <= p.size /\ Holds(p, 0, p, 0, p.size)
  BY <1>1 DEF Holds
<1>3. CASE n < Total(p)
  <2> DEFINE s == Shrunk(p, n)
  <2>1. Room(s) /\ Total(s) = n /\ s.size <= p.size /\ Holds(s, 0, p, 0, s.size)
    BY <1>3, ShrunkRoom
  <2>2. CASE ok \/ n = 0
    <3> DEFINE r == Reallocated(s, n, 0)
    <3>1. q = r
      BY <1>3, <2>2 DEF Resize, Reallocated
    <3> HIDE DEF s, q
    <3>2. n + 0 = n
      OBVIOUS
    <3>3. Room(r) /\ Exact(r) /\ r.size = s.size /\ Holds(r, 0, s, 0, s.size)
      BY <2>1, <3>2, ReallocRoom
    <3> HIDE DEF r
    <3>4. Holds(r, 0, p, 0, r.size)
      BY <2>1, <3>3, HoldsTwice
    <3> QED
      BY <1>1, <1>3, <2>1, <3>1, <3>3, <3>4 DEF q
  <2>3. CASE ~(ok \/ n = 0)
    <3>1. q = s
      BY <1>3, <2>3 DEF Resize
    <3> HIDE DEF s, q
    <3> QED
      BY <1>1, <1>3, <2>1, <2>3, <3>1 DEF q
  <2> QED
    BY <2>2, <2>3
<1>4. CASE n >= Total(p)
  <2>1. CASE ok \/ n = 0
    <3>1. PICK g \in Nat : g = n - Total(p)
      BY <1>1, <1>4
    <3> DEFINE r == Reallocated(p, n, g)
    <3>2. q = r
      <4>1. ~(n < Total(p))
        BY <1>1, <1>4
      <4> QED
        BY <2>1, <3>1, <4>1 DEF Resize, Reallocated
    <3> HIDE DEF q
    <3>3. Total(p) + g = n
      BY <1>1, <3>1
    <3>4. /\ Room(r) /\ Exact(r) /\ r.size = p.size /\ r.head = p.head /\ r.tail = p.tail
          /\ r.avail = p.avail + g /\ Holds(r, 0, p, 0, p.size)
      BY <3>3, ReallocRoom
    <3> HIDE DEF r
    <3>5. n > Total(p) => ok
      BY <1>1, <2>1
    <3> QED
      BY <1>1, <1>4, <3>1, <3>2, <3>4, <3>5 DEF q
  <2>2. CASE ~(ok \/ n = 0)
    <3>1. q = p
      BY <1>1, <1>4, <2>2 DEF Resize
    <3> HIDE DEF q
    <3> QED
      BY <1>1, <1>2, <1>4, <2>2, <3>1 DEF q
  <2> QED
    BY <2>1, <2>2
<1>5. n < Total(p) \/ n >= Total(p)
  BY <1>1
<1> QED
  BY <1>3, <1>4, <1>5

\* Room after the bytes, or for either side, becomes n bytes at the end.
TakenAtEnd(p, avail, tail, n) ==
  [p EXCEPT !.avail = avail, !.tail = tail, !.size = p.size + n, !.data = p.head]

LEMMA TakenAtEndRoom ==
  ASSUME NEW p, Room(p), NEW avail \in Nat, NEW tail \in Nat, NEW n \in Nat,
         avail + tail + n = p.avail + p.tail
  PROVE  LET q == TakenAtEnd(p, avail, tail, n)
         IN  /\ Room(q) /\ q.size = p.size + n /\ Holds(q, 0, p, 0, p.size)
             /\ Exact(p) => Exact(q)
<1>1. PICK head \in Nat, a \in Nat, t \in Nat, size \in Nat, len \in Nat :
           Amounts(p, head, a, t, size, len) /\ head + a + t + size <= len
  BY RoomAmounts
<1> DEFINE q == TakenAtEnd(p, avail, tail, n)
<1>2. /\ q = [p EXCEPT !.avail = avail, !.tail = tail, !.size = size + n, !.data = head]
      /\ avail + tail + n = a + t
  BY <1>1 DEF TakenAtEnd, Amounts
<1> HIDE DEF q
<1>3. /\ q.mem = p.mem /\ q.head = head /\ q.avail = avail /\ q.tail = tail
      /\ q.size = size + n /\ q.data = head
  BY <1>1, <1>2 DEF Room, Buffer, Amounts
<1>4. q \in Buffer
  <2>1. size + n \in Nat
    OBVIOUS
  <2> QED
    BY <1>2, <2>1 DEF Room, Buffer
<1>5. Total(q) = head + a + t + size
  <2>1. Total(q) = head + avail + tail + (size + n)
    BY <1>3 DEF Total
  <2> QED
    BY <1>2, <2>1
<1>6. Holds(q, 0, p, 0, p.size)
  BY <1>1, <1>3 DEF Holds, Amounts
<1> QED
  BY <1>1, <1>3, <1>4, <1>5, <1>6 DEF Room, Exact, Amounts, q

\* Room before the bytes, or for either side, becomes n bytes at the beginning,
\* the others having been moved.
TakenAtBegin(p, mem, avail, head, n) ==
  [p EXCEPT !.mem = mem, !.avail = avail, !.head = head, !.size = p.size + n, !.data = head]

LEMMA TakenAtBeginRoom ==
  ASSUME NEW p, Room(p), NEW avail \in Nat, NEW head \in Nat, NEW n \in Nat,
         avail + head + n = p.avail + p.head,
         NEW mem \in Seq(Bytes), Len(mem) = Len(p.mem),
         \A i \in 1..p.size : mem[head + n + i] = p.mem[p.head + i]
  PROVE  LET q == TakenAtBegin(p, mem, avail, head, n)
         IN  /\ Room(q) /\ q.size = p.size + n /\ Holds(q, n, p, 0, p.size)
             /\ Exact(p) => Exact(q)
<1>1. PICK h \in Nat, a \in Nat, t \in Nat, size \in Nat, len \in Nat :
           Amounts(p, h, a, t, size, len) /\ h + a + t + size <= len
  BY RoomAmounts
<1> DEFINE q == TakenAtBegin(p, mem, avail, head, n)
<1>2. /\ q = [p EXCEPT !.mem = mem, !.avail = avail, !.head = head, !.size = size + n,
                       !.data = head]
      /\ avail + head + n = a + h
  BY <1>1 DEF TakenAtBegin, Amounts
<1> HIDE DEF q
<1>3. /\ q.mem = mem /\ q.head = head /\ q.avail = avail /\ q.tail = t
      /\ q.size = size + n /\ q.data = head
  BY <1>1, <1>2 DEF Room, Buffer, Amounts
<1>4. q \in Buffer
  <2>1. size + n \in Nat
    OBVIOUS
  <2> QED
    BY <1>2, <2>1 DEF Room, Buffer
<1>5. Total(q) = h + a + t + size
  <2>1. Total(q) = head + avail + t + (size + n)
    BY <1>3 DEF Total
  <2> QED
    BY <1>2, <2>1
<1>6. Holds(q, n, p, 0, p.size)
  <2> SUFFICES ASSUME NEW i \in 1..size
               PROVE  mem[head + n + i] = p.mem[h + 0 + i]
    BY <1>1, <1>3 DEF Holds, Amounts
  <2>1. mem[head + n + i] = p.mem[h + i] /\ h + 0 + i = h + i
    BY <1>1 DEF Amounts
  <2> QED
    BY <2>1
<1> QED
  BY <1>1, <1>3, <1>4, <1>5, <1>6 DEF Room, Exact, Amounts, q

\* buf_reserve_end.
LEMMA ReserveEndRoom ==
  ASSUME NEW p, Room(p), NEW n \in Nat, NEW ok \in BOOLEAN
  PROVE  LET r == ReserveEnd(p, n, ok)
         IN  /\ r.ok \in BOOLEAN /\ Room(r.buf)
             /\ r.ok => r.buf.size = p.size + n
             /\ ~r.ok => r.buf.size = p.size
             /\ Holds(r.buf, 0, p, 0, p.size)
             /\ Exact(p) => Exact(r.buf)
<1>1. PICK head \in Nat, avail \in Nat, tail \in Nat, size \in Nat, len \in Nat :
           Amounts(p, head, avail, tail, size, len) /\ head + avail + tail + size <= len
  BY RoomAmounts
<1>2. /\ p.head = head /\ p.avail = avail /\ p.tail = tail /\ p.size = size
      /\ Total(p) = head + avail + tail + size
  BY <1>1 DEF Amounts
<1> DEFINE r == ReserveEnd(p, n, ok)
<1>3. CASE tail >= n
  <2>1. PICK t \in Nat : t = tail - n
    BY <1>3
  <2>2. r.buf = TakenAtEnd(p, avail, t, n) /\ r.ok = (p.mem # <<>>)
    BY <1>2, <1>3, <2>1 DEF ReserveEnd, TakenAtEnd, Room, Buffer
  <2> HIDE DEF r
  <2>3. avail + t + n = p.avail + p.tail
    BY <1>2, <2>1
  <2>4. /\ Room(r.buf) /\ r.buf.size = p.size + n /\ Holds(r.buf, 0, p, 0, p.size)
        /\ Exact(p) => Exact(r.buf)
    BY <2>2, <2>3, TakenAtEndRoom
  <2>5. ~r.ok => n = 0
    <3>1. ~r.ok => len = 0
      BY <1>1, <2>2, EmptySeq DEF Amounts
    <3> QED
      BY <1>1, <1>3, <3>1
  <2>6. p.size + 0 = p.size
    BY <1>2
  <2> QED
    BY <2>2, <2>4, <2>5, <2>6 DEF r
<1>4. CASE tail < n /\ n <= tail + avail
  <2>1. PICK a \in Nat : a = avail - (n - tail)
    BY <1>4
  <2>2. r.buf = TakenAtEnd(p, a, 0, n) /\ r.ok = TRUE
    <3>1. ~(tail >= n) /\ ~(n > tail + avail)
      BY <1>4
    <3> QED
      BY <1>2, <3>1, <2>1 DEF ReserveEnd, TakenAtEnd, Room, Buffer
  <2> HIDE DEF r
  <2>3. a + 0 + n = p.avail + p.tail
    BY <1>2, <2>1
  <2>4. /\ Room(r.buf) /\ r.buf.size = p.size + n /\ Holds(r.buf, 0, p, 0, p.size)
        /\ Exact(p) => Exact(r.buf)
    BY <2>2, <2>3, TakenAtEndRoom
  <2> QED
    BY <2>2, <2>4 DEF r
<1>5. CASE n > tail + avail
  <2>1. PICK m \in Nat : /\ m = Total(p) + n - tail - avail /\ m > Total(p)
                         /\ m - Total(p) = n - tail - avail
    BY <1>2, <1>5
  <2> DEFINE s == Resize(p, m, ok)
  <2>2. /\ Room(s) /\ s.size <= p.size /\ Holds(s, 0, p, 0, s.size) /\ s.size = p.size
        /\ ok \/ s = p
        /\ ok => s.head = p.head /\ s.tail = p.tail /\ s.avail = p.avail + (m - Total(p))
        /\ Exact(p) => Exact(s)
    <3>1. m >= Total(p)
      BY <1>2, <2>1
    <3> QED
      BY <2>1, <3>1, ResizeRoom
  <2> HIDE DEF s
  <2>3. ~(tail >= n)
    BY <1>5
  <2>4. CASE ok
    <3>1. s.avail = n - tail /\ s.avail # p.avail
      BY <1>2, <1>5, <2>1, <2>2, <2>4
    <3>2. r.buf = TakenAtEnd(s, 0, 0, n) /\ r.ok = TRUE
      BY <1>2, <1>5, <2>1, <2>2, <2>3, <2>4, <3>1 DEF s, ReserveEnd, TakenAtEnd, Room, Buffer
    <3> HIDE DEF r
    <3>3. 0 + 0 + n = s.avail + s.tail
      BY <1>2, <2>2, <2>4, <3>1
    <3>4. /\ Room(r.buf) /\ r.buf.size = s.size + n /\ Holds(r.buf, 0, s, 0, s.size)
          /\ Exact(s) => Exact(r.buf)
      BY <2>2, <3>2, <3>3, TakenAtEndRoom
    <3>5. Holds(r.buf, 0, p, 0, p.size)
      BY <2>2, <3>4, HoldsTwice
    <3> QED
      BY <2>2, <3>2, <3>4, <3>5 DEF r
  <2>5. CASE ~ok
    <3>1. r.buf = p /\ r.ok = FALSE
      BY <1>2, <1>5, <2>1, <2>2, <2>3, <2>5 DEF s, ReserveEnd
    <3> HIDE DEF r
    <3> QED
      BY <2>2, <2>5, <3>1 DEF r
  <2> QED
    BY <2>4, <2>5
<1>6. tail >= n \/ (tail < n /\ n <= tail + avail) \/ n > tail + avail
  OBVIOUS
<1> QED
  BY <1>3, <1>4, <1>5, <1>6

\* Bytes moved to the front of a buffer, leaving n places before them.
LEMMA MovedBehind ==
  ASSUME NEW p, Room(p), NEW n \in Nat, n + p.size <= Len(p.mem)
  PROVE  /\ Moved(p.mem, n, p.head, p.size) \in Seq(Bytes)
         /\ Len(Moved(p.mem, n, p.head, p.size)) = Len(p.mem)
         /\ \A i \in 1..p.size :
              Moved(p.mem, n, p.head, p.size)[0 + n + i] = p.mem[p.head + i]
<1>1. PICK head \in Nat, avail \in Nat, tail \in Nat, size \in Nat, len \in Nat :
           Amounts(p, head, avail, tail, size, len) /\ head + avail + tail + size <= len
  BY RoomAmounts
<1>2. PICK mem \in Seq(Bytes) : mem = p.mem
  BY <1>1 DEF Amounts
<1>3. p.head = head /\ p.size = size /\ n + size <= Len(mem) /\ head + size <= Len(mem)
  BY <1>1, <1>2 DEF Amounts
<1>4. Moved(mem, n, head, size) \in Seq(Bytes)
  BY <1>3, MovedBytes
<1>5. Len(Moved(mem, n, head, size)) = Len(mem)
  BY <1>3, MovedBytes
<1>6. \A i \in 1..size : Moved(mem, n, head, size)[n + i] = mem[head + i]
  BY <1>3, MovedBytes
<1>7. \A i \in 1..size : Moved(mem, n, head, size)[0 + n + i] = mem[head + i]
  <2> SUFFICES ASSUME NEW i \in 1..size
               PROVE  Moved(mem, n, head, size)[0 + n + i] = mem[head + i]
    OBVIOUS
  <2>1. 0 + n + i = n + i
    OBVIOUS
  <2> QED
    BY <1>6, <2>1
<1> QED
  BY <1>2, <1>3, <1>4, <1>5, <1>7

\* buf_reserve_begin.
LEMMA ReserveBeginRoom ==
  ASSUME NEW p, Room(p), NEW n \in Nat, NEW ok \in BOOLEAN
  PROVE  LET r == ReserveBegin(p, n, ok)
         IN  /\ r.ok \in BOOLEAN /\ Room(r.buf)
             /\ r.ok => r.buf.size = p.size + n /\ Holds(r.buf, n, p, 0, p.size)
             /\ ~r.ok => r.buf.size = p.size /\ Holds(r.buf, 0, p, 0, p.size)
             /\ Exact(p) => Exact(r.buf)
<1>1. PICK head \in Nat, avail \in Nat, tail \in Nat, size \in Nat, len \in Nat :
           Amounts(p, head, avail, tail, size, len) /\ head + avail + tail + size <= len
  BY RoomAmounts
<1>2. /\ p.head = head /\ p.avail = avail /\ p.tail = tail /\ p.size = size
      /\ Total(p) = head + avail + tail + size /\ Len(p.mem) = len
  BY <1>1 DEF Amounts
<1> DEFINE r == ReserveBegin(p, n, ok)
<1>3. CASE head >= n
  <2>1. PICK h \in Nat : h = head - n
    BY <1>3
  <2>2. r.buf = TakenAtBegin(p, p.mem, avail, h, n) /\ r.ok = (p.mem # <<>>)
    BY <1>2, <1>3, <2>1 DEF ReserveBegin, TakenAtBegin, Room, Buffer
  <2> HIDE DEF r
  <2>3. avail + h + n = p.avail + p.head
    BY <1>2, <2>1
  <2>4. PICK mem \in Seq(Bytes) : mem = p.mem
    BY <1>1 DEF Amounts
  <2>5. \A i \in 1..p.size : mem[h + n + i] = p.mem[p.head + i]
    <3>1. h + n = head
      BY <2>1
    <3> QED
      BY <1>2, <2>4, <3>1
  <2>6. /\ Room(r.buf) /\ r.buf.size = p.size + n /\ Holds(r.buf, n, p, 0, p.size)
        /\ Exact(p) => Exact(r.buf)
    BY <2>2, <2>3, <2>4, <2>5, TakenAtBeginRoom
  <2>7. ~r.ok => n = 0
    <3>1. ~r.ok => len = 0
      BY <1>1, <2>2, EmptySeq DEF Amounts
    <3> QED
      BY <1>1, <1>3, <3>1
  <2>8. p.size + 0 = p.size
    BY <1>2
  <2> QED
    BY <2>2, <2>6, <2>7, <2>8 DEF r
<1>4. CASE head < n /\ n <= head + avail
  <2>1. PICK a \in Nat : a = avail - (n - head)
    BY <1>4
  <2> DEFINE mem == Moved(p.mem, n, p.head, p.size)
  <2>2. r.buf = TakenAtBegin(p, mem, a, 0, n) /\ r.ok = TRUE
    <3>1. ~(head >= n) /\ ~(n > head + avail)
      BY <1>4
    <3> QED
      BY <1>2, <3>1, <2>1 DEF ReserveBegin, TakenAtBegin, Room, Buffer
  <2> HIDE DEF r
  <2>3. a + 0 + n = p.avail + p.head
    BY <1>2, <2>1
  <2>4. n + p.size <= Len(p.mem)
    BY <1>1, <1>2, <1>4
  <2>5. /\ mem \in Seq(Bytes) /\ Len(mem) = Len(p.mem)
        /\ \A i \in 1..p.size : mem[0 + n + i] = p.mem[p.head + i]
    BY <2>4, MovedBehind
  <2> HIDE DEF mem
  <2>6. /\ Room(r.buf) /\ r.buf.size = p.size + n /\ Holds(r.buf, n, p, 0, p.size)
        /\ Exact(p) => Exact(r.buf)
    BY <2>2, <2>3, <2>5, TakenAtBeginRoom
  <2> QED
    BY <2>2, <2>6 DEF r
<1>5. CASE n > head + avail
  <2>1. PICK m \in Nat : /\ m = Total(p) + n - head - avail /\ m > Total(p)
                         /\ m - Total(p) = n - head - avail
    BY <1>2, <1>5
  <2> DEFINE s == Resize(p, m, ok)
  <2>2. /\ Room(s) /\ s.size <= p.size /\ Holds(s, 0, p, 0, s.size) /\ s.size = p.size
        /\ ok \/ s = p
        /\ ok => s.head = p.head /\ s.tail = p.tail /\ s.avail = p.avail + (m - Total(p))
        /\ Exact(p) => Exact(s)
    <3>1. m >= Total(p)
      BY <1>2, <2>1
    <3> QED
      BY <2>1, <3>1, ResizeRoom
  <2> HIDE DEF s
  <2>3. ~(head >= n)
    BY <1>5
  <2>4. CASE ok
    <3> DEFINE mem == Moved(s.mem, n, s.head, s.size)
    <3>1. s.avail = n - head /\ s.avail # p.avail
      BY <1>2, <1>5, <2>1, <2>2, <2>4
    <3>z. PICK z \in Nat : z = 0
      OBVIOUS
    <3>2. r.buf = TakenAtBegin(s, mem, z, 0, n) /\ r.ok = TRUE
      BY <3>z, <1>2, <1>5, <2>1, <2>2, <2>3, <2>4, <3>1
         DEF s, ReserveBegin, TakenAtBegin, Room, Buffer
    <3> HIDE DEF r
    <3>3. z + 0 + n = s.avail + s.head
      BY <3>z, <1>2, <2>2, <2>4, <3>1
    <3>4. n + s.size <= Len(s.mem)
      <4>1. PICK t \in Nat, l \in Nat : /\ s.tail = t /\ Len(s.mem) = l
                                        /\ s.head + s.avail + t + s.size <= l
        BY <2>2, RoomAmounts DEF Amounts
      <4> QED
        BY <1>2, <1>5, <2>2, <2>4, <3>1, <4>1
    <3>5. /\ mem \in Seq(Bytes) /\ Len(mem) = Len(s.mem)
          /\ \A i \in 1..s.size : mem[0 + n + i] = s.mem[s.head + i]
      BY <2>2, <3>4, MovedBehind
    <3> HIDE DEF mem
    <3>6. /\ Room(r.buf) /\ r.buf.size = s.size + n /\ Holds(r.buf, n, s, 0, s.size)
          /\ Exact(s) => Exact(r.buf)
      BY <2>2, <3>2, <3>3, <3>5, TakenAtBeginRoom
    <3>7. Holds(r.buf, n, p, 0, p.size)
      BY <2>2, <3>6, HoldsTwice
    <3> QED
      BY <2>2, <3>2, <3>6, <3>7 DEF r
  <2>5. CASE ~ok
    <3>1. r.buf = p /\ r.ok = FALSE
      BY <1>2, <1>5, <2>1, <2>2, <2>3, <2>5 DEF s, ReserveBegin
    <3> HIDE DEF r
    <3> QED
      BY <2>2, <2>5, <3>1 DEF r
  <2> QED
    BY <2>4, <2>5
<1>6. head >= n \/ (head < n /\ n <= head + avail) \/ n > head + avail
  OBVIOUS
<1> QED
  BY <1>3, <1>4, <1>5, <1>6

\* buf_remove_begin.
LEMMA RemoveBeginRoom ==
  ASSUME NEW p, Room(p), NEW n \in Nat
  PROVE  LET q == RemoveBegin(p, n)
         IN  /\ Room(q) /\ p.size = q.size + Lesser(n, p.size)
             /\ Lesser(n, p.size) \in Nat
             /\ Holds(q, 0, p, Lesser(n, p.size), q.size)
             /\ Exact(p) => Exact(q)
<1>1. PICK head \in Nat, avail \in Nat, tail \in Nat, size \in Nat, len \in Nat :
           Amounts(p, head, avail, tail, size, len) /\ head + avail + tail + size <= len
  BY RoomAmounts
<1>2. PICK m \in 0..size : m = Lesser(n, size)
  BY DEF Lesser
<1> DEFINE q == RemoveBegin(p, n)
<1>3. q = [p EXCEPT !.head = head + m, !.size = size - m, !.data = head + m]
  BY <1>1, <1>2 DEF RemoveBegin, Amounts, Room, Buffer
<1> HIDE DEF q
<1>4. /\ q.mem = p.mem /\ q.head = head + m /\ q.avail = avail /\ q.tail = tail
      /\ q.size = size - m /\ q.data = head + m
  BY <1>1, <1>3 DEF Room, Buffer, Amounts
<1>5. q \in Buffer
  <2>1. head + m \in Nat /\ size - m \in Nat
    OBVIOUS
  <2> QED
    BY <1>3, <2>1 DEF Room, Buffer
<1>6. Total(q) = head + avail + tail + size
  <2>1. Total(q) = (head + m) + avail + tail + (size - m)
    BY <1>4 DEF Total
  <2> QED
    BY <2>1
<1>7. Holds(q, 0, p, m, q.size)
  <2> SUFFICES ASSUME NEW i \in 1..(size - m)
               PROVE  p.mem[head + m + 0 + i] = p.mem[head + m + i]
    BY <1>1, <1>4 DEF Holds, Amounts
  <2>1. head + m + 0 + i = head + m + i
    OBVIOUS
  <2> QED
    BY <2>1
<1>8. Room(q) /\ (Exact(p) => Exact(q))
  BY <1>1, <1>4, <1>5, <1>6 DEF Room, Exact, Amounts
<1>9. p.size = q.size + m /\ m = Lesser(n, p.size)
  <2>1. size = (size - m) + m
    OBVIOUS
  <2> QED
    BY <1>1, <1>2, <1>4, <2>1 DEF Amounts
<1> QED
  BY <1>7, <1>8, <1>9 DEF q

\* buf_remove_end.
LEMMA RemoveEndRoom ==
  ASSUME NEW p, Room(p), NEW n \in Nat
  PROVE  LET q == RemoveEnd(p, n)
         IN  /\ Room(q) /\ q.size <= p.size /\ Holds(q, 0, p, 0, q.size)
             /\ Exact(p) => Exact(q)
<1>1. PICK head \in Nat, avail \in Nat, tail \in Nat, size \in Nat, len \in Nat :
           Amounts(p, head, avail, tail, size, len) /\ head + avail + tail + size <= len
  BY RoomAmounts
<1>2. PICK m \in 0..size : m = Lesser(n, size)
  BY DEF Lesser
<1> DEFINE q == RemoveEnd(p, n)
<1>3. q = [p EXCEPT !.tail = tail + m, !.size = size - m]
  BY <1>1, <1>2 DEF RemoveEnd, Amounts, Room, Buffer
<1> HIDE DEF q
<1>4. /\ q.mem = p.mem /\ q.head = head /\ q.avail = avail /\ q.tail = tail + m
      /\ q.size = size - m /\ q.data = p.data
  BY <1>1, <1>3 DEF Room, Buffer, Amounts
<1>5. q \in Buffer
  <2>1. tail + m \in Nat /\ size - m \in Nat
    OBVIOUS
  <2> QED
    BY <1>3, <2>1 DEF Room, Buffer
<1>6. Total(q) = head + avail + tail + size
  <2>1. Total(q) = head + avail + (tail + m) + (size - m)
    BY <1>4 DEF Total
  <2> QED
    BY <2>1
<1>7. Holds(q, 0, p, 0, q.size)
  BY <1>1, <1>4 DEF Holds, Amounts
<1>8. size - m <= size
  OBVIOUS
<1> QED
  BY <1>1, <1>4, <1>5, <1>6, <1>7, <1>8 DEF Room, Exact, Amounts, q

\* buf_reuse.
LEMMA ReuseRoom ==
  ASSUME NEW p, Room(p)
  PROVE  LET q == Reuse(p)
         IN  Room(q) /\ q.size = 0 /\ (Exact(p) => Exact(q))
<1>1. PICK head \in Nat, avail \in Nat, tail \in Nat, size \in Nat, len \in Nat :
           Amounts(p, head, avail, tail, size, len) /\ head + avail + tail + size <= len
  BY RoomAmounts
<1>2. PICK t \in Nat : t = head + avail + tail + size
  OBVIOUS
<1> DEFINE q == Reuse(p)
<1>3. q = [p EXCEPT !.avail = t, !.head = 0, !.tail = 0, !.size = 0, !.data = 0]
  BY <1>1, <1>2 DEF Reuse, Amounts
<1> HIDE DEF q
<1>4. /\ q.mem = p.mem /\ q.head = 0 /\ q.avail = t /\ q.tail = 0 /\ q.size = 0
      /\ q.data = 0
  BY <1>3 DEF Room, Buffer
<1>5. q \in Buffer
  BY <1>3 DEF Room, Buffer
<1>6. Total(q) = t
  BY <1>4 DEF Total
<1> QED
  BY <1>1, <1>2, <1>4, <1>5, <1>6 DEF Room, Exact, Amounts, q

-----------------------------------------------------------------------------
(* The steps.                                                               *)

\* What ByteDeque lets happen to the bytes.
Does(p, q) ==
  \/ \E n \in Sizes : \E s \in [1..n -> Bytes] : Content(q) = Content(p) \o s
  \/ \E n \in Sizes : \E s \in [1..n -> Bytes] : Content(q) = s \o Content(p)
  \/ \E n \in 0..Len(Content(p)) :
       Content(q) = SubSeq(Content(p), n + 1, Len(Content(p)))
  \/ \E n \in 0..Len(Content(p)) : Content(q) = SubSeq(Content(p), 1, n)

\* What the invariant and the refinement ask of a call.
Good(p, q) == Room(q) /\ (Exact(p) => Exact(q)) /\ Does(p, q)

\* A string copied beside the bytes, into room that was reserved for it.
CopiedInto(q, to, s) == [q EXCEPT !.mem = Copied(q.mem, to, s)]

LEMMA CopiedRoom ==
  ASSUME NEW p, NEW q, Room(q), NEW s \in Seq(Byte), NEW k \in Nat, NEW n \in Nat,
         NEW to \in Nat, to + Len(s) <= Len(q.mem), Holds(q, k, p, 0, n),
         q.head + k + n <= Len(q.mem),
         q.head + k + n <= to \/ to + Len(s) <= q.head + k
  PROVE  LET w == CopiedInto(q, to, s)
         IN  /\ Room(w) /\ w.size = q.size /\ Holds(w, k, p, 0, n)
             /\ Exact(q) => Exact(w)
<1>1. PICK mem \in Seq(Bytes), head \in Nat, len \in Nat :
           mem = q.mem /\ q.head = head /\ Len(mem) = len
  BY RoomAmounts DEF Amounts
<1>2. PICK l \in Nat : l = Len(s)
  BY LenProperties
<1>3. /\ to + l <= len /\ head + k + n <= len
      /\ head + k + n <= to \/ to + l <= head + k
  BY <1>1, <1>2
<1>4. to + Len(s) <= Len(mem)
  BY <1>1
<1>5. Copied(mem, to, s) \in Seq(Bytes)
  BY <1>4, CopiedBytes
<1>6. Len(Copied(mem, to, s)) = Len(mem)
  BY <1>4, CopiedBytes
<1>7. \A i \in 1..Len(mem) :
        (i <= to \/ to + Len(s) < i) => Copied(mem, to, s)[i] = mem[i]
  BY <1>4, CopiedBytes
<1> DEFINE w == CopiedInto(q, to, s)
<1>8. /\ w.mem = Copied(mem, to, s) /\ w.head = q.head /\ w.avail = q.avail
      /\ w.tail = q.tail /\ w.size = q.size /\ w.data = q.data /\ w \in Buffer
  BY <1>1, <1>5 DEF Room, Buffer, CopiedInto
<1> HIDE DEF w
<1>9. Total(w) = Total(q)
  BY <1>8 DEF Total
<1>10. Holds(w, k, p, 0, n)
  <2> SUFFICES ASSUME NEW i \in 1..n
               PROVE  Copied(mem, to, s)[head + k + i] = mem[head + k + i]
    BY <1>1, <1>8 DEF Holds
  <2>1. PICK j \in Nat : j = head + k + i
    OBVIOUS
  <2>2. j \in 1..len /\ (j <= to \/ to + l < j)
    BY <1>3, <2>1
  <2> QED
    BY <1>1, <1>2, <1>7, <2>1, <2>2
<1> QED
  BY <1>1, <1>6, <1>8, <1>9, <1>10 DEF Room, Exact, w

\* A call that only takes bytes away at the end, or none.
LEMMA KeepsGood ==
  ASSUME NEW p, NEW q, Room(p), Room(q), Exact(p) => Exact(q),
         q.size <= p.size, Holds(q, 0, p, 0, q.size)
  PROVE  Good(p, q)
<1>1. q.size \in 0..Len(Content(p)) /\ Content(q) = SubSeq(Content(p), 1, q.size)
  BY ShorterAtEnd
<1> QED
  BY <1>1 DEF Good, Does

\* buf_insert_begin, and buf_reserve_begin by itself.
LEMMA ReserveBeginGood ==
  ASSUME NEW p, Room(p), NEW n \in Sizes, NEW ok \in BOOLEAN
  PROVE  Good(p, ReserveBegin(p, n, ok).buf)
<1>1. n \in Nat
  BY SizesAssumption
<1> DEFINE r == ReserveBegin(p, n, ok)
<1>2. /\ r.ok \in BOOLEAN /\ Room(r.buf)
      /\ r.ok => r.buf.size = p.size + n /\ Holds(r.buf, n, p, 0, p.size)
      /\ ~r.ok => r.buf.size = p.size /\ Holds(r.buf, 0, p, 0, p.size)
      /\ Exact(p) => Exact(r.buf)
  BY <1>1, ReserveBeginRoom
<1> HIDE DEF r
<1>3. CASE r.ok
  <2>1. \E s \in [1..n -> Bytes] : Content(r.buf) = s \o Content(p)
    BY <1>1, <1>2, <1>3, LongerAtBegin
  <2> QED
    BY <1>2, <2>1 DEF r, Good, Does
<1>4. CASE ~r.ok
  <2>1. p.size <= p.size
    BY DEF Room, Buffer
  <2> QED
    BY <1>2, <1>4, <2>1, KeepsGood DEF r
<1> QED
  BY <1>3, <1>4

LEMMA InsertBeginGood ==
  ASSUME NEW p, Room(p), NEW s \in Strings, NEW ok \in BOOLEAN
  PROVE  LET r == ReserveBegin(p, Len(s), ok)
         IN  r.ok => Good(p, CopiedInto(r.buf, r.buf.head, s))
<1>1. s \in Seq(Byte) /\ Len(s) \in Sizes
  BY SizesAssumption
<1>2. PICK n \in Nat : n = Len(s)
  BY <1>1, LenProperties
<1> DEFINE r == ReserveBegin(p, n, ok)
           w == CopiedInto(r.buf, r.buf.head, s)
<1> SUFFICES ASSUME r.ok
             PROVE  Good(p, w)
  BY <1>2
<1>3. /\ Room(r.buf) /\ r.buf.size = p.size + n /\ Holds(r.buf, n, p, 0, p.size)
      /\ Exact(p) => Exact(r.buf)
  BY ReserveBeginRoom
<1> HIDE DEF r
<1>4. PICK head \in Nat, size \in Nat, m \in Nat, len \in Nat :
           /\ r.buf.head = head /\ p.size = size /\ r.buf.size = m
           /\ Len(r.buf.mem) = len /\ head + m <= len
  <2>1. PICK size \in Nat : p.size = size
    BY DEF Room, Buffer
  <2>2. PICK head \in Nat, a \in Nat, t \in Nat, m \in Nat, len \in Nat :
           Amounts(r.buf, head, a, t, m, len) /\ head + a + t + m <= len
    BY <1>3, RoomAmounts
  <2>3. head + m <= len
    BY <2>2
  <2> QED
    BY <2>1, <2>2, <2>3 DEF Amounts
<1>5. /\ head \in Nat /\ head + Len(s) <= Len(r.buf.mem)
      /\ r.buf.head + n + size <= Len(r.buf.mem) /\ head + Len(s) <= r.buf.head + n
  BY <1>2, <1>3, <1>4
<1>q. w = CopiedInto(r.buf, head, s)
  BY <1>4
<1> HIDE DEF w
<1>6. /\ Room(w) /\ w.size = r.buf.size /\ Holds(w, n, p, 0, p.size)
      /\ Exact(r.buf) => Exact(w)
  <2>1. Holds(r.buf, n, p, 0, size)
    BY <1>3, <1>4
  <2>2. r.buf.head + n + size <= head \/ head + Len(s) <= r.buf.head + n
    BY <1>5
  <2>3. /\ Room(CopiedInto(r.buf, head, s)) /\ CopiedInto(r.buf, head, s).size = r.buf.size
        /\ Exact(r.buf) => Exact(CopiedInto(r.buf, head, s))
    BY <1>1, <1>3, <1>5, <2>1, <2>2, CopiedRoom
  <2>4. Holds(CopiedInto(r.buf, head, s), n, p, 0, size)
    BY <1>1, <1>3, <1>5, <2>1, <2>2, CopiedRoom
  <2> QED
    BY <1>4, <1>q, <2>3, <2>4
<1>7. \E t \in [1..n -> Bytes] : Content(w) = t \o Content(p)
  <2>1. w.size = p.size + n
    BY <1>3, <1>6
  <2> QED
    BY <1>6, <2>1, LongerAtBegin
<1> QED
  BY <1>1, <1>2, <1>3, <1>6, <1>7 DEF Good, Does

\* buf_insert_end, and buf_reserve_end by itself.
LEMMA ReserveEndGood ==
  ASSUME NEW p, Room(p), NEW n \in Sizes, NEW ok \in BOOLEAN
  PROVE  Good(p, ReserveEnd(p, n, ok).buf)
<1>1. n \in Nat
  BY SizesAssumption
<1> DEFINE r == ReserveEnd(p, n, ok)
<1>2. /\ r.ok \in BOOLEAN /\ Room(r.buf)
      /\ r.ok => r.buf.size = p.size + n
      /\ ~r.ok => r.buf.size = p.size
      /\ Holds(r.buf, 0, p, 0, p.size)
      /\ Exact(p) => Exact(r.buf)
  BY <1>1, ReserveEndRoom
<1> HIDE DEF r
<1>3. CASE r.ok
  <2>1. \E s \in [1..n -> Bytes] : Content(r.buf) = Content(p) \o s
    BY <1>1, <1>2, <1>3, LongerAtEnd
  <2> QED
    BY <1>2, <2>1 DEF r, Good, Does
<1>4. CASE ~r.ok
  <2>1. p.size <= p.size
    BY DEF Room, Buffer
  <2> QED
    BY <1>2, <1>4, <2>1, KeepsGood DEF r
<1> QED
  BY <1>2, <1>3, <1>4

LEMMA InsertEndGood ==
  ASSUME NEW p, Room(p), NEW s \in Strings, NEW ok \in BOOLEAN
  PROVE  LET r == ReserveEnd(p, Len(s), ok)
         IN  r.ok => Good(p, CopiedInto(r.buf, r.buf.head + p.size, s))
<1>1. s \in Seq(Byte) /\ Len(s) \in Sizes
  BY SizesAssumption
<1>2. PICK n \in Nat : n = Len(s)
  BY <1>1, LenProperties
<1> DEFINE r == ReserveEnd(p, n, ok)
           w == CopiedInto(r.buf, r.buf.head + p.size, s)
<1> SUFFICES ASSUME r.ok
             PROVE  Good(p, w)
  BY <1>2
<1>3. /\ Room(r.buf) /\ r.buf.size = p.size + n /\ Holds(r.buf, 0, p, 0, p.size)
      /\ Exact(p) => Exact(r.buf)
  BY ReserveEndRoom
<1> HIDE DEF r
<1>4. PICK head \in Nat, size \in Nat, m \in Nat, len \in Nat :
           /\ r.buf.head = head /\ p.size = size /\ r.buf.size = m
           /\ Len(r.buf.mem) = len /\ head + m <= len
  <2>1. PICK size \in Nat : p.size = size
    BY DEF Room, Buffer
  <2>2. PICK head \in Nat, a \in Nat, t \in Nat, m \in Nat, len \in Nat :
           Amounts(r.buf, head, a, t, m, len) /\ head + a + t + m <= len
    BY <1>3, RoomAmounts
  <2>3. head + m <= len
    BY <2>2
  <2> QED
    BY <2>1, <2>2, <2>3 DEF Amounts
<1>5. /\ head + size \in Nat /\ head + size + Len(s) <= Len(r.buf.mem)
      /\ r.buf.head + 0 + size <= Len(r.buf.mem) /\ r.buf.head + 0 + size <= head + size
  BY <1>2, <1>3, <1>4
<1>6. PICK to \in Nat : to = head + size
  BY <1>5
<1>7. w = CopiedInto(r.buf, to, s)
  BY <1>4, <1>6
<1> HIDE DEF w
<1>8. /\ Room(w) /\ w.size = r.buf.size /\ Holds(w, 0, p, 0, p.size)
      /\ Exact(r.buf) => Exact(w)
  <2>1. /\ to + Len(s) <= Len(r.buf.mem) /\ r.buf.head + 0 + size <= Len(r.buf.mem)
        /\ r.buf.head + 0 + size <= to /\ Holds(r.buf, 0, p, 0, size)
    BY <1>3, <1>4, <1>5, <1>6
  <2> QED
    BY <1>1, <1>3, <1>4, <1>7, <2>1, CopiedRoom
<1>9. \E t \in [1..n -> Bytes] : Content(w) = Content(p) \o t
  <2>1. w.size = p.size + n
    BY <1>3, <1>8
  <2> QED
    BY <1>8, <2>1, LongerAtEnd
<1> QED
  BY <1>1, <1>2, <1>3, <1>8, <1>9 DEF Good, Does

\* buf_remove_begin, buf_remove_end, buf_resize and buf_reuse.
LEMMA RemoveBeginGood ==
  ASSUME NEW p, Room(p), NEW n \in Nat
  PROVE  Good(p, RemoveBegin(p, n))
<1> DEFINE q == RemoveBegin(p, n)
<1>1. /\ Room(q) /\ p.size = q.size + Lesser(n, p.size) /\ Lesser(n, p.size) \in Nat
      /\ Holds(q, 0, p, Lesser(n, p.size), q.size)
      /\ Exact(p) => Exact(q)
  BY RemoveBeginRoom
<1> HIDE DEF q
<1>2. PICK m \in Nat : m = Lesser(n, p.size)
  BY <1>1
<1>3. /\ m \in 0..Len(Content(p))
      /\ Content(q) = SubSeq(Content(p), m + 1, Len(Content(p)))
  BY <1>1, <1>2, ShorterAtBegin
<1> QED
  BY <1>1, <1>3 DEF Good, Does, q

LEMMA RemoveEndGood ==
  ASSUME NEW p, Room(p), NEW n \in Nat
  PROVE  Good(p, RemoveEnd(p, n))
<1> DEFINE q == RemoveEnd(p, n)
<1>1. /\ Room(q) /\ q.size <= p.size /\ Holds(q, 0, p, 0, q.size)
      /\ Exact(p) => Exact(q)
  BY RemoveEndRoom
<1> HIDE DEF q
<1> QED
  BY <1>1, KeepsGood DEF q

LEMMA ResizeGood ==
  ASSUME NEW p, Room(p), NEW n \in Nat, NEW ok \in BOOLEAN, ok \/ n >= Total(p) \/ ShrinkFails
  PROVE  LET q == Resize(p, n, ok)
         IN  Room(q) /\ Does(p, q) /\ (~ShrinkFails /\ Exact(p) => Exact(q))
<1> DEFINE q == Resize(p, n, ok)
<1>1. /\ Room(q) /\ q.size <= p.size /\ Holds(q, 0, p, 0, q.size)
      /\ ok => Exact(q)
      /\ n >= Total(p) /\ Exact(p) => Exact(q)
  BY ResizeRoom
<1> HIDE DEF q
<1>2. q.size \in 0..Len(Content(p)) /\ Content(q) = SubSeq(Content(p), 1, q.size)
  BY <1>1, ShorterAtEnd
<1> QED
  BY <1>1, <1>2 DEF Does, q

LEMMA ReuseGood ==
  ASSUME NEW p, Room(p)
  PROVE  Good(p, Reuse(p))
<1> DEFINE q == Reuse(p)
<1>1. Room(q) /\ q.size = 0 /\ (Exact(p) => Exact(q))
  BY ReuseRoom
<1> HIDE DEF q
<1>2. q.size <= p.size
  BY <1>1 DEF Room, Buffer
<1>3. Holds(q, 0, p, 0, q.size)
  BY <1>1 DEF Holds
<1> QED
  BY <1>1, <1>2, <1>3, KeepsGood DEF q

\* Every call keeps the invariant and does to the bytes what ByteDeque lets it.
LEMMA NextDoes ==
  ASSUME IInv, Next
  PROVE  IInv' /\ Does(buf, buf')
<1>1. Room(buf) /\ (~ShrinkFails => Exact(buf))
  BY DEF IInv
<1>2. ASSUME NEW q, Good(buf, q), buf' = q, aborted' \in BOOLEAN
      PROVE  IInv' /\ Does(buf, buf')
  BY <1>1, <1>2 DEF IInv, Good
<1>3. ASSUME NEW s \in Strings, InsertBegin(s)
      PROVE  IInv' /\ Does(buf, buf')
  <2>1. PICK ok \in Reallocs :
          LET r == ReserveBegin(buf, Len(s), ok)
          IN  /\ buf' = IF r.ok THEN CopiedInto(r.buf, r.buf.head, s) ELSE r.buf
              /\ aborted' = ~r.ok
    BY <1>3 DEF InsertBegin, CopiedInto
  <2>2. ok \in BOOLEAN /\ Len(s) \in Sizes
    BY SizesAssumption DEF Reallocs
  <2> DEFINE r == ReserveBegin(buf, Len(s), ok)
  <2>3. Good(buf, r.buf) /\ (r.ok => Good(buf, CopiedInto(r.buf, r.buf.head, s)))
    BY <1>1, <2>2, ReserveBeginGood, InsertBeginGood
  <2>4. aborted' \in BOOLEAN
    BY <2>1
  <2> HIDE DEF r
  <2>5. Good(buf, buf')
    BY <2>1, <2>3 DEF r
  <2> QED
    BY <1>2, <2>4, <2>5
<1>4. ASSUME NEW s \in Strings, InsertEnd(s)
      PROVE  IInv' /\ Does(buf, buf')
  <2>1. PICK ok \in Reallocs :
          LET r == ReserveEnd(buf, Len(s), ok)
          IN  /\ buf' = IF r.ok THEN CopiedInto(r.buf, r.buf.head + buf.size, s) ELSE r.buf
              /\ aborted' = ~r.ok
    BY <1>4 DEF InsertEnd, CopiedInto
  <2>2. ok \in BOOLEAN /\ Len(s) \in Sizes
    BY SizesAssumption DEF Reallocs
  <2> DEFINE r == ReserveEnd(buf, Len(s), ok)
  <2>3. Good(buf, r.buf) /\ (r.ok => Good(buf, CopiedInto(r.buf, r.buf.head + buf.size, s)))
    BY <1>1, <2>2, ReserveEndGood, InsertEndGood
  <2>4. aborted' \in BOOLEAN
    BY <2>1
  <2> HIDE DEF r
  <2>5. Good(buf, buf')
    BY <2>1, <2>3 DEF r
  <2> QED
    BY <1>2, <2>4, <2>5
<1>5. ASSUME NEW q, Becomes(q), Good(buf, q)
      PROVE  IInv' /\ Does(buf, buf')
  BY <1>2, <1>5 DEF Becomes, IInv
<1>6. ASSUME NEW n \in Sizes, Reserve(n)
      PROVE  IInv' /\ Does(buf, buf')
  <2>1. PICK ok \in BOOLEAN :
          Becomes(ReserveBegin(buf, n, ok).buf) \/ Becomes(ReserveEnd(buf, n, ok).buf)
    BY <1>6 DEF Reserve, Reallocs
  <2>2. Good(buf, ReserveBegin(buf, n, ok).buf) /\ Good(buf, ReserveEnd(buf, n, ok).buf)
    BY <1>1, ReserveBeginGood, ReserveEndGood
  <2> QED
    BY <1>5, <2>1, <2>2
<1>7. ASSUME NEW n \in Sizes, Remove(n)
      PROVE  IInv' /\ Does(buf, buf')
  <2>1. n \in Nat
    BY SizesAssumption
  <2>2. Good(buf, RemoveBegin(buf, n)) /\ Good(buf, RemoveEnd(buf, n))
    BY <1>1, <2>1, RemoveBeginGood, RemoveEndGood
  <2> QED
    BY <1>5, <1>7, <2>2 DEF Remove
<1>8. ASSUME NEW n \in Sizes, Grow(n) \/ Shrink(n)
      PROVE  IInv' /\ Does(buf, buf')
  <2>1. n \in Nat
    BY SizesAssumption
  <2>2. PICK ok \in BOOLEAN : /\ Becomes(Resize(buf, n, ok))
                              /\ ok \/ n >= Total(buf) \/ ShrinkFails
    BY <1>8 DEF Grow, Shrink, Reallocs, Shrinks
  <2>3. /\ Room(Resize(buf, n, ok)) /\ Does(buf, Resize(buf, n, ok))
        /\ ~ShrinkFails /\ Exact(buf) => Exact(Resize(buf, n, ok))
    BY <1>1, <2>1, <2>2, ResizeGood
  <2> QED
    BY <1>1, <2>2, <2>3 DEF Becomes, IInv
<1>9. ASSUME Becomes(Reuse(buf))
      PROVE  IInv' /\ Does(buf, buf')
  BY <1>1, <1>5, <1>9, ReuseGood
<1> QED
  BY <1>3, <1>4, <1>6, <1>7, <1>8, <1>9 DEF Next

LEMMA InitInv == Init => IInv /\ Content(buf) = <<>>
<1>1. ASSUME NEW n \in Sizes, buf = New(n)
      PROVE  Room(buf) /\ Exact(buf) /\ Content(buf) = <<>>
  BY <1>1, NewRoom, SizesAssumption
<1> QED
  BY <1>1 DEF Init, IInv

-----------------------------------------------------------------------------
(* The theorems.                                                            *)

\* The invariant is one of every behaviour.
THEOREM Invariance == Spec => []IInv
<1>1. IInv /\ [Next]_vars => IInv'
  <2>1. ASSUME IInv, UNCHANGED vars
        PROVE  IInv'
    BY <2>1 DEF IInv, vars, Room, Exact, Total
  <2> QED
    BY <2>1, NextDoes
<1> QED
  BY <1>1, InitInv, PTL DEF Spec

\* Every buffer keeps its type and never claims more room than it has memory,
\* so that no function writes outside the allocation: for all sizes, whichever
\* calls of realloc fail.
THEOREM TypeCorrect == Spec => []TypeOK
<1>1. IInv => TypeOK
  BY DEF IInv, TypeOK, Room
<1> QED
  BY <1>1, Invariance, PTL

\* No byte of the allocation is lost from the accounts of the buffer, as long
\* as making an allocation smaller does not fail.
THEOREM NothingIsLost == Spec => []NothingLost
<1>1. IInv => NothingLost
  BY DEF IInv, NothingLost, Exact
<1> QED
  BY <1>1, Invariance, PTL

\* The data pointer is current after every function, under the same condition.
THEOREM DataIsCurrent == Spec => []DataPointer
<1>1. IInv => DataPointer
  BY DEF IInv, DataPointer, Exact
<1> QED
  BY <1>1, Invariance, PTL

\* The buffer implements ByteDeque: what reserving, inserting, removing,
\* resizing and failing do to its bytes is what happens at the ends of a string.
THEOREM Refinement == Spec => ImplementsDeque
<1>1. Init => Deque!Init
  BY InitInv DEF Deque!Init
<1>2. IInv /\ [Next]_vars => [Deque!Next]_(Content(buf))
  <2>1. ASSUME IInv, Next
        PROVE  Deque!Next
    <3>1. Does(buf, buf') /\ Content(buf)' = Content(buf')
      BY <2>1, NextDoes DEF Content
    <3> QED
      BY <3>1 DEF Does, Deque!Next, Deque!AddLast, Deque!AddFirst, Deque!DropFirst,
                  Deque!DropLast
  <2>2. ASSUME UNCHANGED vars
        PROVE  UNCHANGED Content(buf)
    BY <2>2 DEF vars, Content
  <2> QED
    BY <2>1, <2>2
<1> QED
  BY <1>1, <1>2, Invariance, PTL DEF Spec, ImplementsDeque, Deque!Spec
=============================================================================
