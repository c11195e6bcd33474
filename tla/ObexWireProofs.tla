--------------------------- MODULE ObexWireProofs ---------------------------
(***************************************************************************)
(* Theorems about ObexWire, for any MTU, any frames of the link, and       *)
(* headers, bodies and chunks of any sizes and number.                     *)
(***************************************************************************)
EXTENDS ObexWire, SequenceTheorems, FiniteSetTheorems, WellFoundedInduction, TLAPS

(***************************************************************************)
(* Sizes.                                                                  *)
(***************************************************************************)
LEMMA Mtu ==
  /\ MtuTx \in Nat /\ MtuTx >= 7 /\ MtuTx <= 65535
  /\ LinkMtu \in Nat /\ LinkMtu > 0
BY MtuAssumption DEF COMMON, SEQHDR

LEMMA Sizes == COMMON = 3 /\ SEQHDR = 3
BY DEF COMMON, SEQHDR

LEMMA Remainder ==
  ASSUME NEW m \in Nat, NEW n \in Nat, n > 0
  PROVE  m % n \in 0..n - 1
OBVIOUS

LEMMA Quotient ==
  ASSUME NEW m \in Nat, NEW n \in Nat, n > 0
  PROVE  m \div n \in Nat
OBVIOUS

LEMMA Division ==
  ASSUME NEW m \in Nat, NEW n \in Nat, n > 0
  PROVE  m % n = m - n * (m \div n)
OBVIOUS

(* What is left for headers is what the whole frames have, without the     *)
(* common header, and it is never nothing.                                 *)
LEMMA Room ==
  /\ RoomInPacket = Limit - 3
  /\ RoomInPacket \in Nat /\ RoomInPacket >= 1 /\ RoomInPacket <= 65535
  /\ RoomInPacket + 3 <= MtuTx
<1>1. CASE ~(env.trans = "IRDA" /\ MtuTx > LinkMtu)
  <2>1. RoomInPacket = MtuTx - 3 /\ Limit = MtuTx
    BY <1>1, Mtu, Sizes DEF RoomInPacket, Limit
  <2>2. QED
    BY <2>1, Mtu
<1>2. CASE env.trans = "IRDA" /\ MtuTx > LinkMtu
  <2> DEFINE r == MtuTx % LinkMtu
             q == MtuTx \div LinkMtu
  <2>1. RoomInPacket = MtuTx - 3 - r /\ Limit = q * LinkMtu
    BY <1>2, Sizes DEF RoomInPacket, Limit
  <2>2. r \in 0..LinkMtu - 1 /\ q \in Nat
    BY Mtu, Remainder, Quotient
  <2>3. r = MtuTx - LinkMtu * q
    BY Mtu, Division
  <2> HIDE DEF q, r
  <2>4. LinkMtu * q = q * LinkMtu /\ LinkMtu * q \in Nat
    BY Mtu, <2>2
  <2>5. q * LinkMtu = MtuTx - r
    BY Mtu, <2>2, <2>3, <2>4
  <2>6. MtuTx - r >= LinkMtu /\ MtuTx - r >= 4
    <3>1. q # 0
      BY Mtu, <1>2, <2>2, <2>5
    <3>2. q * LinkMtu >= LinkMtu
      <4>1. (q - 1) * LinkMtu >= 0
        BY Mtu, <2>2, <3>1
      <4>2. q * LinkMtu = (q - 1) * LinkMtu + LinkMtu
        BY Mtu, <2>2
      <4>3. (q - 1) * LinkMtu \in Int /\ q * LinkMtu \in Int
        BY Mtu, <2>2
      <4>4. QED
        BY Mtu, <4>1, <4>2, <4>3
    <3>3. QED
      BY Mtu, <2>2, <2>5, <3>2
  <2>7. QED
    BY Mtu, <2>1, <2>2, <2>5, <2>6
<1>3. QED
  BY <1>1, <1>2

(***************************************************************************)
(* What the operators make of the sender.                                  *)
(***************************************************************************)

(* The sender t after it has put item x into its packet, with q left of    *)
(* the queue and n taken off what is left.                                 *)
AfterItem(t, x, q, n) ==
  [t EXCEPT !.pc = "fill", !.items = Append(@, x), !.size = @ + x.size,
            !.headerq = q, !.left = (@ - n) % 65536,
            !.addmore = IF t.suspend \/ (t.left - n) % 65536 = 0 THEN FALSE ELSE @]

LEMMA Wraps ==
  ASSUME NEW a \in Int
  PROVE  /\ a % 65536 \in Nat /\ a % 65536 < 65536
         /\ 0 <= a /\ a < 65536 => a % 65536 = a
OBVIOUS

(* What that makes of the fields of t.                                     *)
Follows(s, t, x, q, n) ==
  /\ s \in Sender
  /\ s.pc = "fill" /\ s.items = Append(t.items, x)
  /\ s.size = t.size + x.size /\ s.headerq = q
  /\ s.left = (t.left - n) % 65536
  /\ s.totallen = t.totallen /\ s.nonhdr = t.nonhdr
  /\ s.suspend = t.suspend /\ s.unsent = t.unsent
  /\ s.room = t.room /\ s.frag = t.frag /\ s.s_buf = t.s_buf
  /\ s.s_data = t.s_data /\ s.s_stop = t.s_stop
  /\ s.addmore => t.addmore /\ ~t.suspend /\ s.left # 0
  /\ (t.addmore /\ ~t.suspend /\ s.left # 0) => s.addmore

LEMMA AfterItemIs ==
  ASSUME NEW t \in Sender, NEW x \in Item, NEW q \in Seq(Element), NEW n \in Nat
  PROVE  Follows(AfterItem(t, x, q, n), t, x, q, n)
<1>1. (t.left - n) % 65536 \in Nat
  BY Wraps DEF Sender
<1> DEFINE items == Append(t.items, x)
           size  == t.size + x.size
           left  == (t.left - n) % 65536
<1>2. items \in Seq(Item) /\ size \in Nat /\ left \in Nat
  <2>1. t.items \in Seq(Item) /\ t.size \in Nat /\ x.size \in Nat
    BY DEF Sender, Item
  <2>2. QED
    BY <1>1, <2>1
<1> DEFINE more == IF t.suspend \/ left = 0 THEN FALSE ELSE t.addmore
<1>3. AfterItem(t, x, q, n) =
        [t EXCEPT !.pc = "fill", !.items = items, !.size = size,
                  !.headerq = q, !.left = left, !.addmore = more]
  BY DEF AfterItem
<1> HIDE DEF items, size, left
<1>4. more \in BOOLEAN
  BY DEF Sender
<1>5. more <=> t.addmore /\ ~t.suspend /\ left # 0
  BY <1>4 DEF Sender
<1> HIDE DEF more
<1> DEFINE s == AfterItem(t, x, q, n)
<1>6. s \in Sender
  <2> DEFINE u == [t EXCEPT !.pc = "fill", !.items = items, !.size = size]
  <2>1. u \in Sender
    BY <1>2 DEF Sender
  <2>2. s = [u EXCEPT !.headerq = q, !.left = left, !.addmore = more]
    BY <1>3
  <2> HIDE DEF s, u
  <2>3. QED
    BY <1>2, <1>4, <2>1, <2>2 DEF Sender
<1>7. /\ s.pc = "fill" /\ s.items = items /\ s.size = size /\ s.headerq = q
      /\ s.left = left /\ s.addmore = more
  BY <1>3 DEF Sender
<1>8. /\ s.totallen = t.totallen /\ s.nonhdr = t.nonhdr
      /\ s.suspend = t.suspend /\ s.unsent = t.unsent
      /\ s.room = t.room /\ s.frag = t.frag /\ s.s_buf = t.s_buf
      /\ s.s_data = t.s_data /\ s.s_stop = t.s_stop
  BY <1>3 DEF Sender
<1> HIDE DEF s
<1>9. QED
  BY <1>5, <1>6, <1>7, <1>8 DEF Follows, items, size, left, s

LEMMA AfterItemStays ==
  ASSUME NEW t \in Sender, NEW x \in Item, NEW q \in Seq(Element), NEW n \in Nat
  PROVE  AfterItem(t, x, q, n) \in Sender /\ AfterItem(t, x, q, n).pc = "fill"
<1> DEFINE s == AfterItem(t, x, q, n)
<1>1. Follows(s, t, x, q, n)
  BY AfterItemIs
<1> HIDE DEF s
<1>2. QED
  BY <1>1 DEF Follows, s

LEMMA FilledWith ==
  ASSUME NEW t \in Sender, NEW x \in Item, NEW n \in Nat
  PROVE  /\ More(Take(Put(t, x), n)) = AfterItem(t, x, t.headerq, n)
         /\ More(Take(Pop(Put(t, x)), n)) = AfterItem(t, x, Tail(t.headerq), n)
         /\ \A d : More(Take([Put(t, x) EXCEPT !.headerq[1].data = d], n)) =
                     AfterItem(t, x, [t.headerq EXCEPT ![1].data = d], n)
<1> DEFINE items == Append(t.items, x)
           size  == t.size + x.size
           left  == (t.left - n) % 65536
           more  == IF t.suspend \/ left = 0 THEN FALSE ELSE t.addmore
           p     == Put(t, x)
           s(q)  == [t EXCEPT !.items = items, !.size = size, !.headerq = q,
                              !.left = left]
<1>1. p = [t EXCEPT !.items = items, !.size = size]
  BY DEF Put
<1> HIDE DEF p
<1>2. \A q : AfterItem(t, x, q, n) =
              [t EXCEPT !.pc = "fill", !.items = items, !.size = size,
                        !.headerq = q, !.left = left, !.addmore = more]
  BY DEF AfterItem
<1> HIDE DEF items, size, left, more
<1>3. \A q : More(s(q)) = AfterItem(t, x, q, n)
  <2> TAKE q
  <2>1. s(q).suspend = t.suspend /\ s(q).left = left /\ s(q).addmore = t.addmore
    BY DEF Sender
  <2>2. More(s(q)) = [s(q) EXCEPT !.pc = "fill", !.addmore = more]
    BY <2>1 DEF More, more
  <2>3. [s(q) EXCEPT !.pc = "fill", !.addmore = more] =
          [t EXCEPT !.pc = "fill", !.items = items, !.size = size,
                    !.headerq = q, !.left = left, !.addmore = more]
    BY DEF Sender
  <2>4. QED
    BY <1>2, <2>2, <2>3
<1>4. p.left = t.left /\ p.headerq = t.headerq
  BY <1>1 DEF Sender
<1>5. ASSUME NEW r, r.left = t.left
      PROVE  Take(r, n) = [r EXCEPT !.left = left]
  BY <1>5 DEF Take, left
<1>6. Take(p, n) = s(t.headerq)
  <2>1. Take(p, n) = [p EXCEPT !.left = left]
    BY <1>4, <1>5
  <2>2. QED
    BY <1>1, <2>1 DEF Sender
<1>7. ASSUME NEW q
      PROVE  Take([p EXCEPT !.headerq = q], n) = s(q)
  <2>1. [p EXCEPT !.headerq = q].left = t.left
    BY <1>1 DEF Sender
  <2>2. Take([p EXCEPT !.headerq = q], n) =
          [[p EXCEPT !.headerq = q] EXCEPT !.left = left]
    BY <1>5, <2>1
  <2>3. QED
    BY <1>1, <2>2 DEF Sender
<1>8. Pop(p) = [p EXCEPT !.headerq = Tail(t.headerq)]
  BY <1>4 DEF Pop
<1>9. ASSUME NEW d
      PROVE  [p EXCEPT !.headerq[1].data = d] =
               [p EXCEPT !.headerq = [t.headerq EXCEPT ![1].data = d]]
  BY <1>4
<1> HIDE DEF s
<1>10. More(Take(p, n)) = AfterItem(t, x, t.headerq, n)
  BY <1>3, <1>6
<1>11. More(Take(Pop(p), n)) = AfterItem(t, x, Tail(t.headerq), n)
  BY <1>3, <1>7, <1>8
<1>12. ASSUME NEW d
       PROVE  More(Take([p EXCEPT !.headerq[1].data = d], n)) =
                AfterItem(t, x, [t.headerq EXCEPT ![1].data = d], n)
  <2> DEFINE c == [t.headerq EXCEPT ![1].data = d]
             u == [p EXCEPT !.headerq[1].data = d]
  <2>1. u = [p EXCEPT !.headerq = c]
    BY <1>9
  <2> HIDE DEF c, u
  <2>2. Take(u, n) = s(c)
    BY <1>7, <2>1
  <2>3. More(Take(u, n)) = AfterItem(t, x, c, n)
    BY <1>3, <2>2
  <2>4. QED
    BY <2>3 DEF c, u
<1>13. QED
  BY <1>10, <1>11, <1>12 DEF p

LEMMA FlaggedIs ==
  ASSUME NEW t \in Sender, NEW h \in Element
  PROVE  LET s == Flagged(t, h)
         IN  /\ s \in Sender
             /\ s.pc = t.pc /\ s.items = t.items /\ s.size = t.size
             /\ s.headerq = t.headerq /\ s.left = t.left
             /\ s.totallen = t.totallen /\ s.nonhdr = t.nonhdr
             /\ s.unsent = t.unsent /\ s.addmore = t.addmore
             /\ s.room = t.room /\ s.frag = t.frag /\ s.s_buf = t.s_buf
             /\ s.s_data = t.s_data /\ s.s_stop = t.s_stop
             /\ (~t.suspend /\ ~h.suspend) => ~s.suspend
<1>1. CASE h.suspend
  BY <1>1 DEF Flagged, Sender
<1>2. CASE ~h.suspend
  BY <1>2 DEF Flagged
<1>3. QED
  BY <1>1, <1>2

(* The queue whose first body has only the data d left.                    *)
LEMMA CutIs ==
  ASSUME NEW q \in Seq(Element), q # <<>>, NEW d \in Seq(Nat)
  PROVE  LET c == [q EXCEPT ![1].data = d]
         IN  /\ c \in Seq(Element) /\ Len(c) = Len(q) /\ c # <<>>
             /\ \A i \in 1..Len(q) :
                  /\ c[i].no = q[i].no /\ c[i].kind = q[i].kind
                  /\ c[i].length = q[i].length /\ c[i].suspend = q[i].suspend
                  /\ c[i].data = IF i = 1 THEN d ELSE q[i].data
<1> DEFINE c == [q EXCEPT ![1].data = d]
           e == [q[1] EXCEPT !.data = d]
<1>1. q[1] \in Element /\ 1 \in 1..Len(q)
  BY EmptySeq, ElementOfSeq
<1>2. e \in Element /\ e.data = d
  BY <1>1 DEF Element
<1>3. /\ e.no = q[1].no /\ e.kind = q[1].kind /\ e.length = q[1].length
      /\ e.suspend = q[1].suspend
  BY <1>1 DEF Element
<1> HIDE DEF e
<1>4. c = [q EXCEPT ![1] = e]
  BY DEF e
<1>5. c \in Seq(Element) /\ Len(c) = Len(q)
  BY <1>1, <1>2, <1>4, ExceptSeq
<1>6. \A i \in 1..Len(q) : c[i] = IF i = 1 THEN e ELSE q[i]
  BY <1>4
<1>7. QED
  BY <1>1, <1>2, <1>3, <1>5, <1>6

LEMMA ItemOfIs ==
  ASSUME NEW h \in Element, NEW kind \in {"BODY", "BODY_END"}, NEW d \in Seq(Nat)
  PROVE  LET x == ItemOf(h, kind, d)
         IN  /\ x \in Item
             /\ x.no = h.no /\ x.kind = kind /\ x.data = d
             /\ x.size = 3 + Len(d)
<1>1. 3 + Len(d) \in Nat
  BY LenProperties
<1>2. h.no \in Nat
  BY DEF Element
<1>3. ItemOf(h, kind, d) = [no |-> h.no, kind |-> kind, size |-> 3 + Len(d), data |-> d]
  BY Sizes DEF ItemOf
<1>4. QED
  BY <1>1, <1>2, <1>3 DEF Item

LEMMA Queue ==
  ASSUME NEW t \in Sender, t.headerq # <<>>
  PROVE  /\ t.headerq \in Seq(Element) /\ Len(t.headerq) \in Nat \ {0}
         /\ Head(t.headerq) = t.headerq[1] /\ t.headerq[1] \in Element
         /\ Tail(t.headerq) \in Seq(Element)
         /\ Len(Tail(t.headerq)) = Len(t.headerq) - 1
         /\ \A i \in 1..Len(t.headerq) - 1 : Tail(t.headerq)[i] = t.headerq[i + 1]
<1>1. t.headerq \in Seq(Element)
  BY DEF Sender
<1>2. Len(t.headerq) \in Nat \ {0}
  BY <1>1, EmptySeq
<1>3. t.headerq[1] \in Element
  BY <1>1, <1>2, ElementOfSeq
<1>4. Head(t.headerq) = t.headerq[1]
  BY <1>1, <1>2
<1>5. QED
  BY <1>1, <1>2, <1>3, <1>4, HeadTailProperties

(* send_stream ends with the fragment in the packet.                       *)
LEMMA EndStreamIs ==
  ASSUME NEW t \in Sender, t.headerq # <<>>
  PROVE  LET last == t.s_stop /\ t.s_data = <<>>
             x    == ItemOf(t.headerq[1], IF last THEN "BODY_END" ELSE "BODY", t.frag)
             q    == IF last THEN Tail(t.headerq) ELSE t.headerq
             n    == 3 + Len(t.frag)
         IN  /\ x \in Item /\ q \in Seq(Element) /\ n \in Nat
             /\ EndStream(t) = AfterItem(t, x, q, n)
<1> DEFINE last == t.s_stop /\ t.s_data = <<>>
           x == ItemOf(t.headerq[1], IF last THEN "BODY_END" ELSE "BODY", t.frag)
           n == 3 + Len(t.frag)
<1>1. t.frag \in Seq(Nat) /\ n \in Nat
  <2>1. t.frag \in Seq(Nat)
    BY DEF Sender
  <2>2. QED
    BY <2>1, LenProperties
<1>2. x \in Item
  BY <1>1, Queue, ItemOfIs
<1>3. EndStream(t) = More(Take(IF last THEN Pop(Put(t, x)) ELSE Put(t, x), n))
  BY Queue, Sizes DEF EndStream
<1>4. n \in Nat
  BY <1>1
<1> HIDE DEF x, n
<1>5. CASE last
  BY <1>2, <1>3, <1>4, <1>5, Queue, FilledWith DEF x, n
<1>6. CASE ~last
  BY <1>2, <1>3, <1>4, <1>6, Queue, FilledWith DEF x, n
<1>7. QED
  BY <1>5, <1>6

(* send_body ends with a fragment in the packet, or all that is left.      *)
LEMMA SendBodyIs ==
  ASSUME NEW t \in Sender, t.headerq # <<>>, t.left >= 3
  PROVE  LET d == t.headerq[1].data
             n == t.left - 3
             f == SubSeq(d, 1, n)
             r == SubSeq(d, n + 1, Len(d))
             x == ItemOf(t.headerq[1], "BODY", f)
             y == ItemOf(t.headerq[1], "BODY_END", d)
         IN  IF t.left < Len(d) + 3
             THEN /\ f \in Seq(Nat) /\ r \in Seq(Nat) /\ Len(f) = n
                  /\ Len(r) = Len(d) - n
                  /\ \A i \in 1..Len(f) : f[i] = d[i]
                  /\ \A i \in 1..Len(r) : r[i] = d[n + i]
                  /\ x \in Item
                  /\ More(SendBody(t, t.headerq[1])) =
                       AfterItem(t, x, [t.headerq EXCEPT ![1].data = r], t.left)
             ELSE /\ y \in Item
                  /\ More(SendBody(t, t.headerq[1])) =
                       AfterItem(t, y, Tail(t.headerq), Len(d))
<1> DEFINE h == t.headerq[1]
           d == h.data
           n == t.left - 3
           f == SubSeq(d, 1, n)
           r == SubSeq(d, n + 1, Len(d))
<1>1. h \in Element /\ d \in Seq(Nat) /\ Len(d) \in Nat
  BY Queue, LenProperties DEF Element
<1>2. t.left \in Nat /\ n \in Nat
  BY DEF Sender
<1>3. CASE t.left < Len(d) + 3
  <2>1. n < Len(d)
    BY <1>1, <1>2, <1>3
  <2>2. /\ f \in Seq(Nat) /\ Len(f) = n
        /\ \A i \in 1..n : f[i] = d[i]
    <3>1. \A i \in 1..n : d[i] \in Nat
      <4>1. 1..n \subseteq 1..Len(d)
        BY <1>1, <1>2, <2>1
      <4>2. QED
        BY <1>1, <4>1, LenProperties
    <3>2. 1 \in Int /\ n \in Int
      BY <1>2
    <3> HIDE DEF d, n
    <3>3. QED
      BY <3>1, <3>2, <1>2, SubSeqProperties, SMTT(20)
  <2>3. /\ r \in Seq(Nat) /\ Len(r) = Len(d) - n
        /\ \A i \in 1..Len(r) : r[i] = d[n + i]
    <3>1. \A i \in n + 1..Len(d) : d[i] \in Nat
      <4>1. n + 1..Len(d) \subseteq 1..Len(d)
        BY <1>1, <1>2
      <4>2. QED
        BY <1>1, <4>1, LenProperties
    <3>2. n + 1 \in Int /\ Len(d) \in Int
      BY <1>1, <1>2
    <3> HIDE DEF d, n
    <3>3. QED
      BY <3>1, <3>2, <1>1, <1>2, <2>1, SubSeqProperties, SMTT(20)
  <2>4. ItemOf(h, "BODY", f) \in Item
    BY <1>1, <2>2, ItemOfIs
  <2>5. SendBody(t, h) = Take([Put(t, ItemOf(h, "BODY", f)) EXCEPT
                                 !.headerq[1].data = r], t.left)
    BY <1>3, Sizes DEF SendBody
  <2>6. t.left \in Nat
    BY <1>2
  <2>7. \A x \in Item : More(Take([Put(t, x) EXCEPT !.headerq[1].data = r], t.left))
                           = AfterItem(t, x, [t.headerq EXCEPT ![1].data = r], t.left)
    <3> HIDE DEF r
    <3> QED BY <2>6, FilledWith
  <2>8. More(SendBody(t, h)) =
          AfterItem(t, ItemOf(h, "BODY", f), [t.headerq EXCEPT ![1].data = r], t.left)
    BY <2>4, <2>5, <2>7
  <2>9. QED
    BY <1>3, <2>1, <2>2, <2>3, <2>4, <2>8
<1>4. CASE ~(t.left < Len(d) + 3)
  <2>1. ItemOf(h, "BODY_END", d) \in Item
    BY <1>1, ItemOfIs
  <2>2. SendBody(t, h) = Take(Pop(Put(t, ItemOf(h, "BODY_END", d))), Len(d))
    BY <1>4, Sizes DEF SendBody
  <2> HIDE DEF h
  <2>3. QED
    BY <1>1, <1>4, <2>1, <2>2, FilledWith DEF h
<1>5. QED
  BY <1>3, <1>4

(***************************************************************************)
(* What FillHeader can do with the first header of the queue.              *)
(***************************************************************************)
First == tx.headerq[1]
Filler == Flagged(tx, First)
HeaderItem(h) ==
  [no |-> h.no, kind |-> "HEADER", size |-> h.length, data |-> <<>>]

(* Fragment f of a body goes into the packet and r is left of it.          *)
Cuts(f, r) ==
  /\ First.kind = "BODY" /\ tx.left >= 3 /\ Len(f) = tx.left - 3
  /\ Len(r) > 0 /\ Len(f) + Len(r) = Len(First.data)
  /\ \A i \in 1..Len(f) : f[i] = First.data[i]
  /\ \A i \in 1..Len(r) : r[i] = First.data[Len(f) + i]
  /\ ItemOf(First, "BODY", f) \in Item
  /\ tx' = AfterItem(Filler, ItemOf(First, "BODY", f),
                     [tx.headerq EXCEPT ![1].data = r], tx.left)
  /\ phase' = phase /\ hist' = hist

(* All that is left of a body goes.                                        *)
EndsBody ==
  /\ First.kind = "BODY" /\ tx.left >= Len(First.data) + 3
  /\ ItemOf(First, "BODY_END", First.data) \in Item
  /\ tx' = AfterItem(Filler, ItemOf(First, "BODY_END", First.data),
                     Tail(tx.headerq), Len(First.data))
  /\ phase' = phase /\ hist' = hist

Overruns ==
  First.kind = "BODY" /\ tx.left < 3 /\ phase' = "overrun" /\ tx' = tx /\ hist' = hist

Skips ==
  First.kind = "EMPTY" /\ tx' = More(Pop(Filler)) /\ phase' = phase /\ hist' = hist

(* Another header goes whole ...                                           *)
PutsHeader ==
  /\ Plain(First) /\ First.length <= tx.left
  /\ HeaderItem(First) \in Item
  /\ tx' = AfterItem(Filler, HeaderItem(First), Tail(tx.headerq), First.length)
  /\ phase' = phase /\ hist' = hist

(* ... or does not fit.                                                    *)
Stops ==
  /\ Plain(First) /\ First.length > tx.left
  /\ hist' = hist
  /\ \/ phase' = "failed" /\ tx' = tx
     \/ phase' = phase /\ tx' = [tx EXCEPT !.addmore = FALSE]

BeginsStream ==
  /\ First.kind = "STREAM"
  /\ tx' = [Filler EXCEPT
             !.pc = IF tx.s_data = <<>> THEN "ask" ELSE "copy",
             !.room = IF tx.left < 3 THEN HUGE ELSE tx.left - 3,
             !.frag = <<>>]
  /\ hist' = [hist EXCEPT !.short = @ \/ tx.left < SEQHDR]
  /\ phase' = phase

LEMMA FillIs ==
  ASSUME TypeOK, FillHeader
  PROVE  /\ phase = "open" /\ tx.pc = "fill" /\ tx.addmore /\ tx.headerq # <<>>
         /\ env' = env /\ link' = link /\ rx' = rx
         /\ \/ \E f, r \in Seq(Nat) : Cuts(f, r)
            \/ EndsBody
            \/ Overruns
            \/ Skips
            \/ PutsHeader
            \/ Stops
            \/ BeginsStream
<1>1. /\ phase = "open" /\ tx.pc = "fill" /\ tx.addmore /\ tx.headerq # <<>>
      /\ env' = env /\ link' = link /\ rx' = rx
  BY DEF FillHeader
<1>2. tx \in Sender /\ First \in Element /\ First = Head(tx.headerq)
  BY <1>1, Queue DEF TypeOK, First
<1>3. /\ Filler \in Sender /\ Filler.headerq = tx.headerq /\ Filler.left = tx.left
      /\ Filler.s_data = tx.s_data
  BY <1>2, FlaggedIs DEF Filler
<1>4. tx.left \in Nat
  BY <1>2 DEF Sender
<1>5. CASE First.kind = "BODY" /\ tx.left >= SEQHDR
  <2>1. tx' = More(SendBody(Filler, First)) /\ phase' = phase /\ hist' = hist
    BY <1>2, <1>4, <1>5, Sizes DEF FillHeader, Filler, Plain
  <2>2. Filler.left >= 3 /\ Filler.headerq # <<>>
    BY <1>1, <1>3, <1>5, Sizes
  <2>3. Filler.headerq[1] = First /\ Filler.left = tx.left
    BY <1>3 DEF First
  <2> DEFINE d == Filler.headerq[1].data
             n == Filler.left - 3
             f == SubSeq(d, 1, n)
             r == SubSeq(d, n + 1, Len(d))
  <2>4. d \in Seq(Nat) /\ Len(d) \in Nat /\ d = First.data
    BY <1>2, <2>3, LenProperties DEF Element
  <2>5. CASE Filler.left < Len(d) + 3
    <3>1. /\ f \in Seq(Nat) /\ r \in Seq(Nat) /\ Len(f) = n
          /\ Len(r) = Len(d) - n
          /\ \A i \in 1..Len(f) : f[i] = d[i]
          /\ \A i \in 1..Len(r) : r[i] = d[n + i]
          /\ ItemOf(Filler.headerq[1], "BODY", f) \in Item
          /\ More(SendBody(Filler, Filler.headerq[1])) =
               AfterItem(Filler, ItemOf(Filler.headerq[1], "BODY", f),
                         [Filler.headerq EXCEPT ![1].data = r], Filler.left)
      BY <1>3, <2>2, <2>5, SendBodyIs
    <3>2. n = tx.left - 3
      BY <2>3
    <3> HIDE DEF d, n, f, r
    <3>3. Len(f) = n /\ Len(r) = Len(d) - n
      BY <3>1
    <3>4. Len(f) = tx.left - 3 /\ Len(r) > 0 /\ Len(f) + Len(r) = Len(d)
      <4>1. tx.left < Len(d) + 3 /\ Len(d) \in Nat
        BY <2>3, <2>4, <2>5
      <4>2. Len(f) = tx.left - 3 /\ Len(r) = Len(d) - (tx.left - 3)
        BY <3>2, <3>3
      <4>3. QED
        BY <1>4, <4>1, <4>2
    <3>5. tx.left >= 3
      BY <2>2, <2>3
    <3>6. tx' = AfterItem(Filler, ItemOf(First, "BODY", f),
                          [tx.headerq EXCEPT ![1].data = r], tx.left)
      BY <1>3, <2>1, <2>3, <3>1
    <3>7. Cuts(f, r)
      BY <1>5, <2>1, <2>3, <2>4, <3>1, <3>4, <3>5, <3>6 DEF Cuts
    <3>8. QED
      BY <1>1, <3>1, <3>7
  <2>6. CASE ~(Filler.left < Len(d) + 3)
    <3>1. /\ ItemOf(Filler.headerq[1], "BODY_END", d) \in Item
          /\ More(SendBody(Filler, Filler.headerq[1])) =
               AfterItem(Filler, ItemOf(Filler.headerq[1], "BODY_END", d),
                         Tail(Filler.headerq), Len(d))
      BY <1>3, <2>2, <2>6, SendBodyIs
    <3> HIDE DEF d
    <3>2. tx.left >= Len(d) + 3
      BY <1>4, <2>3, <2>4, <2>6
    <3>3. EndsBody
      BY <1>3, <1>5, <2>1, <2>3, <2>4, <3>1, <3>2 DEF EndsBody
    <3>4. QED
      BY <1>1, <3>3
  <2>7. QED
    BY <2>5, <2>6
<1>6. CASE First.kind = "BODY" /\ tx.left < SEQHDR
  BY <1>1, <1>2, <1>4, <1>6, Sizes DEF FillHeader, Overruns, Plain
<1>7. CASE First.kind = "EMPTY"
  BY <1>1, <1>2, <1>7 DEF FillHeader, Skips, Filler, Plain
<1>8. CASE Plain(First) /\ FitsIn(First, tx)
  <2>1. /\ tx' = More(Take(Pop(Put(Filler, HeaderItem(First))), First.length))
        /\ phase' = phase /\ hist' = hist
    BY <1>2, <1>8 DEF FillHeader, Filler, Plain, HeaderItem
  <2>2. HeaderItem(First) \in Item /\ First.length \in Nat
    BY <1>2 DEF Element, Item, HeaderItem
  <2>3. tx' = AfterItem(Filler, HeaderItem(First), Tail(tx.headerq), First.length)
    BY <1>3, <2>1, <2>2, FilledWith
  <2>4. PutsHeader
    BY <1>8, <2>1, <2>2, <2>3 DEF PutsHeader, FitsIn
  <2>5. QED
    BY <1>1, <2>4
<1>9. CASE Plain(First) /\ ~FitsIn(First, tx)
  <2>1. First.length \in Nat
    BY <1>2 DEF Element
  <2>2. Stops
    BY <1>2, <1>4, <1>9, <2>1 DEF FillHeader, Stops, FitsIn, Plain
  <2>3. QED
    BY <1>1, <2>2
<1>10. CASE First.kind = "STREAM"
  <2>1. /\ tx' = [Filler EXCEPT
                   !.pc = IF Filler.s_data = <<>> THEN "ask" ELSE "copy",
                   !.room = IF Filler.left < SEQHDR THEN HUGE ELSE Filler.left - SEQHDR,
                   !.frag = <<>>]
        /\ hist' = [hist EXCEPT !.short = @ \/ tx.left < SEQHDR]
        /\ phase' = phase
    BY <1>2, <1>10 DEF FillHeader, Filler, Plain
  <2>2. BeginsStream
    BY <1>3, <1>10, <2>1, Sizes DEF BeginsStream
  <2>3. QED
    BY <1>1, <2>2
<1>11. QED
  BY <1>2, <1>5, <1>6, <1>7, <1>8, <1>9, <1>10 DEF FillHeader

(***************************************************************************)
(* Types, and where the bytes of a packet are.  While the packet is made   *)
(* nothing is on the link; then it is the one packet of the sender there,  *)
(* with at most an ABORT after it, and no byte is read before it is        *)
(* written.                                                                *)
(***************************************************************************)
Histories ==
  [added : Seq(Element), fits : BOOLEAN, given : Nat,
   chunks : 0..MaxChunks, short : BOOLEAN, faults : 0..MaxFaults,
   aborting : BOOLEAN, readFailed : BOOLEAN, overfed : BOOLEAN,
   dropped : Nat, streamed : Seq(Nat), eos : Nat]

AbortPacket == [op |-> "ABORT", size |-> COMMON, items |-> <<>>]

(* The packet of the sender is the first on the link, as it was made.      *)
Made ==
  /\ link.pkts # <<>>
  /\ link.pkts[1].op # "ABORT"
  /\ link.pkts[1].op = "LAST" <=> tx.headerq = <<>>
  /\ link.pkts[1].size = tx.size
  /\ link.pkts[1].items = tx.items
  /\ tx.size >= COMMON

OnLink ==
  /\ tx.pc \in {"add", "fill", "ask", "copy", "turn"} =>
       link.pkts = <<>> /\ link.written = 0 /\ ~hist.aborting
  /\ tx.pc = "write" =>
       /\ Made /\ Len(link.pkts) = 1 /\ ~hist.aborting
       /\ tx.unsent > 0 /\ link.written + tx.unsent = tx.size
       /\ env.trans \in {"USB", "CUSTOM"} => tx.unsent = tx.size
  /\ tx.pc = "wait" =>
       \/ ~hist.aborting /\ Made /\ Len(link.pkts) = 1 /\ link.written = tx.size
       \/ /\ hist.aborting /\ link.pkts = <<AbortPacket>>
          /\ link.written = COMMON
       \/ /\ hist.aborting /\ Made /\ Len(link.pkts) = 2
          /\ link.pkts[2] = AbortPacket
          /\ link.written = tx.size + COMMON

AtReceiver ==
  /\ link.taken <= link.written
  /\ rx.pc = "read" =>
       /\ rx.todo = <<>>
       /\ AtPacket => IF link.pkts = <<>> THEN rx.size = 0
                      ELSE rx.size < link.pkts[1].size
  /\ rx.pc = "parse" =>
       /\ link.pkts # <<>>
       /\ rx.size = link.pkts[1].size
       /\ rx.size <= link.taken
       /\ AtPacket \/ hist.overfed

(* send_stream is in the stream at the front of the queue.                 *)
Asking ==
  tx.pc \in {"ask", "copy"} =>
    tx.headerq # <<>> /\ tx.headerq[1].kind = "STREAM"

Transit == phase = "open" => OnLink /\ AtReceiver /\ Asking

(* obex_object_send is at work.                                            *)
Works ==
  \/ FillHeader
  \/ \E n \in ChunkSizes, end \in BOOLEAN : AnswerStream(n, end)
  \/ \E suspend \in BOOLEAN : AnswerStreamNothing(suspend)
  \/ CopyStream

LEMMA EndStreamStays ==
  ASSUME NEW t \in Sender, t.headerq # <<>>
  PROVE  EndStream(t) \in Sender /\ EndStream(t).pc = "fill"
<1> DEFINE last == t.s_stop /\ t.s_data = <<>>
           x == ItemOf(t.headerq[1], IF last THEN "BODY_END" ELSE "BODY", t.frag)
           q == IF last THEN Tail(t.headerq) ELSE t.headerq
           n == 3 + Len(t.frag)
<1>1. /\ x \in Item /\ q \in Seq(Element) /\ n \in Nat
      /\ EndStream(t) = AfterItem(t, x, q, n)
  BY EndStreamIs
<1> HIDE DEF x, q, n
<1>2. QED
  BY <1>1, AfterItemStays

LEMMA NumbersIs ==
  ASSUME NEW from \in Nat, NEW n \in Nat
  PROVE  /\ Numbers(from, n) \in Seq(Nat) /\ Len(Numbers(from, n)) = n
         /\ \A i \in 1..n : Numbers(from, n)[i] = from + i
<1>1. \A i \in 1..n : from + i \in Nat
  OBVIOUS
<1>2. QED
  BY <1>1, IsASeq DEF Numbers

LEMMA SkipIs ==
  ASSUME NEW t \in Sender, t.headerq # <<>>
  PROVE  LET s == More(Pop(t))
         IN  /\ s \in Sender
             /\ s.pc = "fill" /\ s.items = t.items /\ s.size = t.size
             /\ s.headerq = Tail(t.headerq) /\ s.left = t.left
             /\ s.totallen = t.totallen /\ s.suspend = t.suspend
             /\ s.nonhdr = t.nonhdr
             /\ s.frag = t.frag /\ s.s_data = t.s_data /\ s.s_stop = t.s_stop
             /\ s.addmore => t.addmore /\ ~t.suspend /\ t.left # 0
             /\ (t.addmore /\ ~t.suspend /\ t.left # 0) => s.addmore
<1> DEFINE q == Tail(t.headerq)
           p == [t EXCEPT !.headerq = q]
<1>1. q \in Seq(Element)
  BY Queue
<1> HIDE DEF q
<1>2. p \in Sender /\ p.left = t.left /\ p.suspend = t.suspend
  BY <1>1 DEF Sender
<1>3. Pop(t) = p
  BY DEF Pop, q
<1> DEFINE more == IF t.suspend \/ t.left = 0 THEN FALSE ELSE t.addmore
<1>4. /\ more \in BOOLEAN
      /\ more <=> t.addmore /\ ~t.suspend /\ t.left # 0
  BY DEF Sender
<1>5. More(p) = [t EXCEPT !.headerq = q, !.pc = "fill", !.addmore = more]
  <2>1. p.addmore = t.addmore
    BY DEF Sender
  <2>2. More(p) = [p EXCEPT !.pc = "fill", !.addmore = more]
    BY <1>2, <2>1 DEF More
  <2>3. QED
    BY <2>2
<1> HIDE DEF more
<1> DEFINE s == More(p)
<1>6. s \in Sender
  BY <1>1, <1>4, <1>5 DEF Sender
<1>7. /\ s.pc = "fill" /\ s.items = t.items /\ s.size = t.size
      /\ s.headerq = q /\ s.left = t.left
      /\ s.totallen = t.totallen /\ s.suspend = t.suspend
      /\ s.nonhdr = t.nonhdr
      /\ s.frag = t.frag /\ s.s_data = t.s_data /\ s.s_stop = t.s_stop
      /\ s.addmore = more
  BY <1>5 DEF Sender
<1> HIDE DEF s, p
<1>8. QED
  BY <1>3, <1>4, <1>6, <1>7 DEF q, s

LEMMA SizesAreNat ==
  NonHeaderSizes \subseteq Nat /\ BodySizes \subseteq Nat
    /\ NameSizes \subseteq Nat /\ ChunkSizes \subseteq Nat
BY SizesAssumption

LEMMA BoundsAreNat == MaxHeaders \in Nat /\ MaxChunks \in Nat /\ MaxFaults \in Nat
BY BoundsAssumption

LEMMA FillKeeps ==
  ASSUME TypeOK, FillHeader
  PROVE  /\ tx' \in Sender /\ tx'.pc \in {"fill", "ask", "copy"} /\ Asking'
         /\ hist' \in Histories /\ hist'.aborting = hist.aborting
         /\ hist'.readFailed = hist.readFailed /\ hist'.overfed = hist.overfed
         /\ phase' \in {"open", "failed", "overrun"}
<1>1. /\ phase = "open" /\ tx.pc = "fill" /\ tx.headerq # <<>>
      /\ tx \in Sender /\ hist \in Histories
  BY FillIs DEF TypeOK, Histories
<1>2. First \in Element /\ Tail(tx.headerq) \in Seq(Element)
  BY <1>1, Queue DEF First
<1>3. Filler \in Sender /\ Filler.headerq = tx.headerq /\ Filler.pc = tx.pc
  BY <1>1, <1>2, FlaggedIs DEF Filler
<1>4. tx.left \in Nat
  BY <1>1 DEF Sender
<1>5. ASSUME NEW f \in Seq(Nat), NEW r \in Seq(Nat), Cuts(f, r)
      PROVE  tx' \in Sender /\ tx'.pc = "fill" /\ phase' = "open" /\ hist' = hist
  <2> DEFINE q == [tx.headerq EXCEPT ![1].data = r]
             x == ItemOf(First, "BODY", f)
             n == tx.left
  <2>1. q \in Seq(Element)
    BY <1>1, CutIs DEF Sender
  <2>2. /\ x \in Item /\ tx' = AfterItem(Filler, x, q, n)
        /\ phase' = "open" /\ hist' = hist
    BY <1>1, <1>5 DEF Cuts
  <2>3. n \in Nat
    BY <1>4
  <2> HIDE DEF q, x, n
  <2>4. AfterItem(Filler, x, q, n) \in Sender /\ AfterItem(Filler, x, q, n).pc = "fill"
    BY <1>3, <2>1, <2>2, <2>3, AfterItemStays
  <2>5. QED
    BY <2>2, <2>4
<1>6. CASE EndsBody
  <2>1. Len(First.data) \in Nat
    BY <1>2, LenProperties DEF Element
  <2> DEFINE q == Tail(tx.headerq)
             x == ItemOf(First, "BODY_END", First.data)
             n == Len(First.data)
  <2>2. /\ x \in Item /\ tx' = AfterItem(Filler, x, q, n)
        /\ phase' = "open" /\ hist' = hist
    BY <1>1, <1>6 DEF EndsBody
  <2>3. q \in Seq(Element) /\ n \in Nat
    BY <1>2, <2>1
  <2> HIDE DEF q, x, n
  <2>4. tx' \in Sender /\ tx'.pc = "fill"
    BY <1>3, <2>2, <2>3, AfterItemStays
  <2>5. QED
    BY <1>1, <2>2, <2>4 DEF Asking
<1>7. CASE Overruns
  BY <1>1, <1>7 DEF Overruns, Asking
<1>8. CASE Skips
  <2>1. tx' \in Sender /\ tx'.pc = "fill" /\ phase' = "open" /\ hist' = hist
    BY <1>1, <1>3, <1>8, SkipIs DEF Skips
  <2>2. QED
    BY <1>1, <2>1 DEF Asking
<1>9. CASE PutsHeader
  <2>1. First.length \in Nat
    BY <1>2 DEF Element
  <2> DEFINE q == Tail(tx.headerq)
             x == HeaderItem(First)
             n == First.length
  <2>2. /\ x \in Item /\ tx' = AfterItem(Filler, x, q, n)
        /\ phase' = "open" /\ hist' = hist
    BY <1>1, <1>9 DEF PutsHeader
  <2>3. q \in Seq(Element) /\ n \in Nat
    BY <1>2, <2>1
  <2> HIDE DEF q, x, n
  <2>4. tx' \in Sender /\ tx'.pc = "fill"
    BY <1>3, <2>2, <2>3, AfterItemStays
  <2>5. QED
    BY <1>1, <2>2, <2>4 DEF Asking
<1>10. CASE Stops
  <2>1. tx' \in Sender /\ tx'.pc = "fill"
    BY <1>1, <1>10 DEF Stops, Sender
  <2>2. QED
    BY <1>1, <1>10, <2>1 DEF Stops, Asking
<1>11. CASE BeginsStream
  <2> DEFINE pc == IF tx.s_data = <<>> THEN "ask" ELSE "copy"
             room == IF tx.left < 3 THEN HUGE ELSE tx.left - 3
  <2>1. pc \in {"ask", "copy"} /\ room \in Nat
    BY <1>4 DEF HUGE
  <2>2. tx' = [Filler EXCEPT !.pc = pc, !.room = room, !.frag = <<>>]
    BY <1>11 DEF BeginsStream
  <2> HIDE DEF pc, room
  <2>3. tx' \in Sender /\ tx'.pc = pc /\ tx'.headerq = tx.headerq
    BY <1>3, <2>1, <2>2, EmptySeq DEF Sender
  <2>4. Asking'
    BY <1>1, <1>11, <2>3 DEF Asking, BeginsStream, First
  <2>5. /\ hist' \in Histories /\ hist'.aborting = hist.aborting
        /\ hist'.readFailed = hist.readFailed /\ hist'.overfed = hist.overfed
    BY <1>1, <1>11 DEF BeginsStream, Histories
  <2>6. QED
    BY <1>1, <1>11, <2>1, <2>3, <2>4, <2>5 DEF BeginsStream
<1>12. ASSUME NEW f \in Seq(Nat), NEW r \in Seq(Nat), Cuts(f, r)
       PROVE  Asking'
  BY <1>5, <1>12 DEF Asking
<1>13. QED
  BY <1>1, <1>5, <1>6, <1>7, <1>8, <1>9, <1>10, <1>11, <1>12, FillIs

LEMMA SmallerIs ==
  ASSUME NEW a \in Nat, NEW b \in Nat
  PROVE  /\ Smaller(a, b) \in Nat /\ Smaller(a, b) <= a /\ Smaller(a, b) <= b
         /\ Smaller(a, b) = a \/ Smaller(a, b) = b
BY DEF Smaller

LEMMA AnswerKeeps ==
  ASSUME TypeOK, Transit,
         NEW n \in ChunkSizes, NEW end \in BOOLEAN, AnswerStream(n, end)
  PROVE  /\ phase = "open" /\ tx.pc = "ask" /\ phase' = phase
         /\ tx' \in Sender /\ tx'.pc \in {"fill", "ask", "copy"} /\ Asking'
         /\ hist' \in Histories /\ hist'.aborting = hist.aborting
         /\ hist'.readFailed = hist.readFailed /\ hist'.overfed = hist.overfed
<1> DEFINE new == Numbers(hist.given, n)
           t   == [tx EXCEPT !.s_buf = TRUE, !.s_data = new, !.s_stop = @ \/ end]
<1>1. /\ phase = "open" /\ tx.pc = "ask" /\ phase' = phase
      /\ tx' = IF t.s_stop THEN EndStream(t) ELSE [t EXCEPT !.pc = "copy"]
      /\ hist' = [hist EXCEPT !.given = @ + n, !.chunks = Smaller(@ + 1, MaxChunks)]
  BY DEF AnswerStream
<1>2. /\ tx \in Sender /\ hist \in Histories /\ hist.given \in Nat
      /\ hist.chunks \in Nat /\ n \in Nat
      /\ tx.headerq # <<>> /\ tx.headerq[1].kind = "STREAM"
  BY <1>1, SizesAreNat, BoundsAreNat DEF TypeOK, Histories, Transit, Asking
<1>3. new \in Seq(Nat)
  BY <1>2, NumbersIs
<1> HIDE DEF new
<1>4. t \in Sender /\ t.headerq = tx.headerq
  BY <1>2, <1>3 DEF Sender
<1> HIDE DEF t
<1>5. EndStream(t) \in Sender /\ EndStream(t).pc = "fill"
  BY <1>2, <1>4, EndStreamStays
<1>6. /\ [t EXCEPT !.pc = "copy"] \in Sender
      /\ [t EXCEPT !.pc = "copy"].pc = "copy"
      /\ [t EXCEPT !.pc = "copy"].headerq = t.headerq
  BY <1>4 DEF Sender
<1>7. /\ hist' \in Histories /\ hist'.aborting = hist.aborting
      /\ hist'.readFailed = hist.readFailed /\ hist'.overfed = hist.overfed
  <2>1. Smaller(hist.chunks + 1, MaxChunks) \in 0..MaxChunks /\ hist.given + n \in Nat
    BY <1>2, BoundsAreNat DEF Smaller
  <2>2. QED
    BY <1>1, <1>2, <2>1 DEF Histories
<1>8. QED
  BY <1>1, <1>2, <1>4, <1>5, <1>6, <1>7 DEF Asking

(* A sequence of numbers cut in two.                                       *)
LEMMA Halves ==
  ASSUME NEW d \in Seq(Nat), NEW n \in Nat, n <= Len(d)
  PROVE  LET f == SubSeq(d, 1, n)
             r == SubSeq(d, n + 1, Len(d))
         IN  /\ f \in Seq(Nat) /\ r \in Seq(Nat)
             /\ Len(f) = n /\ Len(r) = Len(d) - n
             /\ \A i \in 1..Len(f) : f[i] = d[i]
             /\ \A i \in 1..Len(r) : r[i] = d[n + i]
<1>1. Len(d) \in Nat /\ \A i \in 1..Len(d) : d[i] \in Nat
  BY LenProperties
<1>2. /\ SubSeq(d, 1, n) \in Seq(Nat) /\ Len(SubSeq(d, 1, n)) = n
      /\ \A i \in 1..n : SubSeq(d, 1, n)[i] = d[i]
  <2>1. \A i \in 1..n : d[i] \in Nat
    BY <1>1
  <2>2. 1 \in Int /\ n \in Int
    OBVIOUS
  <2>3. QED
    BY <2>1, <2>2, SubSeqProperties, SMTT(20)
<1>3. /\ SubSeq(d, n + 1, Len(d)) \in Seq(Nat)
      /\ Len(SubSeq(d, n + 1, Len(d))) = Len(d) - n
      /\ \A i \in 1..Len(d) - n : SubSeq(d, n + 1, Len(d))[i] = d[n + i]
  <2>1. \A i \in n + 1..Len(d) : d[i] \in Nat
    BY <1>1
  <2>2. n + 1 \in Int /\ Len(d) \in Int
    BY <1>1
  <2>3. QED
    BY <1>1, <2>1, <2>2, SubSeqProperties, SMTT(20)
<1>4. QED
  BY <1>2, <1>3

LEMMA CopiedIs ==
  ASSUME NEW t \in Sender
  PROVE  LET s == Copied(t)
         IN  \E f, r \in Seq(Nat) :
               /\ Len(f) <= t.room /\ Len(f) + Len(r) = Len(t.s_data)
               /\ \A i \in 1..Len(f) : f[i] = t.s_data[i]
               /\ \A i \in 1..Len(r) : r[i] = t.s_data[Len(f) + i]
               /\ s \in Sender /\ s.frag = t.frag \o f /\ s.s_data = r
               /\ s.room <= t.room - Len(f)
               /\ s.room > 0 => r = <<>>
               /\ s.headerq = t.headerq /\ s.left = t.left /\ s.items = t.items
               /\ s.size = t.size /\ s.suspend = t.suspend
               /\ s.addmore = t.addmore /\ s.totallen = t.totallen
               /\ s.s_stop = t.s_stop /\ s.pc = t.pc /\ s.nonhdr = t.nonhdr
<1> DEFINE d == t.s_data
           n == Smaller(t.room, Len(d))
           f == SubSeq(d, 1, n)
           r == SubSeq(d, n + 1, Len(d))
           room == IF n = Len(d) /\ t.suspend THEN 0 ELSE t.room - n
           frag == t.frag \o f
<1>1. d \in Seq(Nat) /\ Len(d) \in Nat /\ t.room \in Nat /\ t.frag \in Seq(Nat)
  BY LenProperties DEF Sender
<1>2. n \in Nat /\ n <= Len(d) /\ n <= t.room /\ (n = Len(d) \/ n = t.room)
  BY <1>1, SmallerIs
<1> HIDE DEF d
<1>3. /\ f \in Seq(Nat) /\ r \in Seq(Nat)
      /\ Len(f) = n /\ Len(r) = Len(d) - n
      /\ \A i \in 1..Len(f) : f[i] = d[i]
      /\ \A i \in 1..Len(r) : r[i] = d[n + i]
  <2> HIDE DEF n
  <2>1. QED
    BY <1>1, <1>2, Halves
<1>4. Copied(t) = [t EXCEPT !.frag = frag, !.s_data = r, !.room = room]
  BY DEF Copied, d
<1> HIDE DEF n
<1>5. room \in Nat /\ room <= t.room - n /\ room > 0 => n = Len(d)
  BY <1>1, <1>2
<1>6. room <= t.room - n /\ room \in Nat
  BY <1>1, <1>2
<1> HIDE DEF f, r
<1>7. frag \in Seq(Nat)
  BY <1>1, <1>3, ConcatProperties
<1> HIDE DEF room, frag
<1>8. Copied(t) \in Sender
  BY <1>3, <1>4, <1>6, <1>7 DEF Sender
<1>9. /\ Copied(t).frag = frag /\ Copied(t).s_data = r /\ Copied(t).room = room
      /\ Copied(t).headerq = t.headerq /\ Copied(t).left = t.left
      /\ Copied(t).items = t.items
      /\ Copied(t).size = t.size /\ Copied(t).suspend = t.suspend
      /\ Copied(t).addmore = t.addmore /\ Copied(t).totallen = t.totallen
      /\ Copied(t).s_stop = t.s_stop /\ Copied(t).pc = t.pc
      /\ Copied(t).nonhdr = t.nonhdr
  BY <1>4 DEF Sender
<1>10. room > 0 => r = <<>>
  BY <1>1, <1>2, <1>3, <1>5, <1>6, EmptySeq
<1>11. Len(f) <= t.room /\ Len(f) + Len(r) = Len(d)
  BY <1>1, <1>2, <1>3
<1>12. QED
  BY <1>3, <1>6, <1>8, <1>9, <1>10, <1>11 DEF d, frag

LEMMA NothingKeeps ==
  ASSUME TypeOK, Transit, NEW suspend \in BOOLEAN, AnswerStreamNothing(suspend)
  PROVE  /\ phase = "open" /\ tx.pc = "ask" /\ phase' \in {"open", "failed"}
         /\ tx' \in Sender /\ tx'.pc \in {"fill", "ask", "copy"} /\ Asking'
         /\ hist' \in Histories /\ hist'.aborting = hist.aborting
         /\ hist'.readFailed = hist.readFailed /\ hist'.overfed = hist.overfed
<1> DEFINE t == [tx EXCEPT !.s_buf = FALSE, !.suspend = @ \/ suspend]
<1>1. /\ phase = "open" /\ tx.pc = "ask" /\ hist.faults < MaxFaults
      /\ hist' = [hist EXCEPT !.faults = @ + 1]
      /\ \/ tx' = EndStream(t) /\ phase' = phase
         \/ phase' = "failed" /\ tx' = tx
  BY DEF AnswerStreamNothing
<1>2. /\ tx \in Sender /\ hist \in Histories /\ hist.faults \in Nat
      /\ tx.headerq # <<>> /\ tx.headerq[1].kind = "STREAM"
  BY <1>1, BoundsAreNat DEF TypeOK, Histories, Transit, Asking
<1>3. t \in Sender /\ t.headerq = tx.headerq
  BY <1>2 DEF Sender
<1> HIDE DEF t
<1>4. EndStream(t) \in Sender /\ EndStream(t).pc = "fill"
  BY <1>2, <1>3, EndStreamStays
<1>5. /\ hist' \in Histories /\ hist'.aborting = hist.aborting
      /\ hist'.readFailed = hist.readFailed /\ hist'.overfed = hist.overfed
  <2>1. hist.faults + 1 \in 0..MaxFaults
    BY <1>1, <1>2, BoundsAreNat
  <2>2. QED
    BY <1>1, <1>2, <2>1 DEF Histories
<1>6. QED
  BY <1>1, <1>2, <1>4, <1>5 DEF Asking

LEMMA CopyKeeps ==
  ASSUME TypeOK, Transit, CopyStream
  PROVE  /\ phase = "open" /\ tx.pc = "copy" /\ phase' = phase /\ hist' = hist
         /\ tx' \in Sender /\ tx'.pc \in {"fill", "ask", "copy"} /\ Asking'
<1> DEFINE t == Copied(tx)
<1>1. /\ phase = "open" /\ tx.pc = "copy" /\ phase' = phase /\ hist' = hist
      /\ tx' = IF t.room > 0 THEN [t EXCEPT !.pc = "ask"] ELSE EndStream(t)
  BY DEF CopyStream
<1>2. tx \in Sender /\ tx.headerq # <<>> /\ tx.headerq[1].kind = "STREAM"
  BY <1>1 DEF TypeOK, Transit, Asking
<1>3. t \in Sender /\ t.headerq = tx.headerq
  BY <1>2, CopiedIs
<1> HIDE DEF t
<1>4. EndStream(t) \in Sender /\ EndStream(t).pc = "fill"
  BY <1>2, <1>3, EndStreamStays
<1>5. /\ [t EXCEPT !.pc = "ask"] \in Sender /\ [t EXCEPT !.pc = "ask"].pc = "ask"
      /\ [t EXCEPT !.pc = "ask"].headerq = t.headerq
  BY <1>3 DEF Sender
<1>6. QED
  BY <1>1, <1>2, <1>3, <1>4, <1>5 DEF Asking

LEMMA WorksKeeps ==
  ASSUME TypeOK, Transit, Works
  PROVE  /\ phase = "open" /\ tx.pc \in {"fill", "ask", "copy"}
         /\ env' = env /\ link' = link /\ rx' = rx
         /\ tx' \in Sender /\ tx'.pc \in {"fill", "ask", "copy"} /\ Asking'
         /\ hist' \in Histories /\ hist'.aborting = hist.aborting
         /\ hist'.readFailed = hist.readFailed /\ hist'.overfed = hist.overfed
         /\ phase' \in {"open", "failed", "overrun"}
<1>1. hist \in Histories
  BY DEF TypeOK, Histories
<1>2. CASE FillHeader
  BY <1>2, FillIs, FillKeeps
<1>3. ASSUME NEW n \in ChunkSizes, NEW end \in BOOLEAN, AnswerStream(n, end)
      PROVE  env' = env /\ link' = link /\ rx' = rx
  BY <1>3 DEF AnswerStream
<1>4. ASSUME NEW suspend \in BOOLEAN, AnswerStreamNothing(suspend)
      PROVE  env' = env /\ link' = link /\ rx' = rx
  BY <1>4 DEF AnswerStreamNothing
<1>5. CASE CopyStream
  <2>1. env' = env /\ link' = link /\ rx' = rx
    BY <1>5 DEF CopyStream
  <2>2. QED
    BY <1>1, <1>5, <2>1, CopyKeeps
<1>6. CASE \E n \in ChunkSizes, end \in BOOLEAN : AnswerStream(n, end)
  BY <1>3, <1>6, AnswerKeeps
<1>7. CASE \E suspend \in BOOLEAN : AnswerStreamNothing(suspend)
  BY <1>4, <1>7, NothingKeeps
<1>8. QED
  BY <1>2, <1>5, <1>6, <1>7 DEF Works

(* OBEX_ObjectAddHeader puts h at the end of the queue.                    *)
Adds(h, fit) ==
  /\ h \in Element /\ h.no = Len(hist.added) + 1
  /\ h.kind = "BODY" => h.data = Numbers(0, Len(h.data))
  /\ h.kind # "BODY" => h.data = <<>>
  /\ \E n \in Nat : /\ h.length = HeaderSize(h.kind, n)
                    /\ h.kind = "BODY" => n = Len(h.data)
  /\ h.kind \in {"BODY", "STREAM"} =>
       \A i \in 1..Len(hist.added) : hist.added[i].kind \notin {"BODY", "STREAM"}
  /\ Accepts(tx, h.kind, h.length, fit)
  /\ phase = "open" /\ tx.pc = "add"
  /\ UNCHANGED <<env, link, rx, phase>>
  /\ tx' = [tx EXCEPT !.headerq = Append(tx.headerq, h),
                      !.totallen = tx.totallen + h.length]
  /\ tx' \in Sender
  /\ hist' \in Histories
  /\ hist'.added = Append(hist.added, h)
  /\ hist'.fits => hist.fits /\ fit /\ h.kind \notin {"STREAM", "EMPTY"}
  /\ hist'.given = hist.given + Len(h.data)
  /\ hist'.short = hist.short /\ hist'.aborting = hist.aborting
  /\ hist'.readFailed = hist.readFailed /\ hist'.overfed = hist.overfed
  /\ hist'.dropped = hist.dropped /\ hist'.streamed = hist.streamed
  /\ hist'.eos = hist.eos

LEMMA AddIs ==
  ASSUME TypeOK, AddHeaders
  PROVE  \E h \in Element, fit \in BOOLEAN : Adds(h, fit)
<1>1. PICK kind \in Kinds, fit \in BOOLEAN, suspend \in BOOLEAN :
        \E n \in CASE kind = "BODY" -> BodySizes
                   [] kind = "SEQ" -> NameSizes
                   [] OTHER -> {0} :
          AddHeader(kind, n, fit, suspend)
  BY DEF AddHeaders
<1>2. PICK n \in Nat : AddHeader(kind, n, fit, suspend)
  BY <1>1, SizesAreNat
<1> DEFINE size == HeaderSize(kind, n)
           data == IF kind = "BODY" THEN Numbers(0, n) ELSE <<>>
           h == [no |-> Len(hist.added) + 1, kind |-> kind, length |-> size,
                 suspend |-> suspend, data |-> data]
<1>3. /\ phase = "open" /\ tx.pc = "add" /\ UNCHANGED <<env, link, rx, phase>>
      /\ kind \in {"BODY", "STREAM"} =>
           \A i \in 1..Len(hist.added) + 1 - 1 :
             hist.added[i].kind \notin {"BODY", "STREAM"}
      /\ suspend => hist.faults < MaxFaults
      /\ Accepts(tx, kind, size, fit)
      /\ tx' = [tx EXCEPT !.headerq = Append(@, h), !.totallen = @ + size]
      /\ hist' = [hist EXCEPT !.added = Append(@, h),
                              !.fits = @ /\ fit /\ kind \notin {"STREAM", "EMPTY"},
                              !.faults = IF suspend THEN @ + 1 ELSE @,
                              !.given = @ + Len(h.data)]
  BY <1>2 DEF AddHeader
<1>4. tx \in Sender /\ hist \in Histories
  BY DEF TypeOK, Histories
<1>5. size \in Nat
  BY Sizes DEF HeaderSize, Kinds, UINTHDR, BYTEHDR
<1>6. data \in Seq(Nat) /\ Len(data) \in Nat
  <2>1. 0 \in Nat /\ Numbers(0, n) \in Seq(Nat)
    BY NumbersIs
  <2>2. data \in Seq(Nat)
    BY <2>1, EmptySeq
  <2> HIDE DEF data
  <2>3. QED
    BY <2>2, LenProperties
<1>7. /\ kind = "BODY" => data = Numbers(0, Len(data)) /\ n = Len(data)
      /\ kind # "BODY" => data = <<>>
  <2>1. 0 \in Nat /\ Len(Numbers(0, n)) = n
    BY NumbersIs
  <2>2. QED
    BY <2>1
<1>8. Len(hist.added) \in Nat /\ hist.added \in Seq(Element)
  BY <1>4, LenProperties DEF Histories
<1> HIDE DEF size, data
<1>9. /\ h \in Element /\ h.no = Len(hist.added) + 1 /\ h.kind = kind
      /\ h.length = size /\ h.suspend = suspend /\ h.data = data
  BY <1>5, <1>6, <1>8 DEF Element
<1> HIDE DEF h
<1> DEFINE q == Append(tx.headerq, h)
           total == tx.totallen + size
           added == Append(hist.added, h)
           given == hist.given + Len(data)
           faults == IF suspend THEN hist.faults + 1 ELSE hist.faults
           fits == hist.fits /\ fit /\ kind \notin {"STREAM", "EMPTY"}
<1>10. tx' \in Sender
  <2>1. tx.headerq \in Seq(Element) /\ tx.totallen \in Nat
    BY <1>4 DEF Sender
  <2>2. q \in Seq(Element) /\ total \in Nat
    BY <1>5, <1>9, <2>1, AppendProperties
  <2>3. tx' = [tx EXCEPT !.headerq = q, !.totallen = total]
    BY <1>3
  <2> HIDE DEF q, total
  <2>4. QED
    BY <1>4, <2>2, <2>3 DEF Sender
<1>11. /\ hist' = [hist EXCEPT !.added = added, !.fits = fits,
                               !.faults = faults, !.given = given]
  BY <1>3, <1>9
<1>12. /\ added \in Seq(Element) /\ given \in Nat /\ fits \in BOOLEAN
       /\ faults \in 0..MaxFaults
  <2>1. hist.given \in Nat /\ hist.faults \in 0..MaxFaults /\ hist.fits \in BOOLEAN
    BY <1>4 DEF Histories
  <2>2. added \in Seq(Element)
    BY <1>8, <1>9, AppendProperties
  <2>3. given \in Nat
    BY <1>6, <2>1
  <2>4. faults \in 0..MaxFaults
    BY <1>3, <2>1, BoundsAreNat
  <2>5. fits \in BOOLEAN
    OBVIOUS
  <2>6. QED
    BY <2>2, <2>3, <2>4, <2>5
<1>13. PICK b \in BOOLEAN : b = fits
  BY <1>12
<1>14. b => hist.fits /\ fit /\ kind \notin {"STREAM", "EMPTY"}
  BY <1>13
<1> HIDE DEF added, given, fits, faults
<1>15. hist' = [hist EXCEPT !.added = added, !.fits = b,
                            !.faults = faults, !.given = given]
  BY <1>11, <1>13
<1>16. /\ hist' \in Histories
       /\ hist'.added = added /\ hist'.fits = b
       /\ hist'.given = given
       /\ hist'.short = hist.short /\ hist'.aborting = hist.aborting
       /\ hist'.readFailed = hist.readFailed /\ hist'.overfed = hist.overfed
       /\ hist'.dropped = hist.dropped /\ hist'.streamed = hist.streamed
       /\ hist'.eos = hist.eos
  BY <1>4, <1>12, <1>15 DEF Histories
<1>17. kind \in {"BODY", "STREAM"} =>
         \A i \in 1..Len(hist.added) : hist.added[i].kind \notin {"BODY", "STREAM"}
  BY <1>3, <1>8
<1>18. tx' = [tx EXCEPT !.headerq = Append(tx.headerq, h),
                        !.totallen = tx.totallen + h.length]
  BY <1>3, <1>9
<1>19. Adds(h, fit)
  BY <1>3, <1>7, <1>9, <1>10, <1>14, <1>16, <1>17, <1>18 DEF Adds, added, given, size
<1>20. QED
  BY <1>9, <1>19

(***************************************************************************)
(* Each step keeps types, places and frames.                               *)
(***************************************************************************)
Links == [pkts : Seq(Packet), written : Nat, taken : Nat]
Receivers ==
  [pc : {"read", "parse"}, size : Nat, todo : Seq(Item),
   headerq : Seq([no : Nat, data : Seq(Nat)]),
   rm : Seq([no : Nat, data : Seq(Nat)]),
   body : Seq(Nat), abort : BOOLEAN]

Carried == TypeOK /\ Transit /\ Framed

LEMMA Typed ==
  TypeOK <=> /\ env \in [trans : Transports, streams : BOOLEAN, nonhdr : NonHeaderSizes]
             /\ tx \in Sender /\ link \in Links /\ rx \in Receivers
             /\ hist \in Histories /\ phase \in Ends \cup {"open"}
BY DEF TypeOK, Links, Receivers, Histories

LEMMA AddCarries == Carried /\ AddHeaders => Carried'
<1> SUFFICES ASSUME Carried, AddHeaders PROVE Carried'
  OBVIOUS
<1>1. PICK h \in Element, fit \in BOOLEAN : Adds(h, fit)
  BY AddIs DEF Carried
<1>2. /\ phase = "open" /\ phase' = phase /\ tx.pc = "add"
      /\ UNCHANGED <<env, link, rx>> /\ tx' \in Sender /\ hist' \in Histories
      /\ hist'.aborting = hist.aborting /\ hist'.readFailed = hist.readFailed
      /\ hist'.overfed = hist.overfed
  BY <1>1 DEF Adds
<1>3. tx'.pc = "add"
  BY <1>1 DEF Adds, Sender, Carried, TypeOK
<1>4. TypeOK'
  BY <1>2, Typed DEF Carried, TypeOK, Histories
<1>5. Transit'
  BY <1>2, <1>3 DEF Carried, Transit, OnLink, AtReceiver, Asking, AtPacket, Made
<1>6. Framed'
  BY <1>2 DEF Carried, Framed, AtPacket
<1>7. QED
  BY <1>4, <1>5, <1>6 DEF Carried

LEMMA WorksCarries == Carried /\ Works => Carried'
<1> SUFFICES ASSUME Carried, Works PROVE Carried'
  OBVIOUS
<1>1. /\ phase = "open" /\ tx.pc \in {"fill", "ask", "copy"}
      /\ env' = env /\ link' = link /\ rx' = rx
      /\ tx' \in Sender /\ tx'.pc \in {"fill", "ask", "copy"} /\ Asking'
      /\ hist' \in Histories /\ hist'.aborting = hist.aborting
      /\ hist'.readFailed = hist.readFailed /\ hist'.overfed = hist.overfed
      /\ phase' \in {"open", "failed", "overrun"}
  BY WorksKeeps DEF Carried
<1>2. TypeOK'
  BY <1>1 DEF Carried, TypeOK, Histories, Ends
<1>3. Transit'
  BY <1>1 DEF Carried, Transit, OnLink, AtReceiver, AtPacket
<1>4. Framed'
  BY <1>1 DEF Carried, Framed, AtPacket
<1>5. QED
  BY <1>2, <1>3, <1>4 DEF Carried

LEMMA SendCarries == Carried /\ Send => Carried'
<1> SUFFICES ASSUME Carried, Send PROVE Carried'
  OBVIOUS
<1>1. /\ phase = "open" /\ tx.pc \in {"add", "turn"} /\ tx' = Begin(tx)
      /\ UNCHANGED <<env, link, rx, hist, phase>>
  BY DEF Send
<1>2. RoomInPacket \in Nat /\ tx \in Sender
  BY Room DEF Carried, TypeOK
<1>3. tx' \in Sender /\ tx'.pc = "fill"
  <2>1. tx.nonhdr \in Nat
    BY <1>2 DEF Sender
  <2> HIDE DEF RoomInPacket
  <2>2. QED
    BY <1>1, <1>2, <2>1, EmptySeq DEF Begin, Sender
<1>4. TypeOK'
  BY <1>1, <1>3 DEF Carried, TypeOK
<1>5. Transit'
  BY <1>1, <1>3 DEF Carried, Transit, OnLink, AtReceiver, Asking, AtPacket
<1>6. Framed'
  BY <1>1 DEF Carried, Framed, AtPacket
<1>7. QED
  BY <1>4, <1>5, <1>6 DEF Carried

(* The packet that FinishPacket puts on the link.                          *)
Finished ==
  [op |-> IF tx.headerq = <<>> THEN "LAST" ELSE "NEXT",
   size |-> 3 + tx.size, items |-> tx.items]

LEMMA FinishIs ==
  ASSUME Carried, FinishPacket
  PROVE  /\ phase = "open" /\ phase' = phase /\ tx.pc = "fill"
         /\ ~tx.addmore \/ tx.headerq = <<>>
         /\ UNCHANGED <<env, rx, hist>>
         /\ tx' \in Sender /\ tx'.pc = "write" /\ tx'.headerq = tx.headerq
         /\ tx'.items = tx.items /\ tx'.size = 3 + tx.size
         /\ tx'.unsent = tx'.size /\ tx'.suspend = tx.suspend
         /\ tx'.s_data = tx.s_data /\ tx'.nonhdr = tx.nonhdr
         /\ Finished \in Packet
         /\ link.pkts = <<>> /\ link' \in Links /\ link'.pkts = <<Finished>>
         /\ link'.written = link.written /\ link'.taken = link.taken
         /\ link'.pkts[1] = Finished
<1>1. /\ phase = "open" /\ phase' = phase /\ tx.pc = "fill"
      /\ ~tx.addmore \/ tx.headerq = <<>>
      /\ UNCHANGED <<env, rx, hist>>
      /\ tx' = [tx EXCEPT !.pc = "write", !.size = 3 + tx.size, !.unsent = 3 + tx.size]
      /\ link' = [link EXCEPT !.pkts = Append(@, Finished)]
  BY Sizes DEF FinishPacket, Finished
<1>2. /\ tx \in Sender /\ link \in Links /\ link.pkts = <<>>
  BY <1>1, Typed DEF Carried, Transit, OnLink
<1>3. tx.size \in Nat /\ tx.items \in Seq(Item)
  BY <1>2 DEF Sender
<1>4. Finished \in Packet
  BY <1>3 DEF Finished, Packet
<1> HIDE DEF Finished
<1>5. link' = [link EXCEPT !.pkts = <<Finished>>]
  BY <1>1, <1>2
<1>6. <<Finished>> \in Seq(Packet) /\ <<Finished>>[1] = Finished
  BY <1>4
<1>7. /\ link' \in Links /\ link'.pkts = <<Finished>> /\ link'.pkts[1] = Finished
      /\ link'.written = link.written /\ link'.taken = link.taken
  BY <1>2, <1>5, <1>6 DEF Links
<1>8. 3 + tx.size \in Nat
  BY <1>3
<1>9. /\ tx' \in Sender /\ tx'.pc = "write" /\ tx'.headerq = tx.headerq
      /\ tx'.items = tx.items /\ tx'.size = 3 + tx.size
      /\ tx'.unsent = tx'.size /\ tx'.suspend = tx.suspend
      /\ tx'.s_data = tx.s_data /\ tx'.nonhdr = tx.nonhdr
  BY <1>1, <1>2, <1>8 DEF Sender
<1>10. QED
  BY <1>1, <1>2, <1>4, <1>7, <1>9

LEMMA FinishCarries == Carried /\ FinishPacket => Carried'
<1> SUFFICES ASSUME Carried, FinishPacket PROVE Carried'
  OBVIOUS
<1>1. /\ Finished.size = 3 + tx.size /\ Finished.items = tx.items
      /\ Finished.op # "ABORT" /\ (Finished.op = "LAST" <=> tx.headerq = <<>>)
  BY DEF Finished
<1>2. tx.size \in Nat
  BY DEF Carried, TypeOK, Sender
<1> HIDE DEF Finished
<1>3. TypeOK'
  BY FinishIs DEF Carried, TypeOK, Links
<1>4. link.written = 0 /\ ~hist.aborting /\ link.pkts = <<>>
  BY FinishIs DEF Carried, Transit, OnLink
<1>5. Made' /\ Len(link'.pkts) = 1
  <2>1. link'.pkts # <<>> /\ Len(link'.pkts) = 1
    <3>1. link'.pkts = <<Finished>>
      BY FinishIs
    <3>2. QED
      BY <3>1
  <2>2. link'.pkts[1] = Finished /\ tx'.size = 3 + tx.size /\ tx'.items = tx.items
        /\ tx'.headerq = tx.headerq
    BY FinishIs
  <2>3. tx'.size >= COMMON
    BY <1>2, <2>2, Sizes
  <2>4. QED
    BY <1>1, <2>1, <2>2, <2>3 DEF Made
<1>6. OnLink'
  BY <1>2, <1>4, <1>5, FinishIs DEF OnLink
<1>7. AtReceiver'
  BY <1>1, <1>2, <1>4, FinishIs DEF AtReceiver, AtPacket, Carried, Transit
<1>8. Asking'
  BY FinishIs DEF Asking
<1>9. Framed'
  BY FinishIs DEF Carried, Framed, AtPacket
<1>10. QED
  BY <1>3, <1>6, <1>7, <1>8, <1>9 DEF Carried, Transit

LEMMA WriteCarries == Carried /\ Write => Carried'
<1> SUFFICES ASSUME Carried, Write PROVE Carried'
  OBVIOUS
<1>1. PICK n \in IF env.trans \in {"USB", "CUSTOM"} THEN {tx.unsent}
                 ELSE 1..Smaller(LinkMtu, tx.unsent) :
        /\ tx' = [tx EXCEPT !.unsent = @ - n,
                            !.pc = IF n = tx.unsent THEN "wait" ELSE @]
        /\ link' = [link EXCEPT !.written = @ + n]
  BY DEF Write
<1>2. /\ phase = "open" /\ tx.pc = "write" /\ UNCHANGED <<env, rx, hist, phase>>
      /\ tx \in Sender /\ link \in Links
  BY Typed DEF Write, Carried
<1>3. tx.unsent \in Nat /\ tx.unsent > 0 /\ tx.size \in Nat /\ link.written \in Nat
      /\ link.taken \in Nat
  BY <1>2 DEF Sender, Links, Carried, Transit, OnLink
<1>4. n \in Nat /\ n <= tx.unsent
        /\ (env.trans \in {"USB", "CUSTOM"} => n = tx.unsent)
  <2>1. CASE env.trans \in {"USB", "CUSTOM"}
    BY <1>1, <1>3, <2>1
  <2>2. CASE env.trans \notin {"USB", "CUSTOM"}
    BY <1>1, <1>3, <2>2, Mtu, SmallerIs
  <2>3. QED
    BY <2>1, <2>2
<1> DEFINE unsent == tx.unsent - n
           pc == IF n = tx.unsent THEN "wait" ELSE "write"
           written == link.written + n
<1>5. unsent \in Nat /\ written \in Nat
  BY <1>3, <1>4
<1>6. /\ tx' = [tx EXCEPT !.unsent = unsent, !.pc = pc]
      /\ link' = [link EXCEPT !.written = written]
  BY <1>1, <1>2
<1>7. pc \in {"wait", "write"} /\ (pc = "wait" <=> unsent = 0)
  BY <1>3, <1>4
<1>8. unsent = tx.unsent - n /\ written = link.written + n
  OBVIOUS
<1> HIDE DEF unsent, pc, written
<1>9. /\ tx' \in Sender /\ tx'.pc = pc /\ tx'.unsent = unsent /\ tx'.size = tx.size
      /\ tx'.items = tx.items /\ tx'.headerq = tx.headerq
  BY <1>2, <1>5, <1>6, <1>7 DEF Sender
<1>10. /\ link' \in Links /\ link'.pkts = link.pkts /\ link'.written = written
       /\ link'.taken = link.taken
  BY <1>2, <1>5, <1>6 DEF Links
<1>11. TypeOK'
  BY <1>2, <1>9, <1>10 DEF Carried, TypeOK, Links
<1>12. /\ Made /\ Len(link.pkts) = 1 /\ ~hist.aborting
       /\ link.written + tx.unsent = tx.size
       /\ env.trans \in {"USB", "CUSTOM"} => tx.unsent = tx.size
  BY <1>2 DEF Carried, Transit, OnLink
<1>13. Made'
  BY <1>9, <1>10, <1>12 DEF Made
<1>14. written + unsent = tx.size
  BY <1>3, <1>4, <1>8, <1>12
<1>15. OnLink'
  <2>1. CASE unsent = 0
    BY <1>2, <1>3, <1>5, <1>7, <1>9, <1>10, <1>12, <1>13, <1>14, <2>1 DEF OnLink
  <2>2. CASE unsent # 0
    <3>1. env.trans \notin {"USB", "CUSTOM"}
      BY <1>3, <1>4, <1>8, <2>2
    <3>2. unsent > 0
      BY <1>5, <2>2
    <3>3. QED
      BY <1>2, <1>7, <1>9, <1>10, <1>12, <1>13, <1>14, <2>2, <3>1, <3>2 DEF OnLink
  <2>3. QED
    BY <2>1, <2>2
<1>16. AtReceiver'
  <2>1. link.taken <= written
    BY <1>2, <1>3, <1>4, <1>8 DEF Carried, Transit, AtReceiver
  <2>2. QED
    BY <1>2, <1>10, <2>1 DEF Carried, Transit, AtReceiver, AtPacket
<1>17. Asking'
  BY <1>7, <1>9 DEF Asking
<1>18. Framed'
  BY <1>2, <1>10 DEF Carried, Framed, AtPacket
<1>19. QED
  BY <1>11, <1>15, <1>16, <1>17, <1>18 DEF Carried, Transit

LEMMA FailCarries == Carried /\ (WriteFails \/ GiveUp) => Carried'
<1> SUFFICES ASSUME Carried, WriteFails \/ GiveUp PROVE Carried'
  OBVIOUS
<1>1. /\ phase' = "failed" /\ UNCHANGED <<env, tx, link, rx>>
      /\ hist.readFailed = hist'.readFailed /\ hist.overfed = hist'.overfed
      /\ hist' \in Histories
  <2>1. hist \in Histories /\ hist.faults \in 0..MaxFaults
    BY Typed DEF Carried, Histories
  <2>2. CASE WriteFails
    <3>1. hist.faults + 1 \in 0..MaxFaults
      BY <2>1, <2>2, BoundsAreNat DEF WriteFails
    <3>2. QED
      BY <2>1, <2>2, <3>1 DEF WriteFails, Histories
  <2>3. CASE GiveUp
    BY <2>1, <2>3 DEF GiveUp
  <2>4. QED
    BY <2>2, <2>3
<1>2. TypeOK'
  BY <1>1 DEF Carried, TypeOK, Histories, Ends
<1>3. QED
  BY <1>1, <1>2 DEF Carried, Transit, Framed, AtPacket

LEMMA ResumeCarries == Carried /\ Resume => Carried'
<1> SUFFICES ASSUME Carried, Resume PROVE Carried'
  OBVIOUS
<1>1. /\ phase = "open" /\ tx.pc \in {"turn", "wait"} /\ tx \in Sender
      /\ tx' = [tx EXCEPT !.suspend = FALSE]
      /\ UNCHANGED <<env, link, rx, hist, phase>>
  BY DEF Resume, Carried, TypeOK
<1>2. /\ tx' \in Sender /\ tx'.pc = tx.pc /\ tx'.size = tx.size
      /\ tx'.items = tx.items /\ tx'.headerq = tx.headerq
  BY <1>1 DEF Sender
<1>3. TypeOK'
  BY <1>1, <1>2 DEF Carried, TypeOK
<1>4. Transit'
  BY <1>1, <1>2 DEF Carried, Transit, OnLink, Made, AtReceiver, AtPacket, Asking
<1>5. QED
  BY <1>1, <1>3, <1>4 DEF Carried, Framed, AtPacket

LEMMA AbortCarries == Carried /\ SendAbort => Carried'
<1> SUFFICES ASSUME Carried, SendAbort PROVE Carried'
  OBVIOUS
<1>1. /\ phase = "open" /\ tx.pc \in {"turn", "wait"} /\ ~hist.aborting
      /\ hist.faults < MaxFaults
      /\ hist' = [hist EXCEPT !.faults = @ + 1, !.aborting = TRUE]
      /\ tx' = [tx EXCEPT !.pc = "wait"]
      /\ link' = [link EXCEPT !.written = @ + COMMON,
                              !.pkts = Append(@, AbortPacket)]
      /\ UNCHANGED <<env, rx, phase>>
  BY DEF SendAbort, AbortPacket
<1>2. tx \in Sender /\ link \in Links /\ hist \in Histories
  BY Typed DEF Carried
<1>3. AbortPacket \in Packet /\ AbortPacket.size = 3
  BY Sizes, EmptySeq DEF AbortPacket, Packet
<1> HIDE DEF AbortPacket
<1> DEFINE pkts == Append(link.pkts, AbortPacket)
           written == link.written + 3
<1>4. link.pkts \in Seq(Packet) /\ link.written \in Nat /\ link.taken \in Nat
  BY <1>2 DEF Links
<1>5. /\ pkts \in Seq(Packet) /\ pkts # <<>> /\ Len(pkts) = Len(link.pkts) + 1
      /\ \A i \in 1..Len(link.pkts) : pkts[i] = link.pkts[i]
      /\ pkts[Len(link.pkts) + 1] = AbortPacket
      /\ Len(link.pkts) \in Nat
  BY <1>3, <1>4, AppendProperties, LenProperties
<1>6. written \in Nat
  BY <1>4
<1>7. link' = [link EXCEPT !.written = written, !.pkts = pkts]
  BY <1>1, Sizes
<1>8. link.pkts = <<>> => pkts = <<AbortPacket>>
  BY <1>4
<1>9. written = link.written + 3
  OBVIOUS
<1> HIDE DEF pkts, written
<1>10. /\ link' \in Links /\ link'.pkts = pkts /\ link'.written = written
       /\ link'.taken = link.taken
  BY <1>2, <1>5, <1>6, <1>7 DEF Links
<1>11. /\ tx' \in Sender /\ tx'.pc = "wait" /\ tx'.size = tx.size
       /\ tx'.items = tx.items /\ tx'.headerq = tx.headerq
  BY <1>1, <1>2 DEF Sender
<1>12. /\ hist' \in Histories /\ hist'.aborting
       /\ hist'.readFailed = hist.readFailed /\ hist'.overfed = hist.overfed
  <2>1. hist.faults + 1 \in 0..MaxFaults
    BY <1>1, <1>2, BoundsAreNat DEF Histories
  <2>2. QED
    BY <1>1, <1>2, <2>1 DEF Histories
<1>13. TypeOK'
  BY <1>1, <1>10, <1>11, <1>12, Typed DEF Carried, TypeOK, Links, Histories
<1>14. OnLink'
  <2>1. CASE tx.pc = "turn"
    <3>1. link.pkts = <<>> /\ link.written = 0
      BY <1>1, <2>1 DEF Carried, Transit, OnLink
    <3>2. QED
      BY <1>8, <1>9, <1>10, <1>11, <1>12, <3>1, Sizes DEF OnLink
  <2>2. CASE tx.pc = "wait"
    <3>1. Made /\ Len(link.pkts) = 1 /\ link.written = tx.size
      BY <1>1, <2>2 DEF Carried, Transit, OnLink
    <3>2. pkts[1] = link.pkts[1] /\ pkts[2] = AbortPacket /\ Len(pkts) = 2
      BY <1>5, <3>1
    <3>3. Made'
      BY <1>5, <1>10, <1>11, <3>1, <3>2 DEF Made
    <3>4. written = tx.size + COMMON
      BY <1>9, <3>1, Sizes
    <3>5. QED
      BY <1>10, <1>11, <1>12, <3>2, <3>3, <3>4 DEF OnLink
  <2>3. QED
    BY <1>1, <2>1, <2>2
<1>15. AtReceiver'
  <2>1. AtReceiver
    BY <1>1 DEF Carried, Transit
  <2>2. link.taken <= written
    BY <1>4, <1>9, <2>1 DEF AtReceiver
  <2>3. link.pkts # <<>> => pkts[1] = link.pkts[1]
    BY <1>4, <1>5, EmptySeq
  <2>4. link.pkts = <<>> => pkts[1].size = 3
    BY <1>3, <1>5, EmptySeq
  <2>5. QED
    BY <1>1, <1>5, <1>10, <1>12, <2>1, <2>2, <2>3, <2>4 DEF AtReceiver, AtPacket
<1>16. Asking' /\ Framed'
  BY <1>1, <1>10, <1>11, <1>12 DEF Carried, Framed, Asking, AtPacket
<1>17. QED
  BY <1>1, <1>13, <1>14, <1>15, <1>16 DEF Carried, Transit

(* What is on the link while there is something to read.                   *)
LEMMA FirstPacket ==
  ASSUME Carried, phase = "open", link.pkts # <<>>
  PROVE  /\ Head(link.pkts) = link.pkts[1] /\ link.pkts[1] \in Packet
         /\ link.pkts[1].size \in Nat /\ link.pkts[1].size >= 3
         /\ tx.pc \in {"write", "wait"}
<1>1. tx \in Sender /\ link.pkts \in Seq(Packet) /\ OnLink
  BY Typed DEF Carried, Transit, Links
<1>2. Head(link.pkts) = link.pkts[1] /\ link.pkts[1] \in Packet
  BY <1>1, EmptySeq, ElementOfSeq
<1>3. tx.pc \in {"write", "wait"}
  BY <1>1 DEF OnLink, Sender
<1>4. CASE Made
  BY <1>1, <1>2, <1>3, <1>4, Sizes DEF Made, Packet
<1>5. CASE link.pkts = <<AbortPacket>>
  BY <1>2, <1>3, <1>5, Sizes DEF AbortPacket
<1>6. QED
  BY <1>1, <1>3, <1>4, <1>5 DEF OnLink

LEMMA ToRead ==
  ASSUME Carried, Readable
  PROVE  /\ phase = "open" /\ rx.pc = "read" /\ AtPacket
         /\ link.pkts # <<>> /\ rx.size < link.pkts[1].size
         /\ rx.size \in Nat /\ link.taken \in Nat /\ link.written \in Nat
         /\ rx.size = link.taken /\ link.taken < link.written
<1>1. /\ phase = "open" /\ rx.pc = "read" /\ AtPacket /\ link.taken < link.written
      /\ rx.size \in Nat /\ link.taken \in Nat /\ link.written \in Nat
  BY Typed DEF Readable, Carried, Receivers, Links
<1>2. link.pkts # <<>>
  <2>1. CASE link.pkts = <<>>
    <3>1. tx.pc \in {"add", "fill", "ask", "copy", "turn"}
      BY <1>1, <2>1 DEF Carried, Transit, OnLink, Made, TypeOK, Sender
    <3>2. link.written = 0
      BY <1>1, <3>1 DEF Carried, Transit, OnLink
    <3>3. QED
      BY <1>1, <3>2
  <2>2. QED
    BY <2>1
<1>3. QED
  BY <1>1, <1>2 DEF Carried, Transit, AtReceiver, AtPacket

(* n bytes are read and c of them kept, never more than the packet has.    *)
LEMMA TakenCarries ==
  ASSUME Carried, Readable, NEW n \in Nat, NEW c \in Nat, Taken(n, c),
         link.taken + n <= link.written, c <= n,
         rx.size + c <= link.pkts[1].size,
         hist' \in Histories, hist'.aborting = hist.aborting,
         hist'.readFailed = hist.readFailed,
         hist.overfed => hist'.overfed, c # n => hist'.overfed
  PROVE  Carried'
<1> DEFINE size == rx.size + c
           taken == link.taken + n
           whole == size >= COMMON /\ size = Head(link.pkts).size
           todo == IF whole THEN Head(link.pkts).items ELSE <<>>
<1>1. /\ UNCHANGED <<env, tx, phase>>
      /\ link' = [link EXCEPT !.taken = taken]
      /\ rx' = [rx EXCEPT !.size = size, !.pc = IF whole THEN "parse" ELSE "read",
                          !.todo = todo]
  BY DEF Taken
<1>2. /\ phase = "open" /\ rx.pc = "read" /\ AtPacket
      /\ link.pkts # <<>> /\ rx.size < link.pkts[1].size
      /\ rx.size \in Nat /\ link.taken \in Nat /\ link.written \in Nat
      /\ rx.size = link.taken /\ link.taken < link.written
  BY ToRead
<1>3. /\ Head(link.pkts) = link.pkts[1] /\ link.pkts[1].size \in Nat
      /\ link.pkts[1].size >= 3 /\ link.pkts[1].items \in Seq(Item)
  BY <1>2, FirstPacket DEF Packet
<1>4. rx \in Receivers /\ link \in Links
  BY Typed DEF Carried
<1>5. size \in Nat /\ taken \in Nat /\ taken = link.taken + n /\ size = rx.size + c
  BY <1>2
<1>6. whole <=> size = link.pkts[1].size
  BY <1>3, Sizes
<1>7. todo \in Seq(Item) /\ (~whole => todo = <<>>)
  BY <1>3, EmptySeq
<1> HIDE DEF size, taken, whole, todo
<1>8. /\ rx' \in Receivers /\ rx'.size = size /\ rx'.todo = todo
      /\ rx'.pc = IF whole THEN "parse" ELSE "read"
  BY <1>1, <1>4, <1>5, <1>7 DEF Receivers
<1>9. /\ link' \in Links /\ link'.pkts = link.pkts /\ link'.written = link.written
      /\ link'.taken = taken
  BY <1>1, <1>4, <1>5 DEF Links
<1>10. TypeOK'
  BY <1>1, <1>8, <1>9 DEF Carried, TypeOK, Links, Receivers, Histories
<1>11. OnLink'
  BY <1>1, <1>2, <1>9 DEF OnLink, Made, Carried, Transit
<1>12. AtPacket' <=> c = n
  BY <1>2, <1>5, <1>8, <1>9 DEF AtPacket
<1>13. AtReceiver'
  <2>1. taken <= link.written
    BY <1>5
  <2>2. size <= taken
    BY <1>2, <1>5
  <2>3. ~whole => size < link.pkts[1].size
    BY <1>3, <1>5, <1>6
  <2>4. whole => size = link.pkts[1].size
    BY <1>6
  <2>5. AtPacket' \/ hist'.overfed
    BY <1>12
  <2>6. QED
    BY <1>2, <1>7, <1>8, <1>9, <2>1, <2>2, <2>3, <2>4, <2>5 DEF AtReceiver
<1>14. Asking'
  BY <1>1, <1>2 DEF Carried, Transit, Asking
<1>15. Framed'
  BY <1>1, <1>2, <1>12 DEF Framed
<1>16. QED
  BY <1>1, <1>10, <1>11, <1>13, <1>14, <1>15 DEF Carried, Transit

LEMMA ReadCarries == Carried /\ Read => Carried'
<1> SUFFICES ASSUME Carried, Read PROVE Carried'
  OBVIOUS
<1>1. Readable /\ hist' = hist
  BY DEF Read
<1>2. PICK n \in IF env.trans = "USB" THEN {Head(link.pkts).size - rx.size}
                 ELSE 1..Smaller(Need(rx.size), link.written - link.taken) :
        Taken(n, n)
  BY DEF Read
<1>3. /\ phase = "open" /\ rx.pc = "read" /\ AtPacket
      /\ link.pkts # <<>> /\ rx.size < link.pkts[1].size
      /\ rx.size \in Nat /\ link.taken \in Nat /\ link.written \in Nat
      /\ rx.size = link.taken /\ link.taken < link.written
  BY <1>1, ToRead
<1>4. /\ Head(link.pkts) = link.pkts[1] /\ link.pkts[1].size \in Nat
      /\ link.pkts[1].size >= 3 /\ tx.pc \in {"write", "wait"}
  BY <1>3, FirstPacket
<1>5. /\ n \in Nat /\ rx.size + n <= link.pkts[1].size
      /\ link.taken + n <= link.written
  <2>1. CASE env.trans = "USB"
    <3>1. n = link.pkts[1].size - rx.size
      BY <1>2, <1>4, <2>1
    <3>2. link.pkts[1].size <= link.written
      <4>1. tx \in Sender /\ OnLink
        BY <1>3, Typed DEF Carried, Transit
      <4>2. tx.unsent \in Nat /\ tx.size \in Nat
        BY <4>1 DEF Sender
      <4>3. CASE tx.pc = "write"
        BY <1>3, <2>1, <4>1, <4>2, <4>3 DEF OnLink
      <4>4. CASE tx.pc = "wait"
        <5>1. CASE Made /\ link.written \in {tx.size, tx.size + COMMON}
          BY <1>3, <4>2, <5>1, Sizes DEF Made
        <5>2. CASE link.pkts = <<AbortPacket>> /\ link.written = COMMON
          BY <1>3, <5>2, Sizes DEF AbortPacket
        <5>3. QED
          BY <4>1, <4>4, <5>1, <5>2 DEF OnLink
      <4>5. QED
        BY <1>4, <4>3, <4>4
    <3>3. QED
      BY <1>3, <1>4, <3>1, <3>2
  <2>2. CASE env.trans # "USB"
    <3>1. Need(rx.size) \in Nat /\ rx.size + Need(rx.size) <= link.pkts[1].size
      BY <1>3, <1>4, Sizes DEF Need
    <3>2. link.written - link.taken \in Nat
      BY <1>3
    <3>3. n \in 1..Smaller(Need(rx.size), link.written - link.taken)
      BY <1>2, <2>2
    <3>4. n \in Nat /\ n <= Need(rx.size) /\ n <= link.written - link.taken
      <4>1. /\ Smaller(Need(rx.size), link.written - link.taken) <= Need(rx.size)
            /\ Smaller(Need(rx.size), link.written - link.taken)
                 <= link.written - link.taken
            /\ Smaller(Need(rx.size), link.written - link.taken) \in Nat
        BY <3>1, <3>2, SmallerIs
      <4>2. QED
        BY <3>1, <3>2, <3>3, <4>1
    <3>5. QED
      BY <1>3, <1>4, <3>1, <3>4
  <2>3. QED
    BY <2>1, <2>2
<1>6. hist' \in Histories
  BY <1>1, Typed DEF Carried
<1>7. QED
  BY <1>1, <1>2, <1>5, <1>6, TakenCarries

LEMMA FedIs ==
  ASSUME Carried, Readable, NEW n \in Nat
  PROVE  /\ Fed(n) \in Nat /\ Fed(n) <= n
         /\ rx.size + Fed(n) <= link.pkts[1].size
<1> DEFINE first == IF rx.size < COMMON THEN Smaller(n, Need(rx.size)) ELSE 0
           second == Smaller(n - first, Need(rx.size + first))
<1>1. /\ phase = "open" /\ link.pkts # <<>> /\ rx.size < link.pkts[1].size
      /\ rx.size \in Nat
  BY ToRead
<1>2. /\ Head(link.pkts) = link.pkts[1] /\ link.pkts[1].size \in Nat
      /\ link.pkts[1].size >= 3
  BY <1>1, FirstPacket
<1>3. /\ first \in Nat /\ first <= n /\ rx.size + first <= link.pkts[1].size
  <2>1. CASE rx.size < 3
    <3>1. Need(rx.size) \in Nat /\ Need(rx.size) = 3 - rx.size
      BY <1>1, <2>1, Sizes DEF Need
    <3>2. first = Smaller(n, Need(rx.size))
      BY <2>1, Sizes
    <3> HIDE DEF first
    <3>3. first \in Nat /\ first <= n /\ first <= Need(rx.size)
      BY <3>1, <3>2, SmallerIs
    <3>4. QED
      BY <1>1, <1>2, <3>1, <3>3
  <2>2. CASE ~(rx.size < 3)
    BY <1>1, <1>2, <2>2, Sizes
  <2>3. QED
    BY <2>1, <2>2
<1>4. Fed(n) = IF rx.size + first < 3 THEN first ELSE first + second
  BY Sizes DEF Fed
<1>5. CASE rx.size + first < 3
  BY <1>1, <1>3, <1>4, <1>5
<1>6. CASE ~(rx.size + first < 3)
  <2> HIDE DEF first
  <2>1. /\ Need(rx.size + first) \in Nat
        /\ Need(rx.size + first) = link.pkts[1].size - (rx.size + first)
    BY <1>1, <1>2, <1>3, <1>6, Sizes DEF Need
  <2>2. n - first \in Nat
    BY <1>3
  <2>3. second \in Nat /\ second <= n - first /\ second <= Need(rx.size + first)
    BY <2>1, <2>2, SmallerIs
  <2> HIDE DEF second
  <2>4. QED
    BY <1>1, <1>2, <1>3, <1>4, <1>6, <2>1, <2>3
<1>7. QED
  BY <1>5, <1>6

LEMMA FeedCarries == Carried /\ Feed => Carried'
<1> SUFFICES ASSUME Carried, Feed PROVE Carried'
  OBVIOUS
<1>1. Readable
  BY DEF Feed
<1>2. PICK n \in 1..(link.written - link.taken) :
        /\ Taken(n, Fed(n))
        /\ hist' = [hist EXCEPT !.overfed = @ \/ n > Fed(n)]
  BY DEF Feed
<1>3. link.taken \in Nat /\ link.written \in Nat /\ link.taken < link.written
  BY <1>1, ToRead
<1>4. n \in Nat /\ link.taken + n <= link.written
  BY <1>3
<1>5. Fed(n) \in Nat /\ Fed(n) <= n /\ rx.size + Fed(n) <= link.pkts[1].size
  BY <1>1, <1>4, FedIs
<1>6. PICK b \in BOOLEAN : b = (hist.overfed \/ n > Fed(n))
  OBVIOUS
<1>7. hist' = [hist EXCEPT !.overfed = b] /\ hist \in Histories
  BY <1>2, <1>6, Typed DEF Carried
<1>8. /\ hist' \in Histories /\ hist'.aborting = hist.aborting
      /\ hist'.readFailed = hist.readFailed /\ hist'.overfed = b
  BY <1>7 DEF Histories
<1>9. (hist.overfed => hist'.overfed) /\ (Fed(n) # n => hist'.overfed)
  <2>1. Fed(n) # n => n > Fed(n)
    BY <1>4, <1>5
  <2>2. QED
    BY <1>6, <1>8, <2>1
<1>10. QED
  BY <1>1, <1>2, <1>4, <1>5, <1>8, <1>9, TakenCarries

LEMMA ReadFailsCarries == Carried /\ ReadFails => Carried'
<1> SUFFICES ASSUME Carried, ReadFails PROVE Carried'
  OBVIOUS
<1> DEFINE size == IF env.trans = "USB"
                   THEN IF rx.size > 0 THEN rx.size - 1 ELSE 0
                   ELSE rx.size + Need(rx.size)
<1>1. /\ phase = "open" /\ rx.pc = "read" /\ AtPacket
      /\ rx.size >= COMMON => link.pkts # <<>>
      /\ hist.faults < MaxFaults
      /\ hist' = [hist EXCEPT !.faults = @ + 1, !.readFailed = TRUE]
      /\ rx' = [rx EXCEPT !.size = size]
      /\ UNCHANGED <<env, tx, link, phase>>
  BY DEF ReadFails
<1>2. rx \in Receivers /\ link \in Links /\ hist \in Histories /\ AtReceiver
  BY <1>1, Typed DEF Carried, Transit
<1>3. rx.size \in Nat /\ link.taken \in Nat /\ rx.size = link.taken
  BY <1>1, <1>2 DEF Receivers, Links, AtPacket
<1>4. size \in Nat /\ (size = rx.size => size = 0)
  <2>1. CASE env.trans = "USB"
    BY <1>3, <2>1
  <2>2. CASE env.trans # "USB" /\ rx.size < 3
    BY <1>3, <2>2, Sizes DEF Need
  <2>3. CASE env.trans # "USB" /\ rx.size >= 3
    <3>1. link.pkts # <<>> /\ rx.size < link.pkts[1].size
      BY <1>1, <1>2, <2>3, Sizes DEF AtReceiver
    <3>2. Head(link.pkts) = link.pkts[1] /\ link.pkts[1].size \in Nat
      BY <1>1, <3>1, FirstPacket
    <3>3. size = link.pkts[1].size
      BY <1>3, <2>3, <3>2, Sizes DEF Need
    <3>4. QED
      BY <3>1, <3>2, <3>3
  <2>4. QED
    BY <1>3, <2>1, <2>2, <2>3
<1> HIDE DEF size
<1>5. /\ rx' \in Receivers /\ rx'.size = size /\ rx'.pc = "read"
      /\ rx'.todo = rx.todo
  BY <1>1, <1>2, <1>4 DEF Receivers
<1>6. /\ hist' \in Histories /\ hist'.readFailed
      /\ hist'.aborting = hist.aborting /\ hist'.overfed = hist.overfed
  <2>1. hist.faults + 1 \in 0..MaxFaults
    BY <1>1, <1>2, BoundsAreNat DEF Histories
  <2>2. QED
    BY <1>1, <1>2, <2>1 DEF Histories
<1>7. TypeOK'
  BY <1>1, <1>5, <1>6 DEF Carried, TypeOK, Receivers, Histories
<1>8. AtPacket' => size = rx.size
  BY <1>1, <1>3, <1>5 DEF AtPacket
<1>9. AtReceiver'
  <2>1. AtPacket' => IF link.pkts = <<>> THEN size = 0 ELSE size < link.pkts[1].size
    BY <1>1, <1>2, <1>4, <1>8 DEF AtReceiver
  <2>2. QED
    BY <1>1, <1>2, <1>5, <2>1 DEF AtReceiver
<1>10. OnLink' /\ Asking'
  BY <1>1, <1>6 DEF Carried, Transit, OnLink, Made, Asking
<1>11. Framed'
  BY <1>6 DEF Framed
<1>12. QED
  BY <1>1, <1>7, <1>9, <1>10, <1>11 DEF Carried, Transit

LEMMA MisreadCarries == Carried /\ Misread => Carried'
<1> SUFFICES ASSUME Carried, Misread PROVE Carried'
  OBVIOUS
<1>1. phase = "open" /\ ~AtPacket /\ phase' = "misread" /\ UNCHANGED <<env, tx, link, rx, hist>>
  BY DEF Misread
<1>2. QED
  BY <1>1 DEF Carried, TypeOK, Ends, Transit, Framed, AtPacket

LEMMA CancelCarries == Carried /\ Cancel => Carried'
<1> SUFFICES ASSUME Carried, Cancel PROVE Carried'
  OBVIOUS
<1>1. /\ phase = "open" /\ hist.faults < MaxFaults
      /\ rx' = [rx EXCEPT !.abort = TRUE]
      /\ hist' = [hist EXCEPT !.faults = @ + 1]
      /\ UNCHANGED <<env, tx, link, phase>>
  BY DEF Cancel
<1>2. rx \in Receivers /\ hist \in Histories
  BY Typed DEF Carried
<1>3. /\ rx' \in Receivers /\ rx'.size = rx.size /\ rx'.pc = rx.pc
      /\ rx'.todo = rx.todo
  BY <1>1, <1>2 DEF Receivers
<1>4. /\ hist' \in Histories /\ hist'.readFailed = hist.readFailed
      /\ hist'.aborting = hist.aborting /\ hist'.overfed = hist.overfed
  <2>1. hist.faults + 1 \in 0..MaxFaults
    BY <1>1, <1>2, BoundsAreNat DEF Histories
  <2>2. QED
    BY <1>1, <1>2, <2>1 DEF Histories
<1>5. TypeOK'
  BY <1>1, <1>3, <1>4 DEF Carried, TypeOK, Receivers, Histories
<1>6. Transit' /\ Framed'
  BY <1>1, <1>3, <1>4 DEF Carried, Transit, OnLink, Made, Asking, AtReceiver, AtPacket, Framed
<1>7. QED
  BY <1>5, <1>6 DEF Carried

LEMMA ReceiveCarries == Carried /\ ReceiveHeader => Carried'
<1> SUFFICES ASSUME Carried, ReceiveHeader PROVE Carried'
  OBVIOUS
<1> DEFINE item == Head(rx.todo)
           r == [rx EXCEPT !.todo = Tail(@)]
           h == [no |-> item.no, data |-> item.data]
           g == [no |-> item.no, data |-> Body(item)]
<1>1. /\ phase = "open" /\ rx.pc = "parse" /\ rx.todo # <<>>
      /\ UNCHANGED <<env, tx, link>>
  BY DEF ReceiveHeader, Receive, ReceiveFails
<1>2. rx \in Receivers /\ hist \in Histories
  BY Typed DEF Carried
<1>3. item \in Item /\ Tail(rx.todo) \in Seq(Item)
  BY <1>1, <1>2, HeadTailProperties DEF Receivers
<1>4. r \in Receivers /\ r.size = rx.size /\ r.pc = rx.pc
  BY <1>2, <1>3 DEF Receivers
<1>5. item.no \in Nat /\ item.data \in Seq(Nat)
  BY <1>3 DEF Item
<1>6. /\ rx.body \in Seq(Nat)
      /\ rx.headerq \in Seq([no : Nat, data : Seq(Nat)])
      /\ rx.rm \in Seq([no : Nat, data : Seq(Nat)])
      /\ hist.streamed \in Seq(Nat) /\ hist.eos \in Nat /\ hist.faults \in 0..MaxFaults
  BY <1>2 DEF Receivers, Histories
<1>7. Body(item) \in Seq(Nat) /\ hist.streamed \o item.data \in Seq(Nat)
  <2> HIDE DEF item
  <2>1. QED
    BY <1>5, <1>6, ConcatProperties DEF Body
<1>8. h \in [no : Nat, data : Seq(Nat)] /\ g \in [no : Nat, data : Seq(Nat)]
  BY <1>5, <1>7
<1>9. /\ Keep(h) \in Seq([no : Nat, data : Seq(Nat)])
      /\ Keep(g) \in Seq([no : Nat, data : Seq(Nat)])
  <2> HIDE DEF h, g
  <2>1. QED
    BY <1>6, <1>8, AppendProperties DEF Keep
<1>10. hist.eos + EndsStream(item) \in Nat
  BY <1>6 DEF EndsStream
<1>11. Len(Received) + 1 \in Nat
  <2>1. Received \in Seq([no : Nat, data : Seq(Nat)])
    BY <1>6, ConcatProperties DEF Received
  <2>2. QED
    BY <2>1, LenProperties
<1>12. hist.faults < MaxFaults => hist.faults + 1 \in 0..MaxFaults
  BY <1>6, BoundsAreNat
<1> DEFINE Kept ==
             /\ rx' \in Receivers /\ rx'.size = rx.size /\ rx'.pc = rx.pc
             /\ hist' \in Histories /\ hist'.aborting = hist.aborting
             /\ hist'.readFailed = hist.readFailed /\ hist'.overfed = hist.overfed
             /\ phase' \in {"open", "refused"}
<1>13. ASSUME Receive(item) PROVE Kept
  <2>1. phase' = phase
    BY <1>13 DEF Receive
  <2> HIDE DEF item, r, h, g
  <2>2. CASE item.kind = "HEADER" /\ rx' = [r EXCEPT !.headerq = Keep(h)] /\ hist' = hist
    BY <1>1, <1>2, <1>4, <1>9, <2>1, <2>2 DEF Receivers
  <2>3. CASE rx' = r /\ hist' = hist
    BY <1>1, <1>2, <1>4, <2>1, <2>3
  <2>4. CASE /\ rx' = r
             /\ hist' = [hist EXCEPT !.streamed = @ \o item.data,
                                     !.eos = @ + EndsStream(item)]
    <3> DEFINE streamed == hist.streamed \o item.data
               eos == hist.eos + EndsStream(item)
    <3>1. streamed \in Seq(Nat) /\ eos \in Nat
      BY <1>7, <1>10
    <3>2. hist' = [hist EXCEPT !.streamed = streamed, !.eos = eos]
      BY <2>4
    <3> HIDE DEF streamed, eos
    <3>3. /\ hist' \in Histories /\ hist'.aborting = hist.aborting
          /\ hist'.readFailed = hist.readFailed /\ hist'.overfed = hist.overfed
      BY <1>2, <3>1, <3>2 DEF Histories
    <3>4. QED
      BY <1>1, <1>4, <2>1, <2>4, <3>3
  <2>5. CASE rx' = [r EXCEPT !.body = Body(item)] /\ hist' = hist
    BY <1>1, <1>2, <1>4, <1>7, <2>1, <2>5 DEF Receivers
  <2>6. CASE rx' = [r EXCEPT !.body = <<>>, !.headerq = Keep(g)] /\ hist' = hist
    BY <1>1, <1>2, <1>4, <1>9, <2>1, <2>6, EmptySeq DEF Receivers
  <2>7. CASE /\ hist.faults < MaxFaults
             /\ hist' = [hist EXCEPT !.faults = @ + 1, !.dropped = Len(Received) + 1]
             /\ rx' = [r EXCEPT !.body = <<>>]
    <3> DEFINE dropped == Len(Received) + 1
               faults == hist.faults + 1
    <3>1. dropped \in Nat /\ faults \in 0..MaxFaults
      BY <1>11, <1>12, <2>7
    <3>2. hist' = [hist EXCEPT !.faults = faults, !.dropped = dropped]
      BY <2>7
    <3> HIDE DEF dropped, faults
    <3>3. /\ hist' \in Histories /\ hist'.aborting = hist.aborting
          /\ hist'.readFailed = hist.readFailed /\ hist'.overfed = hist.overfed
      BY <1>2, <3>1, <3>2 DEF Histories
    <3>4. rx' \in Receivers /\ rx'.size = rx.size /\ rx'.pc = rx.pc
      BY <1>4, <2>7, EmptySeq DEF Receivers
    <3>5. QED
      BY <1>1, <2>1, <3>3, <3>4
  <2> HIDE DEF Kept
  <2>8. QED
    BY <1>13, <2>2, <2>3, <2>4, <2>5, <2>6, <2>7, Zenon DEF Receive, item, r, h, g
<1>14. ASSUME ReceiveFails(item) PROVE Kept
  <2>1. /\ hist.faults < MaxFaults /\ hist' = [hist EXCEPT !.faults = @ + 1]
        /\ phase' = "refused" /\ rx' = rx
    BY <1>14 DEF ReceiveFails
  <2>2. QED
    BY <1>2, <1>12, <2>1 DEF Histories
<1>15. Kept
  BY <1>1, <1>13, <1>14 DEF ReceiveHeader
<1>16. TypeOK'
  BY <1>1, <1>15 DEF Carried, TypeOK, Receivers, Histories, Ends
<1>17. Transit' /\ Framed'
  BY <1>1, <1>15 DEF Carried, Transit, OnLink, Made, Asking, AtReceiver, AtPacket, Framed
<1>18. QED
  BY <1>16, <1>17 DEF Carried

(* The receiver is done with the first packet on the link: it is all there,*)
(* so the sender has written it.                                           *)
LEMMA HandledIs ==
  ASSUME Carried, PacketHandled
  PROVE  LET p == link.pkts[1]
         IN  /\ phase = "open" /\ rx.pc = "parse" /\ rx.todo = <<>>
             /\ UNCHANGED <<env, hist>>
             /\ link.pkts # <<>> /\ p \in Packet /\ rx.size = p.size
             /\ p.size <= link.taken /\ link.taken <= link.written
             /\ tx.pc = "wait"
             /\ \/ p.op # "ABORT" /\ Made
                \/ p.op = "ABORT" /\ p = AbortPacket
             /\ rx' \in Receivers /\ rx'.pc = "read" /\ rx'.size = 0
             /\ rx'.todo = <<>> /\ rx'.headerq = rx.headerq /\ rx'.rm = rx.rm
             /\ rx'.body = rx.body /\ rx'.abort = rx.abort
             /\ link' \in Links /\ link'.pkts = Tail(link.pkts)
             /\ link'.written = link.written - p.size
             /\ link'.taken = link.taken - p.size
             /\ tx' \in Sender
             /\ tx'.pc = IF p.op = "NEXT" /\ ~hist.aborting THEN "turn" ELSE "wait"
             /\ tx'.items = tx.items /\ tx'.size = tx.size
             /\ tx'.headerq = tx.headerq /\ tx'.suspend = tx.suspend
             /\ tx'.s_data = tx.s_data /\ tx'.s_stop = tx.s_stop
             /\ phase' = IF p.op = "ABORT" \/ rx.abort THEN "aborted"
                         ELSE IF p.op = "LAST" THEN "done" ELSE "open"
<1> DEFINE p == link.pkts[1]
<1>1. tx \in Sender /\ link \in Links /\ rx \in Receivers
  BY Typed DEF Carried
<1>2. /\ phase = "open" /\ rx.pc = "parse" /\ rx.todo = <<>>
      /\ UNCHANGED <<env, hist>>
  BY DEF PacketHandled
<1>3. /\ link.pkts # <<>> /\ rx.size = p.size
      /\ p.size <= link.taken /\ link.taken <= link.written
  BY <1>2 DEF Carried, Transit, AtReceiver
<1>4. /\ Head(link.pkts) = p /\ p \in Packet /\ p.size \in Nat /\ p.size >= 3
      /\ tx.pc \in {"write", "wait"}
  BY <1>2, <1>3, FirstPacket
<1>5. link.taken \in Nat /\ link.written \in Nat
  BY <1>1 DEF Links
<1>6. tx.pc = "wait"
  <2>1. CASE tx.pc = "write"
    <3>1. Made /\ link.written + tx.unsent = tx.size /\ tx.unsent > 0
      BY <1>2, <2>1 DEF Carried, Transit, OnLink
    <3>2. tx.unsent \in Nat /\ tx.size \in Nat
      BY <1>1 DEF Sender
    <3>3. p.size = tx.size
      BY <3>1 DEF Made
    <3>4. QED
      BY <1>3, <1>4, <1>5, <3>1, <3>2, <3>3
  <2>2. QED
    BY <1>4, <2>1
<1>7. \/ p.op # "ABORT" /\ Made
      \/ p.op = "ABORT" /\ p = AbortPacket
  <2>1. Made \/ link.pkts = <<AbortPacket>>
    BY <1>2, <1>6 DEF Carried, Transit, OnLink
  <2>2. CASE link.pkts = <<AbortPacket>>
    BY <2>2 DEF AbortPacket
  <2>3. QED
    BY <2>1, <2>2 DEF Made
<1> DEFINE pkts == Tail(link.pkts)
           written == link.written - p.size
           taken == link.taken - p.size
<1>8. pkts \in Seq(Packet) /\ written \in Nat /\ taken \in Nat
  <2>1. pkts \in Seq(Packet)
    BY <1>1, <1>3, HeadTailProperties DEF Links
  <2>2. QED
    BY <1>3, <1>4, <1>5, <2>1
<1>9. link' = [pkts |-> pkts, written |-> written, taken |-> taken]
  BY <1>4 DEF PacketHandled
<1>10. /\ link' \in Links /\ link'.pkts = pkts /\ link'.written = written
       /\ link'.taken = taken
  <2> HIDE DEF pkts, written, taken
  <2>1. QED
    BY <1>8, <1>9 DEF Links
<1>11. /\ rx' \in Receivers /\ rx'.pc = "read" /\ rx'.size = 0
       /\ rx'.todo = <<>> /\ rx'.headerq = rx.headerq /\ rx'.rm = rx.rm
       /\ rx'.body = rx.body /\ rx'.abort = rx.abort
  BY <1>1, <1>2 DEF PacketHandled, NextPacket, Receivers
<1>12. /\ tx' \in Sender
       /\ tx'.pc = IF p.op = "NEXT" /\ ~hist.aborting THEN "turn" ELSE "wait"
       /\ tx'.items = tx.items /\ tx'.size = tx.size
       /\ tx'.headerq = tx.headerq /\ tx'.suspend = tx.suspend
       /\ tx'.s_data = tx.s_data /\ tx'.s_stop = tx.s_stop
  <2>1. tx' = [tx EXCEPT !.pc = IF p.op = "NEXT" /\ ~hist.aborting THEN "turn" ELSE "wait"]
    BY <1>4, <1>6 DEF PacketHandled
  <2> HIDE DEF p
  <2>2. QED
    BY <1>1, <2>1 DEF Sender
<1>13. phase' = IF p.op = "ABORT" \/ rx.abort THEN "aborted"
                ELSE IF p.op = "LAST" THEN "done" ELSE "open"
  <2>1. p.op \in {"NEXT", "LAST", "ABORT"}
    BY <1>4 DEF Packet
  <2>2. phase' = CASE p.op = "ABORT" \/ rx.abort -> "aborted"
                   [] p.op = "LAST" /\ ~rx.abort -> "done"
                   [] p.op = "NEXT" /\ ~rx.abort -> "open"
    BY <1>2, <1>4 DEF PacketHandled
  <2>3. QED
    BY <2>1, <2>2
<1> HIDE DEF p
<1>14. QED
  BY <1>2, <1>3, <1>4, <1>6, <1>7, <1>10, <1>11, <1>12, <1>13 DEF p

LEMMA HandledCarries == Carried /\ PacketHandled => Carried'
<1> SUFFICES ASSUME Carried, PacketHandled PROVE Carried'
  OBVIOUS
<1> DEFINE p == link.pkts[1]
<1>1. /\ phase = "open" /\ UNCHANGED <<env, hist>> /\ rx.pc = "parse"
      /\ link.pkts # <<>> /\ p \in Packet /\ rx.size = p.size
      /\ p.size <= link.taken /\ link.taken <= link.written
      /\ tx.pc = "wait"
      /\ \/ p.op # "ABORT" /\ Made
         \/ p.op = "ABORT" /\ p = AbortPacket
  BY HandledIs
<1>2. /\ rx' \in Receivers /\ rx'.pc = "read" /\ rx'.size = 0 /\ rx'.todo = <<>>
      /\ link' \in Links /\ link'.pkts = Tail(link.pkts)
      /\ link'.written = link.written - p.size
      /\ link'.taken = link.taken - p.size
  BY HandledIs
<1>3. /\ tx' \in Sender
      /\ tx'.pc = IF p.op = "NEXT" /\ ~hist.aborting THEN "turn" ELSE "wait"
      /\ phase' = IF p.op = "ABORT" \/ rx.abort THEN "aborted"
                  ELSE IF p.op = "LAST" THEN "done" ELSE "open"
  BY HandledIs
<1>4. /\ p.size \in Nat /\ p.size >= 3 /\ link.taken \in Nat /\ link.written \in Nat
      /\ link.pkts \in Seq(Packet)
  BY <1>1, FirstPacket, Typed DEF Carried, Links
<1>5. TypeOK'
  BY <1>1, <1>2, <1>3 DEF Carried, TypeOK, Receivers, Links, Ends
<1>6. ASSUME phase' = "open" PROVE Transit'
  <2>1. p.op = "NEXT" /\ Made
    BY <1>1, <1>3, <1>6 DEF Packet
  <2>2. p.size = tx.size /\ tx.size \in Nat
    BY <2>1, <1>4 DEF Made
  <2>3. CASE ~hist.aborting
    <3>1. Len(link.pkts) = 1 /\ link.written = tx.size
      BY <1>1, <2>3 DEF Carried, Transit, OnLink
    <3>2. link'.pkts = <<>> /\ link'.written = 0
      <4>1. Len(Tail(link.pkts)) = 0 /\ Tail(link.pkts) \in Seq(Packet)
        BY <1>1, <1>4, <3>1, HeadTailProperties
      <4>2. Tail(link.pkts) = <<>>
        BY <4>1, EmptySeq
      <4>3. link.written - p.size = 0
        BY <1>4, <2>2, <3>1
      <4>4. QED
        BY <1>2, <4>2, <4>3
    <3>3. tx'.pc = "turn"
      BY <1>3, <2>1, <2>3
    <3>4. OnLink' /\ Asking'
      BY <1>1, <2>3, <3>2, <3>3 DEF OnLink, Asking
    <3>5. link'.taken <= link'.written
      BY <1>1, <1>2, <1>4
    <3>6. AtReceiver'
      BY <1>2, <3>2, <3>5 DEF AtReceiver
    <3>7. QED
      BY <3>4, <3>6 DEF Transit
  <2>4. CASE hist.aborting
    <3>1. /\ Len(link.pkts) = 2 /\ link.pkts[2] = AbortPacket
          /\ link.written = tx.size + COMMON
      BY <1>1, <2>1, <2>4 DEF Carried, Transit, OnLink, AbortPacket
    <3>2. link'.pkts = <<AbortPacket>> /\ link'.written = COMMON
      <4>1. /\ Len(Tail(link.pkts)) = 1 /\ Tail(link.pkts) \in Seq(Packet)
            /\ Tail(link.pkts)[1] = AbortPacket
        BY <1>1, <1>4, <3>1, HeadTailProperties
      <4>2. Tail(link.pkts) = <<AbortPacket>>
        <5> DEFINE s == Tail(link.pkts)
        <5>1. s \in Seq(Packet) /\ Len(s) = 1 /\ s[1] = AbortPacket
          BY <4>1
        <5> HIDE DEF s
        <5>2. s = <<AbortPacket>>
          BY <5>1
        <5>3. QED
          BY <5>2 DEF s
      <4>3. link.written - p.size = COMMON
        BY <1>4, <2>2, <3>1, Sizes
      <4>4. QED
        BY <1>2, <4>2, <4>3
    <3>3. tx'.pc = "wait"
      BY <1>3, <2>4
    <3>4. OnLink' /\ Asking'
      BY <1>1, <2>4, <3>2, <3>3 DEF OnLink, Asking
    <3>5. link'.pkts # <<>> /\ link'.pkts[1].size = 3
      BY <3>2, Sizes DEF AbortPacket
    <3>6. link'.taken <= link'.written
      BY <1>1, <1>2, <1>4
    <3>7. AtReceiver'
      BY <1>2, <3>5, <3>6 DEF AtReceiver
    <3>8. QED
      BY <3>4, <3>7 DEF Transit
  <2>5. QED
    BY <2>3, <2>4
<1>7. Framed'
  <2>1. AtPacket => AtPacket'
    BY <1>1, <1>2, <1>4 DEF AtPacket
  <2>2. QED
    BY <1>1, <1>3, <2>1 DEF Carried, Framed
<1>8. QED
  BY <1>5, <1>6, <1>7 DEF Carried, Transit

(* The application looks at the headers.                                   *)
Looks == GetNextHeader \/ ReparseHeaders

LEMMA LooksIs ==
  ASSUME Carried, Looks
  PROVE  /\ UNCHANGED <<env, tx, link, hist, phase>>
         /\ rx' \in Receivers
         /\ rx'.pc = rx.pc /\ rx'.size = rx.size /\ rx'.todo = rx.todo
         /\ rx'.body = rx.body /\ rx'.abort = rx.abort
         /\ Received' = Received
<1> DEFINE H == [no : Nat, data : Seq(Nat)]
<1>1. rx \in Receivers /\ rx.headerq \in Seq(H) /\ rx.rm \in Seq(H)
  BY Typed DEF Carried, Receivers
<1>2. CASE GetNextHeader
  <2> DEFINE rm == Append(rx.rm, Head(rx.headerq))
             q == Tail(rx.headerq)
  <2>1. /\ rx.headerq # <<>> /\ UNCHANGED <<env, tx, link, hist, phase>>
        /\ rx' = [rx EXCEPT !.rm = rm, !.headerq = q]
    BY <1>2 DEF GetNextHeader
  <2>2. rm \in Seq(H) /\ q \in Seq(H)
    BY <1>1, <2>1, HeadTailProperties, AppendProperties
  <2>3. rm \o q = rx.rm \o rx.headerq
    <3> DEFINE first == Head(rx.headerq)
               one == <<first>>
    <3> HIDE DEF H
    <3>1. first \in H
      BY <1>1, <2>1, HeadTailProperties
    <3>2. one \in Seq(H) /\ rm = rx.rm \o one
      <4> HIDE DEF first
      <4>1. QED
        BY <1>1, <3>1, AppendIsConcat DEF first
    <3>3. one \o q = rx.headerq
      BY <1>1, <2>1
    <3> HIDE DEF rm, q, one
    <3>4. (rx.rm \o one) \o q = rx.rm \o (one \o q)
      <4>1. \A a, b, c \in Seq(H) : (a \o b) \o c = a \o (b \o c)
        BY ConcatAssociative
      <4>2. rx.rm \in Seq(H) /\ one \in Seq(H) /\ q \in Seq(H)
        BY <1>1, <2>2, <3>2
      <4>3. QED
        BY <4>1, <4>2
    <3>5. QED
      BY <3>2, <3>3, <3>4
  <2> HIDE DEF rm, q
  <2>4. QED
    BY <1>1, <2>1, <2>2, <2>3 DEF Receivers, Received
<1>3. CASE ReparseHeaders
  <2>1. rx' = Reparsed(rx) /\ UNCHANGED <<env, tx, link, hist, phase>>
    BY <1>3 DEF ReparseHeaders
  <2>2. CASE rx.headerq # <<>>
    BY <1>1, <2>1, <2>2 DEF Reparsed, Received
  <2>3. CASE rx.headerq = <<>>
    <3>1. rx' = [rx EXCEPT !.headerq = rx.rm, !.rm = <<>>]
      BY <2>1, <2>3 DEF Reparsed
    <3>2. rx.rm \o <<>> = rx.rm /\ <<>> \o rx.rm = rx.rm
      BY <1>1, ConcatEmptySeq
    <3>3. QED
      BY <1>1, <2>1, <2>3, <3>1, <3>2, EmptySeq DEF Receivers, Received
  <2>4. QED
    BY <2>2, <2>3
<1>4. QED
  BY <1>2, <1>3 DEF Looks

LEMMA LooksCarries == Carried /\ Looks => Carried'
<1> SUFFICES ASSUME Carried, Looks PROVE Carried'
  OBVIOUS
<1>1. /\ UNCHANGED <<env, tx, link, hist, phase>>
      /\ rx' \in Receivers
      /\ rx'.pc = rx.pc /\ rx'.size = rx.size /\ rx'.todo = rx.todo
  BY LooksIs
<1>2. TypeOK'
  BY <1>1 DEF Carried, TypeOK, Receivers
<1>3. QED
  BY <1>1, <1>2 DEF Carried, Transit, OnLink, Made, Asking, AtReceiver, AtPacket, Framed

LEMMA CarriedAtFirst == Init => Carried
<1> SUFFICES ASSUME Init PROVE Carried
  OBVIOUS
<1>1. /\ env \in [trans : Transports, streams : BOOLEAN, nonhdr : NonHeaderSizes]
      /\ tx = NewSender(env.nonhdr) /\ phase = "open"
      /\ link = [pkts |-> <<>>, written |-> 0, taken |-> 0]
      /\ rx.size = 0 /\ rx.pc = "read" /\ rx.todo = <<>> /\ ~hist.aborting
  BY DEF Init
<1>2. env.nonhdr \in Nat
  BY <1>1, SizesAreNat
<1>3. tx \in Sender /\ tx.pc = "add"
  <2>1. <<>> \in Seq(Element) /\ <<>> \in Seq(Item) /\ <<>> \in Seq(Nat)
    BY EmptySeq
  <2>2. QED
    BY <1>1, <1>2, <2>1 DEF NewSender, Sender
<1>4. link \in Links
  BY <1>1, EmptySeq DEF Links
<1>5. rx \in Receivers
  BY EmptySeq DEF Init, Receivers
<1>6. hist \in Histories
  BY EmptySeq, BoundsAreNat DEF Init, Histories
<1>7. TypeOK
  BY <1>1, <1>3, <1>4, <1>5, <1>6, Typed
<1>8. Transit
  BY <1>1, <1>3 DEF Transit, OnLink, AtReceiver, Asking, AtPacket
<1>9. Framed
  BY <1>1 DEF Framed, AtPacket
<1>10. QED
  BY <1>7, <1>8, <1>9 DEF Carried

LEMMA Steps ==
  Next <=> \/ AddHeaders \/ Works \/ Send \/ FinishPacket \/ Write \/ Resume
           \/ WriteFails \/ GiveUp \/ SendAbort
           \/ Read \/ Feed \/ ReadFails \/ Misread
           \/ ReceiveHeader \/ PacketHandled \/ Cancel \/ Looks \/ Ended
BY Zenon DEF Next, Sending, Receiving, Faults, Works, Looks

LEMMA CarriedStep == Carried /\ [Next]_vars => Carried'
<1>1. Carried /\ UNCHANGED vars => Carried'
  <2> SUFFICES ASSUME Carried, UNCHANGED <<env, tx, link, rx, hist, phase>>
               PROVE  Carried'
    BY DEF vars
  <2>1. TypeOK'
    BY DEF Carried, TypeOK
  <2>2. Transit'
    BY DEF Carried, Transit, OnLink, Made, Asking, AtReceiver, AtPacket
  <2>3. Framed'
    BY DEF Carried, Framed, AtPacket
  <2>4. QED
    BY <2>1, <2>2, <2>3 DEF Carried
<1>2. Ended => UNCHANGED vars
  BY DEF Ended
<1>3. QED
  BY <1>1, <1>2, Steps, AddCarries, WorksCarries, SendCarries, FinishCarries, WriteCarries,
     ResumeCarries, FailCarries, AbortCarries, ReadCarries, FeedCarries,
     ReadFailsCarries, MisreadCarries, ReceiveCarries, HandledCarries,
     CancelCarries, LooksCarries, Zenon

LEMMA CarriedAlways == Spec => []Carried
BY CarriedAtFirst, CarriedStep, PTL DEF Spec

(* Sizes, counts, queues and packets keep their types: no length becomes   *)
(* negative and no header is taken from an empty queue or packet           *)
(* (obex_object_send, obex_data_indication, obex_object_receive).          *)
THEOREM WireTypes == Spec => []TypeOK
<1>1. Carried => TypeOK
  BY DEF Carried
<1>2. QED
  BY <1>1, CarriedAlways, PTL

(* The receiver reads the packets the sender wrote, whatever pieces writes *)
(* and reads cut them into, with an ABORT behind them or not               *)
(* (obex_data_indication, do_write).                                       *)
THEOREM PacketsStayFramed == Spec => []Framed
<1>1. Carried => Framed
  BY DEF Carried
<1>2. QED
  BY <1>1, CarriedAlways, PTL

-----------------------------------------------------------------------------
(* How the headers of an object fill packets.                               *)

(***************************************************************************)
(* The sizes of headers are summed by a recursive function.  That there is *)
(* one, and what it is of a longer sequence, is shown by the least number  *)
(* for which it would not be so.                                           *)
(***************************************************************************)
LEMMA Least ==
  ASSUME NEW T \in SUBSET Nat, T # {}
  PROVE  \E m \in T : \A k \in T : m <= k
<1> DEFINE Below(n) == 0..n
           U == {Below(n) : n \in T}
<1>1. IsWellFoundedOn(StrictSubsetOrdering(Nat), FiniteSubsetsOf(Nat))
  BY FS_StrictSubsetOrderingWellFounded
<1>2. U \subseteq FiniteSubsetsOf(Nat)
  <2>1. \A n \in Nat : IsFiniteSet(0..n)
    BY FS_Interval
  <2>2. QED
    BY <2>1 DEF FiniteSubsetsOf
<1>3. U # {}
  OBVIOUS
<1>4. \E x \in U : \A y \in U : ~ (<<y, x>> \in StrictSubsetOrdering(Nat))
  <2> HIDE DEF U
  <2> QED
    BY <1>1, <1>2, <1>3, WFMin
<1>5. PICK m \in T : \A k \in T : <<Below(k), Below(m)>> \notin StrictSubsetOrdering(Nat)
  BY <1>4
<1>6. ASSUME NEW k \in T, k < m PROVE FALSE
  <2>1. Below(k) \subseteq Below(m) /\ Below(k) # Below(m)
    <3>1. m \in Below(m) /\ m \notin Below(k)
      BY <1>6
    <3>2. QED
      BY <1>6, <3>1
  <2>2. Below(k) \in SUBSET Nat /\ Below(m) \in SUBSET Nat
    OBVIOUS
  <2> HIDE DEF Below
  <2>3. <<Below(k), Below(m)>> \in StrictSubsetOrdering(Nat)
    BY <2>1, <2>2 DEF StrictSubsetOrdering
  <2>4. QED
    BY <1>5, <2>3
<1>7. QED
  BY <1>6

(* What holds of zero, and of each number when it holds of the one before, *)
(* holds of all of them.                                                   *)
LEMMA UpTo ==
  ASSUME NEW n \in Nat, NEW T \in SUBSET (0..n), 0 \in T,
         \A k \in 1..n : k - 1 \in T => k \in T
  PROVE  T = 0..n
<1>1. SUFFICES ASSUME (0..n) \ T # {} PROVE FALSE
  OBVIOUS
<1>2. (0..n) \ T \in SUBSET Nat
  OBVIOUS
<1>3. PICK m \in (0..n) \ T : \A k \in (0..n) \ T : m <= k
  BY <1>1, <1>2, Least
<1>4. m \in 1..n /\ m - 1 \in 0..n /\ ~(m <= m - 1)
  BY <1>3
<1>5. m - 1 \in T
  BY <1>3, <1>4
<1>6. QED
  BY <1>3, <1>4, <1>5

(* f sums the sizes of items up to the n-th.                               *)
Sums(items, n, f) ==
  f = [k \in 0..n |-> IF k = 0 THEN 0 ELSE f[k - 1] + items[k].size]

LEMMA SumsAgree ==
  ASSUME NEW s, NEW t, NEW m \in Nat, NEW n \in Nat, m <= n, NEW f, NEW g,
         Sums(s, m, f), Sums(t, n, g), \A k \in 1..m : s[k] = t[k]
  PROVE  \A k \in 0..m : f[k] = g[k]
<1> DEFINE T == {k \in 0..m : f[k] = g[k]}
<1>1. 0 \in T
  BY DEF Sums
<1>2. \A k \in 1..m : k - 1 \in T => k \in T
  <2> TAKE k \in 1..m
  <2> HAVE k - 1 \in T
  <2>1. k \in 0..m /\ k \in 0..n /\ k # 0
    OBVIOUS
  <2>2. f[k] = f[k - 1] + s[k].size
    BY <2>1 DEF Sums
  <2>3. g[k] = g[k - 1] + t[k].size
    BY <2>1 DEF Sums
  <2>4. f[k - 1] = g[k - 1] /\ s[k] = t[k]
    OBVIOUS
  <2>5. QED
    BY <2>1, <2>2, <2>3, <2>4
<1>3. T \in SUBSET (0..m)
  OBVIOUS
<1> HIDE DEF T
<1>4. T = 0..m
  BY <1>1, <1>2, <1>3, UpTo
<1>5. QED
  BY <1>4 DEF T

LEMMA SumsExist ==
  ASSUME NEW items, NEW n \in Nat
  PROVE  \E f : Sums(items, n, f)
<1> DEFINE T == {k \in 0..n : \E f : Sums(items, k, f)}
<1>1. 0 \in T
  <2> DEFINE f == [k \in 0..0 |-> 0]
  <2>1. Sums(items, 0, f)
    BY DEF Sums
  <2>2. QED
    BY <2>1
<1>2. \A k \in 1..n : k - 1 \in T => k \in T
  <2> TAKE k \in 1..n
  <2> HAVE k - 1 \in T
  <2>1. PICK f : Sums(items, k - 1, f)
    OBVIOUS
  <2> DEFINE last == f[k - 1] + items[k].size
             g == [i \in 0..k |-> IF i = k THEN last ELSE f[i]]
  <2>2. ASSUME NEW i \in 0..k
        PROVE  g[i] = IF i = 0 THEN 0 ELSE g[i - 1] + items[i].size
    <3>1. CASE i = k
      BY <3>1
    <3>2. CASE i # k
      <4>1. i \in 0..k - 1
        BY <3>2
      <4>2. f[i] = IF i = 0 THEN 0 ELSE f[i - 1] + items[i].size
        BY <2>1, <4>1 DEF Sums
      <4>3. i # 0 => i - 1 \in 0..k /\ i - 1 # k
        BY <4>1
      <4> HIDE DEF last
      <4>4. QED
        BY <3>2, <4>2, <4>3
    <3>3. QED
      BY <3>1, <3>2
  <2>3. g = [i \in 0..k |-> g[i]]
    OBVIOUS
  <2> HIDE DEF g
  <2>4. Sums(items, k, g)
    BY <2>2, <2>3 DEF Sums
  <2>5. QED
    BY <2>4
<1>3. T \in SUBSET (0..n)
  OBVIOUS
<1> HIDE DEF T
<1>4. T = 0..n
  BY <1>1, <1>2, <1>3, UpTo
<1>5. QED
  BY <1>4 DEF T

SizeFunction(items) ==
  CHOOSE f : f = [n \in Nat |-> IF n = 0 THEN 0 ELSE f[n - 1] + items[n].size]

LEMMA SizeFunctionIs ==
  ASSUME NEW items
  PROVE  LET f == SizeFunction(items)
         IN  f = [n \in Nat |-> IF n = 0 THEN 0 ELSE f[n - 1] + items[n].size]
<1> DEFINE part(n) == CHOOSE f : Sums(items, n, f)
           F == [n \in Nat |-> part(n)[n]]
<1>1. \A n \in Nat : Sums(items, n, part(n))
  BY SumsExist
<1> HIDE DEF part
<1>2. ASSUME NEW n \in Nat
      PROVE  F[n] = IF n = 0 THEN 0 ELSE F[n - 1] + items[n].size
  <2>1. CASE n = 0
    BY <1>1, <2>1 DEF Sums
  <2>2. CASE n # 0
    <3>1. n - 1 \in Nat /\ n - 1 <= n /\ n - 1 \in 0..n - 1 /\ n \in 0..n
      BY <2>2
    <3>2. Sums(items, n - 1, part(n - 1)) /\ Sums(items, n, part(n))
      BY <1>1, <3>1
    <3>3. part(n - 1)[n - 1] = part(n)[n - 1]
      <4> DEFINE m == n - 1
                 f == part(m)
                 g == part(n)
                 same == items
      <4>1. /\ m \in Nat /\ m <= n /\ m \in 0..m
            /\ Sums(items, m, f) /\ Sums(same, n, g)
        BY <3>1, <3>2
      <4>2. \A k \in 1..m : items[k] = same[k]
        OBVIOUS
      <4> HIDE DEF m, f, g, same
      <4>3. \A k \in 0..m : f[k] = g[k]
        BY <4>1, <4>2, SumsAgree
      <4>4. f[m] = g[m]
        BY <4>1, <4>3
      <4>5. QED
        BY <4>4 DEF m, f, g
    <3>4. part(n)[n] = part(n)[n - 1] + items[n].size
      BY <2>2, <3>1, <3>2 DEF Sums
    <3>5. QED
      BY <2>2, <3>1, <3>3, <3>4
  <2>3. QED
    BY <2>1, <2>2
<1>3. F = [n \in Nat |-> F[n]]
  OBVIOUS
<1> HIDE DEF F
<1>4. F = [n \in Nat |-> IF n = 0 THEN 0 ELSE F[n - 1] + items[n].size]
  BY <1>2, <1>3
<1>5. QED
  BY <1>4, Zenon DEF SizeFunction

LEMMA SizeIs ==
  ASSUME NEW items
  PROVE  SizeOf(items) = SizeFunction(items)[Len(items)]
BY DEF SizeOf, SizeFunction

LEMMA SizeSums ==
  ASSUME NEW items, NEW n \in Nat
  PROVE  LET f == SizeFunction(items)
         IN  /\ Sums(items, n, [k \in 0..n |-> f[k]])
             /\ f[0] = 0
             /\ \A k \in 1..n : f[k] = f[k - 1] + items[k].size
<1> DEFINE f == SizeFunction(items)
           g == [k \in 0..n |-> f[k]]
<1>1. f = [k \in Nat |-> IF k = 0 THEN 0 ELSE f[k - 1] + items[k].size]
  BY SizeFunctionIs
<1> HIDE DEF f
<1>2. \A k \in Nat : f[k] = IF k = 0 THEN 0 ELSE f[k - 1] + items[k].size
  BY <1>1
<1>3. ASSUME NEW k \in 0..n
      PROVE  g[k] = IF k = 0 THEN 0 ELSE g[k - 1] + items[k].size
  <2>1. k \in Nat /\ (k # 0 => k - 1 \in 0..n)
    OBVIOUS
  <2>2. QED
    BY <1>2, <2>1
<1>4. g = [k \in 0..n |-> g[k]]
  OBVIOUS
<1>5. f[0] = 0 /\ \A k \in 1..n : f[k] = f[k - 1] + items[k].size
  BY <1>2
<1> HIDE DEF g
<1>6. Sums(items, n, g)
  BY <1>3, <1>4 DEF Sums
<1>7. QED
  BY <1>5, <1>6 DEF f, g

LEMMA SizeEmpty == SizeOf(<<>>) = 0
<1>1. SizeOf(<<>>) = SizeFunction(<<>>)[0]
  BY SizeIs
<1>2. QED
  BY <1>1, SizeSums

LEMMA SizeNat ==
  ASSUME NEW items \in Seq(Item)
  PROVE  SizeOf(items) \in Nat
<1> DEFINE n == Len(items)
           f == SizeFunction(items)
           T == {k \in 0..n : f[k] \in Nat}
<1>1. n \in Nat /\ \A k \in 1..n : items[k].size \in Nat
  <2>1. n \in Nat /\ \A k \in 1..n : items[k] \in Item
    BY LenProperties, ElementOfSeq
  <2>2. QED
    BY <2>1 DEF Item
<1>2. f[0] = 0 /\ \A k \in 1..n : f[k] = f[k - 1] + items[k].size
  BY <1>1, SizeSums
<1> HIDE DEF n, f
<1>3. 0 \in T
  BY <1>1, <1>2
<1>4. \A k \in 1..n : k - 1 \in T => k \in T
  BY <1>1, <1>2
<1>5. T \in SUBSET (0..n)
  OBVIOUS
<1>6. T = 0..n
  <2> HIDE DEF T
  <2>1. QED
    BY <1>1, <1>3, <1>4, <1>5, UpTo
<1>7. f[n] \in Nat
  BY <1>1, <1>6
<1>8. QED
  BY <1>7, SizeIs DEF n, f

LEMMA SizeAppend ==
  ASSUME NEW items \in Seq(Item), NEW x \in Item
  PROVE  SizeOf(Append(items, x)) = SizeOf(items) + x.size
<1> DEFINE n == Len(items)
           s == Append(items, x)
           f == SizeFunction(items)
           g == SizeFunction(s)
           F == [k \in 0..n |-> f[k]]
           G == [k \in 0..n + 1 |-> g[k]]
<1>1. /\ n \in Nat /\ n + 1 \in Nat /\ Len(s) = n + 1
      /\ \A k \in 1..n : items[k] = s[k]
      /\ s[n + 1] = x
  BY LenProperties, AppendProperties
<1>2. Sums(items, n, F) /\ Sums(s, n + 1, G)
  <2> HIDE DEF n, s
  <2>1. QED
    BY <1>1, SizeSums
<1>3. g[n + 1] = g[n] + s[n + 1].size
  <2>1. \A k \in 1..n + 1 : g[k] = g[k - 1] + s[k].size
    <3> HIDE DEF n, s
    <3>1. QED
      BY <1>1, SizeSums
  <2> HIDE DEF n, s, g
  <2>2. n + 1 \in 1..n + 1 /\ (n + 1) - 1 = n
    BY <1>1
  <2>3. QED
    BY <2>1, <2>2
<1>4. F[n] = f[n] /\ G[n] = g[n]
  BY <1>1
<1>5. SizeOf(items) = f[n] /\ SizeOf(s) = g[n + 1]
  BY <1>1, SizeIs
<1> HIDE DEF n, s, f, g, F, G
<1>6. \A k \in 0..n : F[k] = G[k]
  <2>1. n <= n + 1
    BY <1>1
  <2>2. QED
    BY <1>1, <1>2, <2>1, SumsAgree
<1>7. SizeOf(s) = SizeOf(items) + x.size
  BY <1>1, <1>3, <1>4, <1>5, <1>6
<1>8. QED
  BY <1>7 DEF s

(***************************************************************************)
(* The headers of the object, of which one may be its body.                *)
(***************************************************************************)
IsBody(kind) == kind \in {"BODY", "STREAM"}
HasEnd(items) == \E i \in 1..Len(items) : items[i].kind = "BODY_END"

(* What is queued was added, and the body only once.                       *)
Known(h, added) ==
  /\ h.no \in 1..Len(added)
  /\ added[h.no].kind = h.kind
  /\ added[h.no].suspend = h.suspend
OneBody ==
  /\ \A i, j \in 1..Len(hist.added) :
       IsBody(hist.added[i].kind) /\ IsBody(hist.added[j].kind) => i = j
  /\ \A i \in 1..Len(tx.headerq) : Known(tx.headerq[i], hist.added)
  /\ \A i, j \in 1..Len(tx.headerq) : tx.headerq[i].no = tx.headerq[j].no => i = j
  /\ hist.short => Streams

Packing == tx.pc \in {"fill", "ask", "copy"}

(* The headers in the packet and what is left fill the room together, with *)
(* the three bytes that are not counted of the last fragment of a body.    *)
Balanced(room, items, left) ==
  /\ left <= room
  /\ ~HasEnd(items) => SizeOf(items) + left = room
  /\ HasEnd(items) => SizeOf(items) + left <= room + 3
  /\ HasEnd(items) /\ items[Len(items)].kind = "BODY_END" => SizeOf(items) <= room

Filled ==
  Packing =>
    /\ HasEnd(tx.items) => \A i \in 1..Len(tx.headerq) : ~IsBody(tx.headerq[i].kind)
    /\ tx.pc = "fill" /\ tx.addmore => tx.left > 0
    /\ ~hist.short =>
         /\ Balanced(RoomInPacket, tx.items, tx.left)
         /\ tx.pc \in {"ask", "copy"} => 3 + Len(tx.frag) + tx.room <= tx.left

LEMMA EndAppended ==
  ASSUME NEW items \in Seq(Item), NEW x \in Item
  PROVE  LET s == Append(items, x)
         IN  /\ HasEnd(s) <=> HasEnd(items) \/ x.kind = "BODY_END"
             /\ s[Len(s)] = x
<1> DEFINE n == Len(items)
           s == Append(items, x)
<1>1. /\ n \in Nat /\ Len(s) = n + 1
      /\ \A k \in 1..n : s[k] = items[k]
      /\ s[n + 1] = x
  BY LenProperties, AppendProperties
<1> HIDE DEF n, s
<1>2. HasEnd(s) <=> \E i \in 1..n + 1 : s[i].kind = "BODY_END"
  BY <1>1 DEF HasEnd
<1>3. HasEnd(items) <=> \E i \in 1..n : items[i].kind = "BODY_END"
  BY DEF HasEnd, n
<1>4. n + 1 \in 1..n + 1 /\ \A i \in 1..n + 1 : i \in 1..n \/ i = n + 1
  BY <1>1
<1>5. 1..n \subseteq 1..n + 1
  BY <1>1
<1>6. QED
  BY <1>1, <1>2, <1>3, <1>4, <1>5 DEF s

(* n is taken off what is left when x goes into the packet.                *)
LEMMA BalancedWith ==
  ASSUME NEW room \in Nat, room <= 65535,
         NEW items \in Seq(Item), NEW left \in Nat, Balanced(room, items, left),
         NEW x \in Item, NEW n \in Nat, n <= left, x.size <= left,
         x.size = n \/ (x.kind = "BODY_END" /\ x.size = n + 3),
         x.kind # "HEADER" => ~HasEnd(items)
  PROVE  Balanced(room, Append(items, x), (left - n) % 65536)
<1> DEFINE s == Append(items, x)
           size == SizeOf(items)
           rest == (left - n) % 65536
<1>1. size \in Nat /\ x.size \in Nat /\ SizeOf(s) = size + x.size
  BY SizeNat, SizeAppend DEF Item
<1>2. left <= room
  BY DEF Balanced
<1>3. rest = left - n
  BY <1>2, Wraps
<1>4. /\ HasEnd(s) <=> HasEnd(items) \/ x.kind = "BODY_END"
      /\ s[Len(s)] = x
  BY EndAppended
<1>5. /\ ~HasEnd(items) => size + left = room
      /\ HasEnd(items) => size + left <= room + 3
  BY DEF Balanced
<1>6. x.kind \in {"HEADER", "BODY", "BODY_END"}
  BY DEF Item
<1> HIDE DEF s, size, rest
<1>7. rest <= room
  BY <1>2, <1>3
<1>8. ~HasEnd(s) => SizeOf(s) + rest = room
  <2> SUFFICES ASSUME ~HasEnd(s) PROVE SizeOf(s) + rest = room
    OBVIOUS
  <2>1. x.size = n /\ size + left = room
    BY <1>4, <1>5
  <2>2. QED
    BY <1>1, <1>3, <2>1
<1>9. HasEnd(s) => SizeOf(s) + rest <= room + 3
  <2>1. CASE HasEnd(items)
    <3>1. x.kind = "HEADER" /\ x.size = n /\ size + left <= room + 3
      BY <1>5, <1>6, <2>1
    <3>2. QED
      BY <1>1, <1>3, <3>1
  <2>2. CASE ~HasEnd(items)
    <3>1. size + left = room
      BY <1>5, <2>2
    <3>2. QED
      BY <1>1, <1>3, <3>1
  <2>3. QED
    BY <2>1, <2>2
<1>10. x.kind = "BODY_END" => SizeOf(s) <= room
  BY <1>1, <1>4, <1>5
<1>11. Balanced(room, s, rest)
  BY <1>4, <1>7, <1>8, <1>9, <1>10 DEF Balanced
<1>12. QED
  BY <1>11 DEF s, rest

LEMMA BalancedEmpty ==
  ASSUME NEW room \in Nat
  PROVE  Balanced(room, <<>>, room) /\ ~HasEnd(<<>>)
BY SizeEmpty DEF Balanced, HasEnd

(***************************************************************************)
(* What the steps do to the headers.                                       *)
(***************************************************************************)

(* The steps that leave the headers of the object as they are.             *)
Passes ==
  \/ Write \/ Resume \/ WriteFails \/ GiveUp \/ SendAbort
  \/ Read \/ Feed \/ ReadFails \/ Misread
  \/ ReceiveHeader \/ PacketHandled \/ Cancel \/ Looks \/ Ended

Rests ==
  /\ env' = env
  /\ tx'.headerq = tx.headerq /\ tx'.items = tx.items
  /\ tx'.totallen = tx.totallen /\ tx'.frag = tx.frag
  /\ tx'.nonhdr = tx.nonhdr
  /\ tx'.s_data = tx.s_data /\ tx'.s_stop = tx.s_stop
  /\ IF Packing THEN tx' = tx ELSE ~Packing'
  /\ tx.pc = "add" => tx' = tx
  /\ tx'.pc = "add" <=> tx.pc = "add"
  /\ tx'.pc = "turn" =>
       tx.pc = "turn" \/ \E j \in 1..Len(link.pkts) : link.pkts[j].op = "NEXT"
  /\ hist'.added = hist.added /\ hist'.short = hist.short
  /\ hist'.fits = hist.fits /\ hist'.given = hist.given
  /\ \A i \in 1..Len(link'.pkts) :
       \/ link'.pkts[i] = AbortPacket
       \/ \E j \in 1..Len(link.pkts) : link'.pkts[i] = link.pkts[j]
  /\ phase' = "overrun" => phase = "overrun"

LEMMA SamePackets ==
  ASSUME link'.pkts = link.pkts
  PROVE  \A i \in 1..Len(link'.pkts) :
           \/ link'.pkts[i] = AbortPacket
           \/ \E j \in 1..Len(link.pkts) : link'.pkts[i] = link.pkts[j]
OBVIOUS

LEMMA SenderRests ==
  ASSUME Carried, Write \/ Resume
  PROVE  Rests
<1>1. tx \in Sender /\ link \in Links /\ UNCHANGED <<env, rx, hist, phase>>
  BY Typed DEF Carried, Write, Resume
<1>2. CASE Write
  <2>1. PICK n :
        /\ tx' = [tx EXCEPT !.unsent = @ - n,
                            !.pc = IF n = tx.unsent THEN "wait" ELSE @]
        /\ link' = [link EXCEPT !.written = @ + n]
    BY <1>2 DEF Write
  <2>2. tx.pc = "write"
    BY <1>2 DEF Write
  <2>3. link'.pkts = link.pkts
    BY <1>1, <2>1 DEF Links
  <2>4. /\ tx'.headerq = tx.headerq /\ tx'.items = tx.items
        /\ tx'.totallen = tx.totallen /\ tx'.frag = tx.frag
        /\ tx'.nonhdr = tx.nonhdr
        /\ tx'.s_data = tx.s_data /\ tx'.s_stop = tx.s_stop
        /\ tx'.pc \in {"write", "wait"}
    BY <1>1, <2>1, <2>2 DEF Sender
  <2>5. QED
    BY <1>1, <2>2, <2>3, <2>4, SamePackets DEF Rests, Packing
<1>3. CASE Resume
  <2>1. /\ tx.pc \in {"turn", "wait"} /\ link' = link
        /\ tx' = [tx EXCEPT !.suspend = FALSE]
    BY <1>3 DEF Resume
  <2>2. /\ tx'.headerq = tx.headerq /\ tx'.items = tx.items
        /\ tx'.totallen = tx.totallen /\ tx'.frag = tx.frag
        /\ tx'.nonhdr = tx.nonhdr
        /\ tx'.s_data = tx.s_data /\ tx'.s_stop = tx.s_stop
        /\ tx'.pc = tx.pc
    BY <1>1, <2>1 DEF Sender
  <2>3. QED
    BY <1>1, <2>1, <2>2, SamePackets DEF Rests, Packing
<1>4. QED
  BY <1>2, <1>3

LEMMA AbortRests ==
  ASSUME Carried, SendAbort
  PROVE  Rests
<1>1. tx \in Sender /\ link \in Links /\ hist \in Histories
  BY Typed DEF Carried
<1>2. /\ phase = "open" /\ tx.pc \in {"turn", "wait"}
      /\ hist' = [hist EXCEPT !.faults = @ + 1, !.aborting = TRUE]
      /\ tx' = [tx EXCEPT !.pc = "wait"]
      /\ link' = [link EXCEPT !.written = @ + COMMON,
                              !.pkts = Append(@, AbortPacket)]
      /\ UNCHANGED <<env, rx, phase>>
  BY DEF SendAbort, AbortPacket
<1>3. /\ tx'.headerq = tx.headerq /\ tx'.items = tx.items
      /\ tx'.totallen = tx.totallen /\ tx'.frag = tx.frag
      /\ tx'.nonhdr = tx.nonhdr
      /\ tx'.s_data = tx.s_data /\ tx'.s_stop = tx.s_stop
      /\ tx'.pc = "wait"
  BY <1>1, <1>2 DEF Sender
<1>4. /\ hist'.added = hist.added /\ hist'.short = hist.short
      /\ hist'.fits = hist.fits /\ hist'.given = hist.given
  BY <1>1, <1>2 DEF Histories
<1>5. AbortPacket \in Packet
  BY Sizes, EmptySeq DEF AbortPacket, Packet
<1> HIDE DEF AbortPacket
<1>6. link'.pkts = Append(link.pkts, AbortPacket) /\ link.pkts \in Seq(Packet)
  BY <1>1, <1>2 DEF Links
<1>7. \A i \in 1..Len(link'.pkts) :
        \/ link'.pkts[i] = AbortPacket
        \/ \E j \in 1..Len(link.pkts) : link'.pkts[i] = link.pkts[j]
  <2> DEFINE n == Len(link.pkts)
             s == Append(link.pkts, AbortPacket)
  <2>1. /\ n \in Nat /\ Len(s) = n + 1 /\ s[n + 1] = AbortPacket
        /\ \A i \in 1..n : s[i] = link.pkts[i]
    BY <1>5, <1>6, AppendProperties, LenProperties
  <2>2. link'.pkts = s
    BY <1>6
  <2> HIDE DEF s
  <2>3. \A i \in 1..n + 1 : i \in 1..n \/ i = n + 1
    BY <2>1
  <2> HIDE DEF n
  <2>4. \A i \in 1..Len(s) : s[i] = AbortPacket \/ \E j \in 1..n : s[i] = link.pkts[j]
    BY <2>1, <2>3
  <2>5. QED
    BY <2>2, <2>4 DEF n
<1>8. QED
  BY <1>2, <1>3, <1>4, <1>7 DEF Rests, Packing

LEMMA HandledRests ==
  ASSUME Carried, PacketHandled
  PROVE  Rests
<1>1. /\ tx.pc = "wait" /\ link.pkts # <<>> /\ UNCHANGED <<env, hist>>
      /\ link'.pkts = Tail(link.pkts)
      /\ tx'.items = tx.items /\ tx'.headerq = tx.headerq
      /\ tx'.s_data = tx.s_data /\ tx'.s_stop = tx.s_stop
  BY HandledIs
<1>2. /\ tx'.pc = IF link.pkts[1].op = "NEXT" /\ ~hist.aborting THEN "turn" ELSE "wait"
      /\ phase' = IF link.pkts[1].op = "ABORT" \/ rx.abort THEN "aborted"
                  ELSE IF link.pkts[1].op = "LAST" THEN "done" ELSE "open"
  BY HandledIs
<1>3. tx'.totallen = tx.totallen /\ tx'.frag = tx.frag /\ tx'.nonhdr = tx.nonhdr
  <2>1. tx \in Sender
    BY Typed DEF Carried
  <2>2. \E pc : tx' = [tx EXCEPT !.pc = pc]
    BY DEF PacketHandled
  <2>3. QED
    BY <2>1, <2>2 DEF Sender
<1>4. link.pkts \in Seq(Packet)
  BY Typed DEF Carried, Links
<1> DEFINE n == Len(link.pkts)
<1>5. /\ n \in Nat /\ n > 0 /\ Len(Tail(link.pkts)) = n - 1
      /\ \A i \in 1..n - 1 : Tail(link.pkts)[i] = link.pkts[i + 1]
  <2>1. n \in Nat /\ n # 0
    BY <1>1, <1>4, EmptySeq
  <2>2. QED
    BY <1>1, <1>4, <2>1, HeadTailProperties
<1>6. \A i \in 1..Len(link'.pkts) :
        \/ link'.pkts[i] = AbortPacket
        \/ \E j \in 1..Len(link.pkts) : link'.pkts[i] = link.pkts[j]
  <2> SUFFICES ASSUME NEW i \in 1..n - 1
               PROVE  \E j \in 1..n : Tail(link.pkts)[i] = link.pkts[j]
    BY <1>1, <1>5
  <2>1. i + 1 \in 1..n
    BY <1>5
  <2>2. QED
    BY <1>5, <2>1
<1>7. tx'.pc = "turn" => \E j \in 1..n : link.pkts[j].op = "NEXT"
  <2>1. 1 \in 1..n
    BY <1>5
  <2>2. QED
    BY <1>2, <2>1
<1>8. tx'.pc \in {"turn", "wait"} /\ phase' # "overrun"
  BY <1>2
<1>9. QED
  BY <1>1, <1>3, <1>6, <1>7, <1>8 DEF Rests, Packing

(* The receiver's own steps.                                               *)
LEMMA ReceiverRests ==
  ASSUME Carried,
         \/ Read \/ Feed \/ ReadFails \/ Misread \/ ReceiveHeader \/ Cancel
         \/ WriteFails \/ GiveUp \/ Looks \/ Ended
  PROVE  Rests
<1>1. tx \in Sender /\ link \in Links /\ hist \in Histories
  BY Typed DEF Carried
<1> DEFINE Same ==
             /\ env' = env /\ tx' = tx /\ link'.pkts = link.pkts
             /\ hist'.added = hist.added /\ hist'.short = hist.short
             /\ hist'.fits = hist.fits /\ hist'.given = hist.given
             /\ phase' = "overrun" => phase = "overrun"
<1>2. ASSUME Read \/ Feed PROVE Same
  <2>1. /\ env' = env /\ tx' = tx /\ phase' = phase
        /\ \E n : link' = [link EXCEPT !.taken = @ + n]
    BY <1>2 DEF Read, Feed, Taken
  <2>2. link'.pkts = link.pkts
    BY <1>1, <2>1 DEF Links
  <2>3. hist' = hist \/ \E b : hist' = [hist EXCEPT !.overfed = b]
    BY <1>2 DEF Read, Feed
  <2>4. QED
    BY <1>1, <2>1, <2>2, <2>3 DEF Histories
<1>3. ASSUME ReadFails \/ Misread \/ Cancel \/ WriteFails \/ GiveUp \/ Looks \/ Ended
      PROVE  Same
  BY <1>1, <1>3 DEF ReadFails, Misread, Cancel, WriteFails, GiveUp, Looks, Ended, vars,
     GetNextHeader, ReparseHeaders, Histories
<1>4. ASSUME ReceiveHeader PROVE Same
  <2> DEFINE item == Head(rx.todo)
             streamed == hist.streamed \o item.data
             eos == hist.eos + EndsStream(item)
             dropped == Len(Received) + 1
             faults == hist.faults + 1
  <2>1. env' = env /\ tx' = tx /\ link' = link
    BY <1>4 DEF ReceiveHeader, Receive, ReceiveFails
  <2>2. phase' = phase \/ phase' = "refused"
    BY <1>4 DEF ReceiveHeader, Receive, ReceiveFails
  <2>3. \/ hist' = hist
        \/ hist' = [hist EXCEPT !.streamed = streamed, !.eos = eos]
        \/ hist' = [hist EXCEPT !.faults = faults, !.dropped = dropped]
        \/ hist' = [hist EXCEPT !.faults = faults]
    BY <1>4, Zenon DEF ReceiveHeader, Receive, ReceiveFails
  <2> HIDE DEF streamed, eos, dropped, faults
  <2>4. /\ hist'.added = hist.added /\ hist'.short = hist.short
        /\ hist'.fits = hist.fits /\ hist'.given = hist.given
    BY <1>1, <2>3 DEF Histories
  <2>5. QED
    BY <2>1, <2>2, <2>4
<1>5. Same
  BY <1>2, <1>3, <1>4
<1>6. QED
  BY <1>5, SamePackets DEF Rests, Packing

LEMMA PassesRest ==
  ASSUME Carried, Passes
  PROVE  Rests
BY SenderRests, AbortRests, HandledRests, ReceiverRests DEF Passes

(* The queue loses its first header or the data of it, or nothing.         *)
LEMMA OneBodyOf ==
  ASSUME TypeOK, OneBody, hist'.added = hist.added,
         hist'.short => hist.short \/ Streams,
         NEW shift \in {0, 1}, Len(tx'.headerq) = Len(tx.headerq) - shift,
         \A i \in 1..Len(tx'.headerq) :
           /\ tx'.headerq[i].no = tx.headerq[i + shift].no
           /\ tx'.headerq[i].kind = tx.headerq[i + shift].kind
           /\ tx'.headerq[i].suspend = tx.headerq[i + shift].suspend
  PROVE  OneBody'
<1> DEFINE n == Len(tx.headerq)
           m == Len(tx'.headerq)
<1>1. n \in Nat
  BY LenProperties DEF TypeOK, Sender
<1>2. m = n - shift
  OBVIOUS
<1> HIDE DEF n, m
<1>3. \A i \in 1..m : i + shift \in 1..n
  BY <1>1, <1>2
<1>4. \A i \in 1..m : Known(tx'.headerq[i], hist'.added)
  <2> SUFFICES ASSUME NEW i \in 1..m PROVE Known(tx'.headerq[i], hist'.added)
    OBVIOUS
  <2>1. Known(tx.headerq[i + shift], hist.added)
    BY <1>3 DEF OneBody, n
  <2>2. QED
    BY <2>1 DEF Known, m
<1>5. \A i, j \in 1..m : tx'.headerq[i].no = tx'.headerq[j].no => i = j
  <2> SUFFICES ASSUME NEW i \in 1..m, NEW j \in 1..m,
                      tx'.headerq[i].no = tx'.headerq[j].no
               PROVE  i = j
    OBVIOUS
  <2>1. tx.headerq[i + shift].no = tx.headerq[j + shift].no
    BY DEF m
  <2>2. i + shift = j + shift
    BY <1>3, <2>1 DEF OneBody, n
  <2>3. QED
    BY <1>1, <1>2, <2>2
<1>6. (hist'.short => Streams')
        /\ \A i, j \in 1..Len(hist'.added) :
             IsBody(hist'.added[i].kind) /\ IsBody(hist'.added[j].kind) => i = j
  BY DEF OneBody, Streams
<1>7. QED
  BY <1>4, <1>5, <1>6 DEF OneBody, m

LEMMA OneBodyAdded ==
  ASSUME TypeOK, OneBody, AddHeaders
  PROVE  OneBody'
<1>1. PICK h \in Element, fit \in BOOLEAN : Adds(h, fit)
  BY AddIs
<1> DEFINE n == Len(tx.headerq)
           m == Len(hist.added)
           added == Append(hist.added, h)
           q == Append(tx.headerq, h)
<1>2. tx \in Sender /\ tx.headerq \in Seq(Element) /\ hist.added \in Seq(Element)
  BY DEF TypeOK, Sender
<1>3. /\ n \in Nat /\ Len(q) = n + 1 /\ q[n + 1] = h
      /\ \A i \in 1..n : q[i] = tx.headerq[i]
  BY <1>2, LenProperties, AppendProperties
<1>4. /\ m \in Nat /\ Len(added) = m + 1 /\ added[m + 1] = h
      /\ \A i \in 1..m : added[i] = hist.added[i]
  BY <1>2, LenProperties, AppendProperties
<1>5. tx'.headerq = q /\ hist'.added = added /\ hist'.short = hist.short
  <2>1. tx' = [tx EXCEPT !.headerq = Append(tx.headerq, h),
                         !.totallen = tx.totallen + h.length]
    BY <1>1 DEF Adds
  <2>2. tx'.headerq = q
    BY <1>2, <2>1 DEF Sender
  <2>3. QED
    BY <1>1, <2>2 DEF Adds
<1>6. /\ h.no = m + 1
      /\ IsBody(h.kind) => \A i \in 1..m : ~IsBody(hist.added[i].kind)
  BY <1>1 DEF Adds, IsBody
<1> HIDE DEF n, m, added, q
<1>7. \A i \in 1..m + 1 : i \in 1..m \/ i = m + 1
  BY <1>4
<1>8. \A i \in 1..n + 1 : i \in 1..n \/ i = n + 1
  BY <1>3
<1>9. /\ \A i, j \in 1..m : IsBody(hist.added[i].kind) /\ IsBody(hist.added[j].kind) => i = j
      /\ \A i \in 1..n : Known(tx.headerq[i], hist.added)
      /\ \A i, j \in 1..n : tx.headerq[i].no = tx.headerq[j].no => i = j
      /\ hist.short => Streams
  BY DEF OneBody, n, m
<1>10. \A i, j \in 1..m + 1 : IsBody(added[i].kind) /\ IsBody(added[j].kind) => i = j
  BY <1>4, <1>6, <1>7, <1>9
<1>11. \A i \in 1..n : q[i].no \in 1..m
  BY <1>3, <1>9 DEF Known, m
<1>12. \A i, j \in 1..n + 1 : q[i].no = q[j].no => i = j
  <2>1. \A i \in 1..n : q[i].no # m + 1
    BY <1>4, <1>11
  <2>2. QED
    BY <1>3, <1>6, <1>8, <1>9, <2>1
<1>13. \A i \in 1..n + 1 : Known(q[i], added)
  <2> SUFFICES ASSUME NEW i \in 1..n + 1
               PROVE  /\ q[i].no \in 1..m + 1
                      /\ added[q[i].no].kind = q[i].kind
                      /\ added[q[i].no].suspend = q[i].suspend
    BY <1>4 DEF Known
  <2>1. CASE i = n + 1
    BY <1>3, <1>4, <1>6, <2>1
  <2>2. CASE i \in 1..n
    <3>1. /\ q[i].no \in 1..m
          /\ hist.added[q[i].no].kind = q[i].kind
          /\ hist.added[q[i].no].suspend = q[i].suspend
      BY <1>3, <1>9, <2>2 DEF Known, m
    <3>2. QED
      BY <1>4, <3>1
  <2>3. QED
    BY <1>8, <2>1, <2>2
<1>14. hist'.short => Streams'
  <2> SUFFICES ASSUME NEW i \in 1..m, hist.added[i].kind = "STREAM"
               PROVE  \E j \in 1..m + 1 : added[j].kind = "STREAM"
    BY <1>4, <1>5, <1>9 DEF Streams, m
  <2>1. i \in 1..m + 1
    BY <1>4
  <2>2. QED
    BY <1>4, <2>1
<1>15. QED
  BY <1>3, <1>4, <1>5, <1>10, <1>12, <1>13, <1>14 DEF OneBody

(* No packet has more headers than there was room for.                     *)
RoomFor(p, limit) ==
  LET ended == \E j \in 1..Len(p.items) - 1 : p.items[j].kind = "BODY_END"
  IN  COMMON + SizeOf(p.items) <= limit + (IF ended THEN SEQHDR ELSE 0)
Overrun == phase = "overrun" => Limit - COMMON - SizeOf(tx.items) \in 1..2

RoomKept ==
  /\ ~hist.short => \A i \in 1..Len(link.pkts) : RoomFor(link.pkts[i], Limit)
  /\ Overrun

Packs == OneBody /\ Filled /\ RoomKept

LEMMA SameLimit == env' = env => Limit' = Limit /\ RoomInPacket' = RoomInPacket
BY DEF Limit, RoomInPacket

LEMMA LimitIs == Limit \in Nat /\ Limit >= 4
<1>1. CASE ~(env.trans = "IRDA" /\ MtuTx > LinkMtu)
  BY <1>1, Mtu DEF Limit
<1>2. CASE env.trans = "IRDA" /\ MtuTx > LinkMtu
  <2>1. MtuTx \div LinkMtu \in Nat
    BY Mtu, Quotient
  <2>2. (MtuTx \div LinkMtu) * LinkMtu \in Int
    BY Mtu, <2>1
  <2>3. Limit = (MtuTx \div LinkMtu) * LinkMtu
    BY <1>2 DEF Limit
  <2>4. QED
    BY <2>2, <2>3, Room
<1>3. QED
  BY <1>1, <1>2

LEMMA AbortFits == RoomFor(AbortPacket, Limit)
<1>1. AbortPacket.items = <<>>
  BY DEF AbortPacket
<1>2. Limit \in Int /\ Limit >= 4
  BY LimitIs
<1>3. COMMON + SizeOf(<<>>) <= Limit + (IF FALSE THEN SEQHDR ELSE 0)
  BY <1>2, Sizes, SizeEmpty
<1>4. ~ \E j \in 1..Len(<<>>) - 1 : <<>>[j].kind = "BODY_END"
  OBVIOUS
<1>5. QED
  BY <1>1, <1>3, <1>4 DEF RoomFor

LEMMA RestPacks ==
  ASSUME Carried, Packs, Rests, phase = "overrun" => tx'.items = tx.items
  PROVE  Packs'
<1>1. OneBody'
  <2>1. TypeOK /\ OneBody /\ hist'.added = hist.added /\ tx'.headerq = tx.headerq
        /\ (hist'.short => hist.short \/ Streams)
    BY DEF Carried, Packs, Rests
  <2>2. Len(tx.headerq) \in Nat
    BY <2>1, LenProperties DEF TypeOK, Sender
  <2>3. \A i \in 1..Len(tx.headerq) : i + 0 = i
    BY <2>2
  <2>4. 0 \in {0, 1} /\ Len(tx'.headerq) = Len(tx.headerq) - 0
    BY <2>1, <2>2
  <2>5. QED
    BY <2>1, <2>3, <2>4, OneBodyOf
<1>2. Filled'
  BY SameLimit DEF Packs, Filled, Rests, Packing
<1>3. Limit' = Limit
  BY SameLimit DEF Rests
<1>4. Overrun'
  BY SameLimit DEF Rests, Packs, RoomKept, Overrun
<1>5. ~hist'.short => \A i \in 1..Len(link'.pkts) : RoomFor(link'.pkts[i], Limit')
  <2> SUFFICES ASSUME ~hist.short, NEW i \in 1..Len(link'.pkts)
               PROVE  RoomFor(link'.pkts[i], Limit)
    BY <1>3 DEF Rests
  <2>1. \A j \in 1..Len(link.pkts) : RoomFor(link.pkts[j], Limit)
    BY DEF Packs, RoomKept
  <2>2. QED
    BY <2>1, AbortFits DEF Rests
<1>6. RoomKept'
  BY <1>4, <1>5 DEF RoomKept
<1>7. QED
  BY <1>1, <1>2, <1>6 DEF Packs

LEMMA AddPacks ==
  ASSUME Carried, Packs, AddHeaders
  PROVE  Packs'
<1>1. PICK h \in Element, fit \in BOOLEAN : Adds(h, fit)
  BY AddIs DEF Carried
<1>2. OneBody'
  BY OneBodyAdded DEF Carried, Packs
<1>3. /\ tx.pc = "add" /\ phase = "open" /\ UNCHANGED <<env, link, rx, phase>>
      /\ tx'.pc = "add" /\ hist'.short = hist.short
  <2>1. /\ tx' = [tx EXCEPT !.headerq = Append(tx.headerq, h),
                            !.totallen = tx.totallen + h.length]
        /\ tx.pc = "add" /\ phase = "open" /\ UNCHANGED <<env, link, rx, phase>>
        /\ hist'.short = hist.short
    BY <1>1 DEF Adds
  <2>2. QED
    BY <2>1 DEF Carried, TypeOK, Sender
<1>4. Filled'
  BY <1>3 DEF Filled, Packing
<1>5. RoomKept'
  BY <1>3, SameLimit DEF Packs, RoomKept, Overrun
<1>6. QED
  BY <1>2, <1>4, <1>5 DEF Packs

(* The queue and what was added stay.                                      *)
LEMMA OneBodyStays ==
  ASSUME TypeOK, OneBody, tx'.headerq = tx.headerq, hist'.added = hist.added,
         hist'.short => hist.short \/ Streams
  PROVE  OneBody'
<1>1. Len(tx.headerq) \in Nat
  BY LenProperties DEF TypeOK, Sender
<1>2. \A i \in 1..Len(tx.headerq) : i + 0 = i
  BY <1>1
<1>3. 0 \in {0, 1} /\ Len(tx'.headerq) = Len(tx.headerq) - 0
  BY <1>1
<1>4. QED
  BY <1>2, <1>3, OneBodyOf

LEMMA SendPacks ==
  ASSUME Carried, Packs, Send
  PROVE  Packs'
<1>1. /\ phase = "open" /\ tx' = Begin(tx) /\ UNCHANGED <<env, link, rx, hist, phase>>
  BY DEF Send
<1>2. RoomInPacket \in Nat /\ RoomInPacket > 0 /\ tx \in Sender
  BY Room DEF Carried, TypeOK
<1>3. /\ tx'.pc = "fill" /\ tx'.headerq = tx.headerq /\ tx'.items = <<>>
      /\ tx'.left = RoomInPacket
  BY <1>1, <1>2 DEF Begin, Sender
<1>4. OneBody'
  BY <1>1, <1>3, OneBodyStays DEF Carried, Packs
<1>5. Filled'
  <2>1. Balanced(RoomInPacket, <<>>, RoomInPacket) /\ ~HasEnd(<<>>)
    BY <1>2, BalancedEmpty
  <2>2. RoomInPacket' = RoomInPacket
    BY <1>1, SameLimit
  <2>3. Packing' /\ ~HasEnd(tx'.items) /\ tx'.left > 0 /\ tx'.pc \notin {"ask", "copy"}
    BY <1>2, <1>3, <2>1 DEF Packing
  <2>4. Balanced(RoomInPacket, tx'.items, tx'.left)
    BY <1>3, <2>1
  <2>5. QED
    BY <2>2, <2>3, <2>4 DEF Filled
<1>6. RoomKept'
  BY <1>1, SameLimit DEF Packs, RoomKept, Overrun
<1>7. QED
  BY <1>4, <1>5, <1>6 DEF Packs

LEMMA FinishPacks ==
  ASSUME Carried, Packs, FinishPacket
  PROVE  Packs'
<1>1. /\ phase = "open" /\ phase' = phase /\ tx.pc = "fill"
      /\ UNCHANGED <<env, rx, hist>>
      /\ tx'.pc = "write" /\ tx'.headerq = tx.headerq
      /\ link'.pkts = <<Finished>>
  BY FinishIs
<1>2. OneBody'
  BY <1>1, OneBodyStays DEF Carried, Packs
<1>3. Filled'
  BY <1>1 DEF Filled, Packing
<1>4. ASSUME ~hist.short PROVE RoomFor(Finished, Limit)
  <2> DEFINE items == tx.items
             n == Len(items)
             size == SizeOf(items)
             ended == \E j \in 1..n - 1 : items[j].kind = "BODY_END"
  <2>1. items \in Seq(Item) /\ tx.left \in Nat /\ n \in Nat /\ size \in Nat
    BY LenProperties, SizeNat DEF Carried, TypeOK, Sender
  <2>2. Balanced(RoomInPacket, items, tx.left)
    BY <1>1, <1>4 DEF Packs, Filled, Packing
  <2>3. RoomInPacket = Limit - 3 /\ RoomInPacket \in Nat /\ Limit \in Nat
    BY Room, LimitIs
  <2>4. Finished.items = items
    BY DEF Finished
  <2> HIDE DEF items
  <2>5. /\ ~HasEnd(items) => size + tx.left = RoomInPacket
        /\ HasEnd(items) => size + tx.left <= RoomInPacket + 3
        /\ HasEnd(items) /\ items[n].kind = "BODY_END" => size <= RoomInPacket
    BY <2>2 DEF Balanced
  <2>6. HasEnd(items) /\ items[n].kind # "BODY_END" => ended
    <3> SUFFICES ASSUME NEW i \in 1..n, items[i].kind = "BODY_END",
                        items[n].kind # "BODY_END"
                 PROVE  i \in 1..n - 1
      BY DEF HasEnd
    <3>1. QED
      BY <2>1
  <2> HIDE DEF n, size
  <2>7. size <= RoomInPacket + (IF ended THEN 3 ELSE 0)
    <3> HIDE DEF ended
    <3>1. QED
      BY <2>1, <2>3, <2>5, <2>6
  <2>8. COMMON + size <= Limit + (IF ended THEN SEQHDR ELSE 0)
    <3> HIDE DEF ended
    <3>1. QED
      BY <2>1, <2>3, <2>7, Sizes
  <2>9. QED
    BY <2>4, <2>8 DEF RoomFor, n, size
<1>5. Limit' = Limit
  BY <1>1, SameLimit
<1>6. \A i \in 1..Len(link'.pkts) : link'.pkts[i] = Finished
  <2> HIDE DEF Finished
  <2>1. QED
    BY <1>1
<1>7. ~hist'.short => \A i \in 1..Len(link'.pkts) : RoomFor(link'.pkts[i], Limit')
  BY <1>1, <1>4, <1>5, <1>6
<1>8. Overrun'
  BY <1>1 DEF Overrun
<1>9. RoomKept'
  BY <1>7, <1>8 DEF RoomKept
<1>10. QED
  BY <1>2, <1>3, <1>9 DEF Packs

(* There is at most one body in the queue.                                 *)
LEMMA OneQueued ==
  ASSUME OneBody, NEW i \in 1..Len(tx.headerq), NEW j \in 1..Len(tx.headerq),
         IsBody(tx.headerq[i].kind), IsBody(tx.headerq[j].kind)
  PROVE  i = j
<1>1. Known(tx.headerq[i], hist.added) /\ Known(tx.headerq[j], hist.added)
  BY DEF OneBody
<1>2. tx.headerq[i].no = tx.headerq[j].no
  BY <1>1 DEF OneBody, Known
<1>3. QED
  BY <1>2 DEF OneBody

(* Item x goes into the packet; of the queue q is left, without its first  *)
(* header when shift is 1.                                                 *)
LEMMA PutPacks ==
  ASSUME Carried, Packs, Packing, phase = "open", phase' = "open",
         env' = env, link' = link,
         hist'.added = hist.added, hist'.short = hist.short,
         NEW t \in Sender, t.items = tx.items, t.left = tx.left,
         NEW x \in Item, NEW q \in Seq(Element), NEW n \in Nat,
         tx' = AfterItem(t, x, q, n),
         tx.headerq # <<>>, NEW shift \in {0, 1}, Len(q) = Len(tx.headerq) - shift,
         \A i \in 1..Len(q) :
           /\ q[i].no = tx.headerq[i + shift].no
           /\ q[i].kind = tx.headerq[i + shift].kind
           /\ q[i].suspend = tx.headerq[i + shift].suspend,
         x.kind # "HEADER" => IsBody(First.kind),
         x.kind = "BODY_END" => shift = 1,
         ~hist.short => /\ n <= tx.left /\ x.size <= tx.left
                        /\ x.size = n \/ (x.kind = "BODY_END" /\ x.size = n + 3)
  PROVE  Packs'
<1>1. /\ tx'.pc = "fill" /\ tx'.items = Append(tx.items, x) /\ tx'.headerq = q
      /\ tx'.left = (tx.left - n) % 65536 /\ (tx'.addmore => tx'.left # 0)
      /\ tx' \in Sender
  <2>1. Follows(tx', t, x, q, n)
    BY AfterItemIs
  <2>2. QED
    BY <2>1 DEF Follows
<1>2. tx \in Sender /\ tx.items \in Seq(Item) /\ tx.left \in Nat
      /\ Len(tx.headerq) \in Nat \ {0}
  BY Queue DEF Carried, TypeOK, Sender
<1>3. OneBody'
  BY <1>1, OneBodyOf DEF Carried, Packs
<1>4. HasEnd(tx.items) => \A i \in 1..Len(tx.headerq) : ~IsBody(tx.headerq[i].kind)
  BY DEF Packs, Filled
<1>5. x.kind # "HEADER" => ~HasEnd(tx.items)
  <2>1. 1 \in 1..Len(tx.headerq)
    BY <1>2
  <2>2. QED
    BY <1>4, <2>1 DEF First
<1>6. HasEnd(tx'.items) => \A i \in 1..Len(tx'.headerq) : ~IsBody(tx'.headerq[i].kind)
  <2> SUFFICES ASSUME HasEnd(tx'.items), NEW i \in 1..Len(q), IsBody(q[i].kind)
               PROVE  FALSE
    BY <1>1
  <2>1. i + shift \in 1..Len(tx.headerq) /\ IsBody(tx.headerq[i + shift].kind)
    BY <1>2
  <2>2. ~HasEnd(tx.items)
    BY <1>4, <2>1
  <2>3. x.kind = "BODY_END"
    BY <1>1, <1>2, <2>2, EndAppended
  <2>4. shift = 1 /\ IsBody(tx.headerq[1].kind) /\ 1 \in 1..Len(tx.headerq)
    BY <1>2, <2>3 DEF First
  <2>5. i + shift = 1
    BY <2>1, <2>4, OneQueued DEF Packs
  <2>6. QED
    BY <1>2, <2>4, <2>5
<1>7. ~hist'.short => Balanced(RoomInPacket', tx'.items, tx'.left)
  <2> SUFFICES ASSUME ~hist.short
               PROVE  Balanced(RoomInPacket, Append(tx.items, x), (tx.left - n) % 65536)
    BY <1>1, SameLimit
  <2>1. Balanced(RoomInPacket, tx.items, tx.left)
    BY DEF Packs, Filled
  <2>2. RoomInPacket \in Nat /\ RoomInPacket <= 65535
    BY Room
  <2>3. QED
    BY <1>2, <1>5, <2>1, <2>2, BalancedWith
<1>8. tx'.addmore => tx'.left > 0
  <2>1. tx'.left \in Nat
    BY <1>1 DEF Sender
  <2>2. QED
    BY <1>1, <2>1
<1>9. Filled'
  BY <1>1, <1>6, <1>7, <1>8 DEF Filled, Packing
<1>10. RoomKept'
  BY SameLimit DEF Packs, RoomKept, Overrun
<1>11. QED
  BY <1>3, <1>9, <1>10 DEF Packs

(* Only the body in the queue is filled where it is not a header.          *)
LEMMA FillPacks ==
  ASSUME Carried, Packs, FillHeader
  PROVE  Packs'
<1>1. /\ phase = "open" /\ tx.pc = "fill" /\ tx.addmore /\ tx.headerq # <<>>
      /\ env' = env /\ link' = link /\ rx' = rx
      /\ \/ \E f, r \in Seq(Nat) : Cuts(f, r)
         \/ EndsBody \/ Overruns \/ Skips \/ PutsHeader \/ Stops \/ BeginsStream
  BY FillIs DEF Carried
<1>2. /\ tx \in Sender /\ First \in Element /\ Len(tx.headerq) \in Nat \ {0}
      /\ tx.headerq \in Seq(Element) /\ Tail(tx.headerq) \in Seq(Element)
      /\ Len(Tail(tx.headerq)) = Len(tx.headerq) - 1
      /\ \A i \in 1..Len(tx.headerq) - 1 : Tail(tx.headerq)[i] = tx.headerq[i + 1]
      /\ 1 \in 1..Len(tx.headerq)
  BY <1>1, Queue, SMTT(20) DEF Carried, TypeOK, First
<1>3. /\ Filler \in Sender /\ Filler.items = tx.items /\ Filler.left = tx.left
      /\ Filler.headerq = tx.headerq
  BY <1>2, FlaggedIs DEF Filler
<1>4. Packing /\ tx.left \in Nat
  BY <1>1, <1>2 DEF Packing, Sender
<1>5. /\ Len(Tail(tx.headerq)) = Len(tx.headerq) - 1
      /\ \A i \in 1..Len(Tail(tx.headerq)) :
           /\ Tail(tx.headerq)[i].no = tx.headerq[i + 1].no
           /\ Tail(tx.headerq)[i].kind = tx.headerq[i + 1].kind
           /\ Tail(tx.headerq)[i].suspend = tx.headerq[i + 1].suspend
  BY <1>2
<1>6. ASSUME NEW f \in Seq(Nat), NEW r \in Seq(Nat), Cuts(f, r)
      PROVE  Packs'
  <2> DEFINE q == [tx.headerq EXCEPT ![1].data = r]
             x == ItemOf(First, "BODY", f)
             n == tx.left
  <2>1. /\ q \in Seq(Element) /\ Len(q) = Len(tx.headerq)
        /\ \A i \in 1..Len(tx.headerq) :
             /\ q[i].no = tx.headerq[i].no /\ q[i].kind = tx.headerq[i].kind
             /\ q[i].suspend = tx.headerq[i].suspend
    BY <1>1, <1>2, <1>6, CutIs
  <2>2. /\ First.kind = "BODY" /\ tx.left >= 3 /\ Len(f) = tx.left - 3
        /\ x \in Item /\ tx' = AfterItem(Filler, x, q, n)
        /\ phase' = phase /\ hist' = hist
    BY <1>6 DEF Cuts
  <2>3. x.kind = "BODY" /\ x.size = 3 + Len(f)
    BY <1>2, ItemOfIs
  <2>4. n \in Nat /\ x.size = n /\ n <= tx.left
    BY <1>4, <2>2, <2>3
  <2> HIDE DEF q, x, n
  <2>5. \A i \in 1..Len(q) :
          /\ q[i].no = tx.headerq[i + 0].no /\ q[i].kind = tx.headerq[i + 0].kind
          /\ q[i].suspend = tx.headerq[i + 0].suspend
    BY <1>2, <2>1
  <2>6. 0 \in {0, 1} /\ Len(q) = Len(tx.headerq) - 0
    BY <1>2, <2>1
  <2>7. IsBody(First.kind) /\ x.kind # "BODY_END" /\ x.size <= tx.left
    BY <2>2, <2>3, <2>4 DEF IsBody
  <2>8. hist'.added = hist.added /\ hist'.short = hist.short /\ phase' = "open"
    BY <1>1, <2>2
  <2>9. QED
    BY <1>1, <1>3, <1>4, <2>1, <2>2, <2>4, <2>5, <2>6, <2>7, <2>8, PutPacks
<1>7. CASE EndsBody
  <2> DEFINE q == Tail(tx.headerq)
             x == ItemOf(First, "BODY_END", First.data)
             n == Len(First.data)
  <2>1. First.data \in Seq(Nat) /\ n \in Nat
    BY <1>2, LenProperties DEF Element
  <2>2. /\ First.kind = "BODY" /\ tx.left >= n + 3
        /\ x \in Item /\ tx' = AfterItem(Filler, x, q, n)
        /\ phase' = phase /\ hist' = hist
    BY <1>7 DEF EndsBody
  <2>3. x.kind = "BODY_END" /\ x.size = 3 + n
    BY <1>2, <2>1, ItemOfIs
  <2> HIDE DEF x, n
  <2>4. /\ n <= tx.left /\ x.size <= tx.left /\ x.size = n + 3
    BY <1>4, <2>1, <2>2, <2>3
  <2>5. IsBody(First.kind) /\ 1 \in {0, 1}
    BY <2>2 DEF IsBody
  <2>6. hist'.added = hist.added /\ hist'.short = hist.short /\ phase' = "open"
    BY <1>1, <2>2
  <2>7. q \in Seq(Element)
    BY <1>2
  <2>8. QED
    BY <1>1, <1>3, <1>4, <1>5, <2>1, <2>2, <2>3, <2>4, <2>5, <2>6, <2>7, PutPacks
<1>8. CASE PutsHeader
  <2> DEFINE q == Tail(tx.headerq)
             x == HeaderItem(First)
             n == First.length
  <2>1. /\ n <= tx.left /\ x \in Item /\ tx' = AfterItem(Filler, x, q, n)
        /\ phase' = phase /\ hist' = hist
    BY <1>8 DEF PutsHeader
  <2>2. n \in Nat
    BY <1>2 DEF Element
  <2>3. x.kind = "HEADER" /\ x.size = n
    BY DEF HeaderItem
  <2> HIDE DEF x, n
  <2>4. /\ q \in Seq(Element) /\ 1 \in {0, 1} /\ x.size <= tx.left
        /\ hist'.added = hist.added /\ hist'.short = hist.short /\ phase' = "open"
    BY <1>1, <1>2, <2>1, <2>3
  <2>5. QED
    BY <1>1, <1>3, <1>4, <1>5, <2>1, <2>2, <2>3, <2>4, PutPacks
<1>9. CASE Skips
  <2>1. /\ First.kind = "EMPTY" /\ phase' = phase /\ hist' = hist
        /\ tx' = More(Pop(Filler))
    BY <1>9 DEF Skips
  <2>2. /\ tx' \in Sender /\ tx'.pc = "fill" /\ tx'.items = tx.items
        /\ tx'.headerq = Tail(tx.headerq) /\ tx'.left = tx.left
        /\ (tx'.addmore => tx.left # 0)
    BY <1>1, <1>3, <2>1, SkipIs
  <2>3. OneBody'
    <3>1. 1 \in {0, 1} /\ hist'.added = hist.added /\ (hist'.short => hist.short \/ Streams)
      BY <2>1
    <3>2. QED
      BY <1>5, <2>2, <3>1, OneBodyOf DEF Carried, Packs
  <2>4. HasEnd(tx.items) => \A i \in 1..Len(tx'.headerq) : ~IsBody(tx'.headerq[i].kind)
    <3>1. \A i \in 1..Len(tx.headerq) - 1 : i + 1 \in 1..Len(tx.headerq)
      BY <1>2
    <3>2. HasEnd(tx.items) => \A i \in 1..Len(tx.headerq) : ~IsBody(tx.headerq[i].kind)
      BY <1>4 DEF Packs, Filled
    <3>3. QED
      BY <1>5, <2>2, <3>1, <3>2
  <2>5. Filled'
    BY <1>4, <2>1, <2>2, <2>4, <1>1, SameLimit DEF Packs, Filled, Packing
  <2>6. RoomKept'
    BY <1>1, <2>1, SameLimit DEF Packs, RoomKept, Overrun
  <2>7. QED
    BY <2>3, <2>5, <2>6 DEF Packs
<1>10. ASSUME tx' = tx \/ tx' = [tx EXCEPT !.addmore = FALSE], hist' = hist
       PROVE  OneBody' /\ Filled'
  <2>1. /\ tx'.pc = "fill" /\ tx'.items = tx.items /\ tx'.headerq = tx.headerq
        /\ tx'.left = tx.left /\ (tx'.addmore => tx.addmore)
    BY <1>1, <1>2, <1>10 DEF Sender
  <2>2. OneBody'
    BY <1>10, <2>1, OneBodyStays DEF Carried, Packs
  <2>3. Filled'
    BY <1>1, <1>4, <1>10, <2>1, SameLimit DEF Packs, Filled, Packing
  <2>4. QED
    BY <2>2, <2>3
<1>11. CASE Stops
  <2>1. OneBody' /\ Filled'
    BY <1>10, <1>11 DEF Stops
  <2>2. phase' # "overrun" /\ hist' = hist
    BY <1>1, <1>11 DEF Stops
  <2>3. RoomKept'
    BY <1>1, <2>2, SameLimit DEF Packs, RoomKept, Overrun
  <2>4. QED
    BY <2>1, <2>3 DEF Packs
<1>12. CASE Overruns
  <2>1. First.kind = "BODY" /\ tx.left < 3 /\ tx' = tx /\ hist' = hist
    BY <1>12 DEF Overruns
  <2>2. OneBody' /\ Filled'
    BY <1>10, <2>1
  <2>3. ~hist.short
    <3> SUFFICES ASSUME Streams PROVE FALSE
      BY DEF Packs, OneBody
    <3>1. PICK i \in 1..Len(hist.added) : hist.added[i].kind = "STREAM"
      BY DEF Streams
    <3>2. Known(First, hist.added)
      BY <1>2 DEF Packs, OneBody, First
    <3>3. First.no = i
      BY <2>1, <3>1, <3>2 DEF Packs, OneBody, Known, IsBody
    <3>4. QED
      BY <2>1, <3>1, <3>2, <3>3 DEF Known
  <2>4. ~HasEnd(tx.items)
    BY <1>2, <1>4, <2>1 DEF Packs, Filled, First, IsBody
  <2>5. SizeOf(tx.items) + tx.left = RoomInPacket /\ tx.left > 0
    BY <1>1, <1>4, <2>3, <2>4 DEF Packs, Filled, Balanced
  <2>6. SizeOf(tx.items) \in Nat /\ Limit \in Nat /\ RoomInPacket = Limit - 3
    BY <1>2, SizeNat, Room, LimitIs DEF Sender
  <2>7. Limit - COMMON - SizeOf(tx.items) = tx.left
    BY <1>4, <2>5, <2>6, Sizes
  <2>8. tx.left \in 1..2
    BY <1>4, <2>1, <2>5
  <2>9. Overrun'
    BY <1>1, <2>1, <2>7, <2>8, SameLimit DEF Overrun
  <2>10. RoomKept'
    BY <1>1, <2>1, <2>9, SameLimit DEF Packs, RoomKept, Overrun
  <2>11. QED
    BY <2>2, <2>10 DEF Packs
<1>13. CASE BeginsStream
  <2> DEFINE pc == IF tx.s_data = <<>> THEN "ask" ELSE "copy"
             room == IF tx.left < 3 THEN HUGE ELSE tx.left - 3
             short == hist.short \/ tx.left < SEQHDR
  <2>1. /\ First.kind = "STREAM" /\ phase' = phase
        /\ tx' = [Filler EXCEPT !.pc = pc, !.room = room, !.frag = <<>>]
        /\ hist' = [hist EXCEPT !.short = short]
    BY <1>13 DEF BeginsStream
  <2>2. hist'.added = hist.added /\ (~hist'.short => ~hist.short /\ tx.left >= 3)
        /\ (hist'.short => hist.short \/ Streams)
    <3>1. hist \in Histories
      BY Typed DEF Carried
    <3>2. hist'.added = hist.added /\ hist'.short = short
      BY <2>1, <3>1 DEF Histories
    <3>3. Streams
      <4>1. Known(First, hist.added)
        BY <1>2 DEF Packs, OneBody, First
      <4>2. QED
        BY <2>1, <4>1 DEF Known, Streams
    <3>4. hist'.short <=> hist.short \/ tx.left < 3
      BY <3>2, Sizes
    <3>5. ~(tx.left < 3) => tx.left >= 3
      BY <1>4
    <3>6. QED
      BY <3>2, <3>3, <3>4, <3>5
  <2>3. pc \in {"ask", "copy"}
    OBVIOUS
  <2> HIDE DEF pc
  <2>4. /\ tx'.pc = pc /\ tx'.items = tx.items /\ tx'.headerq = tx.headerq
        /\ tx'.left = tx.left /\ tx'.room = room /\ tx'.frag = <<>>
    BY <1>3, <2>1 DEF Sender
  <2>5. OneBody'
    BY <2>2, <2>4, OneBodyStays DEF Carried, Packs
  <2>6. ~hist'.short => 3 + Len(tx'.frag) + tx'.room <= tx'.left
    BY <1>4, <2>2, <2>4
  <2>7. Filled'
    BY <1>1, <1>4, <2>2, <2>3, <2>4, <2>6, SameLimit DEF Packs, Filled, Packing
  <2>8. RoomKept'
    BY <1>1, <2>1, <2>2, SameLimit DEF Packs, RoomKept, Overrun
  <2>9. QED
    BY <2>5, <2>7, <2>8 DEF Packs
<1>14. QED
  BY <1>1, <1>6, <1>7, <1>8, <1>9, <1>11, <1>12, <1>13

(* send_stream ends in t, which it has made of the sender.                 *)
LEMMA EndStreamPacks ==
  ASSUME Carried, Packs, tx.pc \in {"ask", "copy"}, phase = "open", phase' = "open",
         env' = env, link' = link,
         hist'.added = hist.added, hist'.short = hist.short,
         NEW t \in Sender, t.headerq = tx.headerq, t.items = tx.items,
         t.left = tx.left, ~hist.short => 3 + Len(t.frag) <= tx.left,
         tx' = EndStream(t)
  PROVE  Packs'
<1> DEFINE last == t.s_stop /\ t.s_data = <<>>
           kind == IF last THEN "BODY_END" ELSE "BODY"
           x == ItemOf(t.headerq[1], kind, t.frag)
           q == IF last THEN Tail(t.headerq) ELSE t.headerq
           n == 3 + Len(t.frag)
           shift == IF last THEN 1 ELSE 0
<1>1. tx.headerq # <<>> /\ First.kind = "STREAM" /\ Packing
  BY DEF Carried, Transit, Asking, First, Packing
<1>2. /\ x \in Item /\ q \in Seq(Element) /\ n \in Nat
      /\ tx' = AfterItem(t, x, q, n)
  BY <1>1, EndStreamIs
<1>3. /\ Len(t.headerq) \in Nat \ {0} /\ t.headerq[1] \in Element
      /\ Len(Tail(t.headerq)) = Len(t.headerq) - 1
      /\ \A i \in 1..Len(t.headerq) - 1 : Tail(t.headerq)[i] = t.headerq[i + 1]
  BY <1>1, Queue
<1>4. x.kind = kind /\ x.size = n
  <2>1. t.frag \in Seq(Nat)
    BY DEF Sender
  <2>2. QED
    BY <1>3, <2>1, ItemOfIs
<1>5. /\ Len(q) = Len(tx.headerq) - shift
      /\ \A i \in 1..Len(q) :
           /\ q[i].no = tx.headerq[i + shift].no
           /\ q[i].kind = tx.headerq[i + shift].kind
           /\ q[i].suspend = tx.headerq[i + shift].suspend
  <2>1. CASE last
    BY <1>3, <2>1
  <2>2. CASE ~last
    <3>1. \A i \in 1..Len(tx.headerq) : i + 0 = i
      BY <1>3
    <3>2. QED
      BY <1>3, <2>2, <3>1
  <2>3. QED
    BY <2>1, <2>2
<1>6. /\ shift \in {0, 1} /\ (kind = "BODY_END" => shift = 1)
      /\ IsBody(First.kind)
  BY <1>1 DEF IsBody
<1> HIDE DEF x, q, n, kind, shift
<1>7. ~hist.short => n <= tx.left
  BY DEF n
<1>8. /\ x.kind # "HEADER" => IsBody(First.kind)
      /\ x.kind = "BODY_END" => shift = 1
      /\ ~hist.short => /\ n <= tx.left /\ x.size <= tx.left
                        /\ x.size = n \/ (x.kind = "BODY_END" /\ x.size = n + 3)
  BY <1>4, <1>6, <1>7
<1>9. shift \in {0, 1}
  BY <1>6
<1>10. QED
  BY <1>1, <1>2, <1>5, <1>8, <1>9, PutPacks

LEMMA StreamPacks ==
  ASSUME Carried, Packs,
         \/ \E n \in ChunkSizes, end \in BOOLEAN : AnswerStream(n, end)
         \/ \E suspend \in BOOLEAN : AnswerStreamNothing(suspend)
         \/ CopyStream
  PROVE  Packs'
<1>1. tx \in Sender /\ hist \in Histories
  BY Typed DEF Carried
<1>2. ASSUME tx.pc \in {"ask", "copy"}, ~hist.short
      PROVE  3 + Len(tx.frag) + tx.room <= tx.left
  BY <1>2 DEF Packs, Filled, Packing
<1>3. tx.room \in Nat /\ tx.left \in Nat /\ Len(tx.frag) \in Nat
  BY <1>1, LenProperties DEF Sender
<1>4. ASSUME tx.pc \in {"ask", "copy"}, ~hist.short
      PROVE  3 + Len(tx.frag) <= tx.left
  BY <1>2, <1>3, <1>4
(* send_stream goes on in t.                                               *)
<1>5. ASSUME tx.pc \in {"ask", "copy"}, tx' = tx,
             env' = env, link' = link, phase' # "overrun",
             hist'.added = hist.added, hist'.short = hist.short
      PROVE  Packs'
  <2>1. OneBody'
    BY <1>5, OneBodyStays DEF Carried, Packs
  <2>2. Filled'
    BY <1>5, SameLimit DEF Packs, Filled, Packing
  <2>3. RoomKept'
    BY <1>5, SameLimit DEF Packs, RoomKept, Overrun
  <2>4. QED
    BY <2>1, <2>2, <2>3 DEF Packs
<1>6. ASSUME tx.pc \in {"ask", "copy"}, phase' # "overrun",
             env' = env, link' = link,
             hist'.added = hist.added, hist'.short = hist.short,
             NEW t \in Sender, t.headerq = tx.headerq, t.items = tx.items,
             t.left = tx.left, t.frag \in Seq(Nat),
             ~hist.short => 3 + Len(t.frag) + t.room <= tx.left,
             NEW pc \in {"ask", "copy"}, tx' = [t EXCEPT !.pc = pc]
      PROVE  Packs'
  <2>1. /\ tx'.pc = pc /\ tx'.headerq = tx.headerq /\ tx'.items = tx.items
        /\ tx'.left = tx.left /\ tx'.frag = t.frag /\ tx'.room = t.room
    BY <1>6 DEF Sender
  <2>2. OneBody'
    BY <1>6, <2>1, OneBodyStays DEF Carried, Packs
  <2>3. Filled'
    BY <1>6, <2>1, SameLimit DEF Packs, Filled, Packing
  <2>4. RoomKept'
    BY <1>6, SameLimit DEF Packs, RoomKept, Overrun
  <2>5. QED
    BY <2>2, <2>3, <2>4 DEF Packs
<1>7. ASSUME NEW n \in ChunkSizes, NEW end \in BOOLEAN, AnswerStream(n, end)
      PROVE  Packs'
  <2> DEFINE new == Numbers(hist.given, n)
             t   == [tx EXCEPT !.s_buf = TRUE, !.s_data = new, !.s_stop = @ \/ end]
             given == hist.given + n
             chunks == Smaller(hist.chunks + 1, MaxChunks)
  <2>1. /\ phase = "open" /\ tx.pc = "ask" /\ UNCHANGED <<env, link, rx, phase>>
        /\ tx' = IF t.s_stop THEN EndStream(t) ELSE [t EXCEPT !.pc = "copy"]
        /\ hist' = [hist EXCEPT !.given = given, !.chunks = chunks]
    BY <1>7 DEF AnswerStream
  <2> HIDE DEF given, chunks
  <2>2. hist'.added = hist.added /\ hist'.short = hist.short
    BY <1>1, <2>1 DEF Histories
  <2>3. new \in Seq(Nat)
    BY <1>1, NumbersIs, SizesAreNat DEF Histories
  <2> HIDE DEF new
  <2>4. /\ t \in Sender /\ t.headerq = tx.headerq /\ t.items = tx.items
        /\ t.left = tx.left /\ t.frag = tx.frag /\ t.room = tx.room
        /\ t.frag \in Seq(Nat)
    BY <1>1, <2>3 DEF Sender
  <2> HIDE DEF t
  <2>5. CASE t.s_stop
    <3>1. tx' = EndStream(t)
      BY <2>1, <2>5
    <3>2. ~hist.short => 3 + Len(t.frag) <= tx.left
      BY <1>4, <2>1, <2>4
    <3>3. QED
      BY <2>1, <2>2, <2>4, <3>1, <3>2, EndStreamPacks
  <2>6. CASE ~t.s_stop
    <3>1. tx' = [t EXCEPT !.pc = "copy"]
      BY <2>1, <2>6
    <3>2. ~hist.short => 3 + Len(t.frag) + t.room <= tx.left
      BY <1>2, <2>1, <2>4
    <3>3. QED
      BY <1>6, <2>1, <2>2, <2>4, <3>1, <3>2
  <2>7. QED
    BY <2>5, <2>6
<1>8. ASSUME NEW suspend \in BOOLEAN, AnswerStreamNothing(suspend)
      PROVE  Packs'
  <2> DEFINE t == [tx EXCEPT !.s_buf = FALSE, !.suspend = @ \/ suspend]
             faults == hist.faults + 1
  <2>1. /\ phase = "open" /\ tx.pc = "ask" /\ UNCHANGED <<env, link, rx>>
        /\ hist' = [hist EXCEPT !.faults = faults]
        /\ \/ tx' = EndStream(t) /\ phase' = phase
           \/ phase' = "failed" /\ tx' = tx
    BY <1>8 DEF AnswerStreamNothing
  <2> HIDE DEF faults
  <2>2. hist'.added = hist.added /\ hist'.short = hist.short
    BY <1>1, <2>1 DEF Histories
  <2>3. /\ t \in Sender /\ t.headerq = tx.headerq /\ t.items = tx.items
        /\ t.left = tx.left /\ t.frag = tx.frag
    BY <1>1 DEF Sender
  <2> HIDE DEF t
  <2>4. ~hist.short => 3 + Len(t.frag) <= tx.left
    BY <1>4, <2>1, <2>3
  <2>5. CASE tx' = EndStream(t) /\ phase' = phase
    BY <2>1, <2>2, <2>3, <2>4, <2>5, EndStreamPacks
  <2>6. CASE phase' = "failed" /\ tx' = tx
    BY <1>5, <2>1, <2>2, <2>6
  <2>7. QED
    BY <2>1, <2>5, <2>6
<1>9. CASE CopyStream
  <2> DEFINE t == Copied(tx)
  <2>1. /\ phase = "open" /\ tx.pc = "copy" /\ UNCHANGED <<env, link, rx, hist, phase>>
        /\ tx' = IF t.room > 0 THEN [t EXCEPT !.pc = "ask"] ELSE EndStream(t)
    BY <1>9 DEF CopyStream
  <2>2. PICK f \in Seq(Nat) :
          /\ Len(f) <= tx.room /\ t \in Sender /\ t.frag = tx.frag \o f
          /\ t.room <= tx.room - Len(f)
          /\ t.headerq = tx.headerq /\ t.left = tx.left /\ t.items = tx.items
    BY <1>1, CopiedIs
  <2> HIDE DEF t
  <2>3. t.room \in Nat /\ t.frag \in Seq(Nat) /\ Len(f) \in Nat
    BY <2>2, LenProperties DEF Sender
  <2>4. Len(t.frag) = Len(tx.frag) + Len(f)
    <3>1. tx.frag \in Seq(Nat)
      BY <1>1 DEF Sender
    <3>2. QED
      BY <2>2, <3>1, ConcatProperties
  <2>5. ~hist.short => 3 + Len(t.frag) + t.room <= tx.left
    BY <1>2, <1>3, <2>1, <2>2, <2>3, <2>4
  <2>6. CASE t.room > 0
    <3>1. tx' = [t EXCEPT !.pc = "ask"]
      BY <2>1, <2>6
    <3>2. QED
      BY <1>6, <2>1, <2>2, <2>3, <2>5, <3>1
  <2>7. CASE ~(t.room > 0)
    <3>1. tx' = EndStream(t)
      BY <2>1, <2>7
    <3>2. ~hist.short => 3 + Len(t.frag) <= tx.left
      BY <1>3, <2>3, <2>4, <2>5
    <3>3. QED
      BY <2>1, <2>2, <3>1, <3>2, EndStreamPacks
  <2>8. QED
    BY <2>6, <2>7
<1>10. QED
  BY <1>7, <1>8, <1>9

LEMMA PacksAtFirst == Init => Packs
<1> SUFFICES ASSUME Init PROVE Packs
  OBVIOUS
<1>1. /\ tx = NewSender(env.nonhdr) /\ link.pkts = <<>>
      /\ hist.added = <<>> /\ hist.short = FALSE /\ phase = "open"
  BY DEF Init
<1>2. tx.pc = "add" /\ tx.headerq = <<>>
  BY <1>1 DEF NewSender
<1>3. OneBody /\ Filled
  BY <1>1, <1>2 DEF OneBody, Filled, Packing
<1>4. RoomKept
  BY <1>1 DEF RoomKept, Overrun
<1>5. QED
  BY <1>3, <1>4 DEF Packs

LEMMA PacksStep == Carried /\ Packs /\ [Next]_vars => Packs'
<1> SUFFICES ASSUME Carried, Packs, [Next]_vars PROVE Packs'
  OBVIOUS
<1>1. CASE Passes
  <2>1. Rests
    BY <1>1, PassesRest
  <2>2. tx'.items = tx.items
    BY <2>1 DEF Rests
  <2>3. QED
    BY <2>1, <2>2, RestPacks
<1>2. CASE UNCHANGED vars
  <2>1. /\ env' = env /\ tx' = tx /\ link' = link /\ hist' = hist /\ phase' = phase
    BY <1>2 DEF vars
  <2>2. Rests
    BY <2>1, SamePackets DEF Rests, Packing
  <2>3. QED
    BY <2>1, <2>2, RestPacks
<1>3. CASE Works
  BY <1>3, FillPacks, StreamPacks DEF Works
<1>4. QED
  BY <1>1, <1>2, <1>3, Steps, AddPacks, SendPacks, FinishPacks, Zenon DEF Passes

(***************************************************************************)
(* A packet is its common header, the non-header data if it is the first   *)
(* of a request, and its headers.                                          *)
(***************************************************************************)
Extra == {0, env.nonhdr}

Weighed ==
  /\ tx.nonhdr \in Extra
  /\ Packing => tx.size - SizeOf(tx.items) \in Extra
  /\ \A i \in 1..Len(link.pkts) : NonHeader(link.pkts[i]) \in Extra

LEMMA AbortWeighs == NonHeader(AbortPacket) = 0
<1>1. AbortPacket.size = 3 /\ AbortPacket.items = <<>>
  BY Sizes DEF AbortPacket
<1>2. QED
  BY <1>1, Sizes, SizeEmpty DEF NonHeader

LEMMA RestWeighed ==
  ASSUME Carried, Weighed, Rests
  PROVE  Weighed'
<1>1. Extra' = Extra /\ tx'.nonhdr = tx.nonhdr
  BY DEF Rests, Extra
<1>2. Packing' => tx' = tx /\ Packing
  BY DEF Rests
<1>3. \A i \in 1..Len(link'.pkts) : NonHeader(link'.pkts[i]) \in Extra
  <2> SUFFICES ASSUME NEW i \in 1..Len(link'.pkts)
               PROVE  NonHeader(link'.pkts[i]) \in Extra
    OBVIOUS
  <2>1. CASE link'.pkts[i] = AbortPacket
    BY <2>1, AbortWeighs DEF Extra
  <2>2. CASE \E j \in 1..Len(link.pkts) : link'.pkts[i] = link.pkts[j]
    BY <2>2 DEF Weighed
  <2>3. QED
    BY <2>1, <2>2 DEF Rests
<1>4. Packing' => tx'.size - SizeOf(tx'.items) \in Extra
  BY <1>2 DEF Weighed
<1>5. QED
  BY <1>1, <1>3, <1>4 DEF Weighed

(* The sender makes a packet, and nothing is put on the link.              *)
LEMMA MakesWeighed ==
  ASSUME Weighed, env' = env, link' = link, tx'.nonhdr \in Extra,
         Packing' => tx'.size - SizeOf(tx'.items) \in Extra
  PROVE  Weighed'
BY DEF Weighed, Extra

LEMMA PutWeighed ==
  ASSUME Carried, Weighed, Packing, env' = env, link' = link,
         NEW t \in Sender, t.items = tx.items, t.size = tx.size,
         t.nonhdr = tx.nonhdr,
         NEW x \in Item, NEW q \in Seq(Element), NEW n \in Nat,
         tx' = AfterItem(t, x, q, n)
  PROVE  Weighed'
<1>1. /\ tx'.items = Append(tx.items, x) /\ tx'.size = tx.size + x.size
      /\ tx'.nonhdr = tx.nonhdr
  <2>1. Follows(tx', t, x, q, n)
    BY AfterItemIs
  <2>2. QED
    BY <2>1 DEF Follows
<1>2. tx.items \in Seq(Item) /\ tx.size \in Nat /\ x.size \in Nat
  BY DEF Carried, TypeOK, Sender, Item
<1>3. SizeOf(tx.items) \in Nat
      /\ SizeOf(Append(tx.items, x)) = SizeOf(tx.items) + x.size
  BY <1>2, SizeNat, SizeAppend
<1>4. tx'.size - SizeOf(tx'.items) = tx.size - SizeOf(tx.items)
  BY <1>1, <1>2, <1>3
<1>5. QED
  BY <1>1, <1>4, MakesWeighed DEF Weighed

LEMMA SameWeighed ==
  ASSUME Weighed, Packing, env' = env, link' = link,
         tx'.items = tx.items, tx'.size = tx.size, tx'.nonhdr = tx.nonhdr
  PROVE  Weighed'
BY MakesWeighed DEF Weighed

LEMMA EndStreamWeighed ==
  ASSUME Carried, Weighed, tx.pc \in {"ask", "copy"}, phase = "open",
         env' = env, link' = link,
         NEW t \in Sender, t.headerq = tx.headerq, t.items = tx.items,
         t.size = tx.size, t.nonhdr = tx.nonhdr, tx' = EndStream(t)
  PROVE  Weighed'
<1>1. t.headerq # <<>> /\ Packing
  BY DEF Carried, Transit, Asking, Packing
<1>2. PICK x \in Item, q \in Seq(Element), n \in Nat : tx' = AfterItem(t, x, q, n)
  BY <1>1, EndStreamIs
<1>3. QED
  BY <1>1, <1>2, PutWeighed

LEMMA FillWeighed ==
  ASSUME Carried, Weighed, FillHeader
  PROVE  Weighed'
<1>1. /\ phase = "open" /\ tx.pc = "fill" /\ tx.headerq # <<>>
      /\ env' = env /\ link' = link
      /\ \/ \E f, r \in Seq(Nat) : Cuts(f, r)
         \/ EndsBody \/ Overruns \/ Skips \/ PutsHeader \/ Stops \/ BeginsStream
  BY FillIs DEF Carried
<1>2. tx \in Sender /\ First \in Element /\ Packing
  BY <1>1, Queue DEF Carried, TypeOK, First, Packing
<1>3. /\ Filler \in Sender /\ Filler.items = tx.items /\ Filler.size = tx.size
      /\ Filler.nonhdr = tx.nonhdr /\ Filler.headerq = tx.headerq
  BY <1>2, FlaggedIs DEF Filler
<1>4. Tail(tx.headerq) \in Seq(Element)
  BY <1>1, <1>2, Queue
<1>5. ASSUME NEW f \in Seq(Nat), NEW r \in Seq(Nat), Cuts(f, r)
      PROVE  Weighed'
  <2>1. [tx.headerq EXCEPT ![1].data = r] \in Seq(Element)
    <3>1. tx.headerq \in Seq(Element)
      BY <1>2 DEF Sender
    <3>2. QED
      BY <1>1, <3>1, CutIs
  <2>2. tx.left \in Nat
    BY <1>2 DEF Sender
  <2>3. QED
    BY <1>1, <1>2, <1>3, <1>5, <2>1, <2>2, PutWeighed DEF Cuts
<1>6. CASE EndsBody
  <2>1. Len(First.data) \in Nat
    BY <1>2, LenProperties DEF Element
  <2>2. QED
    BY <1>1, <1>2, <1>3, <1>4, <1>6, <2>1, PutWeighed DEF EndsBody
<1>7. CASE PutsHeader
  <2>1. First.length \in Nat
    BY <1>2 DEF Element
  <2>2. QED
    BY <1>1, <1>2, <1>3, <1>4, <1>7, <2>1, PutWeighed DEF PutsHeader
<1>8. CASE Skips
  <2>1. /\ tx'.items = Filler.items /\ tx'.size = Filler.size
        /\ tx'.nonhdr = Filler.nonhdr
    BY <1>1, <1>3, <1>8, SkipIs DEF Skips
  <2>2. QED
    BY <1>1, <1>2, <1>3, <2>1, SameWeighed
<1>9. CASE Overruns \/ Stops \/ BeginsStream
  <2>1. /\ tx'.items = tx.items /\ tx'.size = tx.size
        /\ tx'.nonhdr = tx.nonhdr
    <3>1. CASE Overruns \/ Stops
      BY <1>2, <3>1 DEF Overruns, Stops, Sender
    <3>2. CASE BeginsStream
      BY <1>3, <3>2 DEF BeginsStream, Sender
    <3>3. QED
      BY <1>9, <3>1, <3>2
  <2>2. QED
    BY <1>1, <1>2, <2>1, SameWeighed
<1>10. QED
  BY <1>1, <1>5, <1>6, <1>7, <1>8, <1>9

LEMMA StreamWeighed ==
  ASSUME Carried, Weighed,
         \/ \E n \in ChunkSizes, end \in BOOLEAN : AnswerStream(n, end)
         \/ \E suspend \in BOOLEAN : AnswerStreamNothing(suspend)
         \/ CopyStream
  PROVE  Weighed'
<1>1. tx \in Sender /\ hist \in Histories
  BY Typed DEF Carried
(* The sender becomes t, goes on in it, or ends the fragment there.        *)
<1>2. ASSUME NEW t \in Sender, t.headerq = tx.headerq, t.items = tx.items,
             t.size = tx.size, t.nonhdr = tx.nonhdr,
             phase = "open", tx.pc \in {"ask", "copy"},
             env' = env, link' = link,
             \/ tx' = tx \/ tx' = EndStream(t)
             \/ \E pc \in {"ask", "copy"} : tx' = [t EXCEPT !.pc = pc]
      PROVE  Weighed'
  <2>1. Packing
    BY <1>2 DEF Packing
  <2>2. CASE tx' = tx
    BY <1>2, <2>1, <2>2, SameWeighed
  <2>3. CASE tx' = EndStream(t)
    BY <1>2, <2>3, EndStreamWeighed
  <2>4. ASSUME NEW pc \in {"ask", "copy"}, tx' = [t EXCEPT !.pc = pc]
        PROVE  Weighed'
    <3>1. /\ tx'.items = t.items /\ tx'.size = t.size
          /\ tx'.nonhdr = t.nonhdr
      BY <2>4 DEF Sender
    <3>2. QED
      BY <1>2, <2>1, <3>1, SameWeighed
  <2>5. QED
    BY <1>2, <2>2, <2>3, <2>4
<1>3. ASSUME NEW n \in ChunkSizes, NEW end \in BOOLEAN, AnswerStream(n, end)
      PROVE  Weighed'
  <2> DEFINE new == Numbers(hist.given, n)
             t   == [tx EXCEPT !.s_buf = TRUE, !.s_data = new, !.s_stop = @ \/ end]
  <2>1. /\ phase = "open" /\ tx.pc = "ask" /\ env' = env /\ link' = link
        /\ tx' = EndStream(t) \/ tx' = [t EXCEPT !.pc = "copy"]
    BY <1>3 DEF AnswerStream
  <2>2. new \in Seq(Nat)
    BY <1>1, NumbersIs, SizesAreNat DEF Histories
  <2> HIDE DEF new
  <2>3. /\ t \in Sender /\ t.headerq = tx.headerq /\ t.items = tx.items
        /\ t.size = tx.size /\ t.nonhdr = tx.nonhdr
    BY <1>1, <2>2 DEF Sender
  <2> HIDE DEF t
  <2>4. QED
    BY <1>2, <2>1, <2>3
<1>4. ASSUME NEW suspend \in BOOLEAN, AnswerStreamNothing(suspend)
      PROVE  Weighed'
  <2> DEFINE t == [tx EXCEPT !.s_buf = FALSE, !.suspend = @ \/ suspend]
  <2>1. /\ phase = "open" /\ tx.pc = "ask" /\ env' = env /\ link' = link
        /\ tx' = EndStream(t) \/ tx' = tx
    BY <1>4 DEF AnswerStreamNothing
  <2>2. /\ t \in Sender /\ t.headerq = tx.headerq /\ t.items = tx.items
        /\ t.size = tx.size /\ t.nonhdr = tx.nonhdr
    BY <1>1 DEF Sender
  <2> HIDE DEF t
  <2>3. QED
    BY <1>2, <2>1, <2>2
<1>5. CASE CopyStream
  <2> DEFINE t == Copied(tx)
  <2>1. /\ phase = "open" /\ tx.pc = "copy" /\ env' = env /\ link' = link
        /\ tx' = EndStream(t) \/ tx' = [t EXCEPT !.pc = "ask"]
    BY <1>5 DEF CopyStream
  <2>2. /\ t \in Sender /\ t.headerq = tx.headerq /\ t.items = tx.items
        /\ t.size = tx.size /\ t.nonhdr = tx.nonhdr
    BY <1>1, CopiedIs
  <2> HIDE DEF t
  <2>3. QED
    BY <1>2, <2>1, <2>2
<1>6. QED
  BY <1>3, <1>4, <1>5

LEMMA SendWeighed ==
  ASSUME Carried, Weighed, Send
  PROVE  Weighed'
<1>1. tx' = Begin(tx) /\ env' = env /\ link' = link /\ tx \in Sender
  BY DEF Send, Carried, TypeOK
<1>2. tx'.items = <<>> /\ tx'.size = tx.nonhdr /\ tx'.nonhdr = 0
  BY <1>1 DEF Begin, Sender
<1>3. tx.nonhdr \in Nat /\ tx.nonhdr \in Extra
  BY <1>1 DEF Weighed, Sender
<1>4. tx'.size - SizeOf(tx'.items) = tx.nonhdr
  BY <1>2, <1>3, SizeEmpty
<1>5. tx'.nonhdr \in Extra
  BY <1>2 DEF Extra
<1>6. QED
  BY <1>1, <1>3, <1>4, <1>5, MakesWeighed

LEMMA FinishWeighed ==
  ASSUME Carried, Weighed, FinishPacket
  PROVE  Weighed'
<1>1. /\ tx.pc = "fill" /\ env' = env /\ tx'.pc = "write"
      /\ tx'.nonhdr = tx.nonhdr /\ link'.pkts = <<Finished>>
  BY FinishIs
<1>2. tx.items \in Seq(Item) /\ tx.size \in Nat
  BY DEF Carried, TypeOK, Sender
<1>3. SizeOf(tx.items) \in Nat
  BY <1>2, SizeNat
<1>4. NonHeader(Finished) = tx.size - SizeOf(tx.items)
  <2>1. Finished.size = 3 + tx.size /\ Finished.items = tx.items
    BY DEF Finished
  <2>2. QED
    BY <1>2, <1>3, <2>1, Sizes DEF NonHeader
<1>5. NonHeader(Finished) \in Extra
  BY <1>1, <1>4 DEF Weighed, Packing
<1> HIDE DEF Finished
<1>6. \A i \in 1..Len(link'.pkts) : link'.pkts[i] = Finished
  BY <1>1
<1>7. Extra' = Extra /\ ~Packing'
  BY <1>1 DEF Extra, Packing
<1>8. QED
  BY <1>1, <1>5, <1>6, <1>7 DEF Weighed

LEMMA AddWeighed ==
  ASSUME Carried, Weighed, AddHeaders
  PROVE  Weighed'
<1>1. PICK h \in Element, fit \in BOOLEAN : Adds(h, fit)
  BY AddIs DEF Carried
<1>2. /\ env' = env /\ link' = link /\ tx.pc = "add" /\ tx \in Sender
      /\ \E q, n : tx' = [tx EXCEPT !.headerq = q, !.totallen = n]
  BY <1>1 DEF Adds, Carried, TypeOK
<1>3. tx'.nonhdr = tx.nonhdr /\ tx'.pc = "add"
  BY <1>2 DEF Sender
<1>4. ~Packing'
  BY <1>3 DEF Packing
<1>5. QED
  BY <1>2, <1>3, <1>4, MakesWeighed DEF Weighed

LEMMA WeighedAtFirst == Init => Weighed
<1> SUFFICES ASSUME Init PROVE Weighed
  OBVIOUS
<1>1. tx = NewSender(env.nonhdr) /\ link.pkts = <<>>
  BY DEF Init
<1>2. tx.pc = "add" /\ tx.nonhdr = env.nonhdr
  BY <1>1 DEF NewSender
<1>3. QED
  BY <1>1, <1>2 DEF Weighed, Packing, Extra

LEMMA WeighedStep == Carried /\ Weighed /\ [Next]_vars => Weighed'
<1> SUFFICES ASSUME Carried, Weighed, [Next]_vars PROVE Weighed'
  OBVIOUS
<1>1. CASE Passes
  BY <1>1, PassesRest, RestWeighed
<1>2. CASE UNCHANGED vars
  <2>1. /\ env' = env /\ tx' = tx /\ link' = link /\ hist' = hist /\ phase' = phase
    BY <1>2 DEF vars
  <2>2. Rests
    BY <2>1, SamePackets DEF Rests, Packing
  <2>3. QED
    BY <2>2, RestWeighed
<1>3. CASE Works
  BY <1>3, FillWeighed, StreamWeighed DEF Works
<1>4. QED
  BY <1>1, <1>2, <1>3, Steps, AddWeighed, SendWeighed, FinishWeighed, Zenon DEF Passes

(* No packet is larger than mtu_tx, over IrDA than the whole frames in it, *)
(* but by what is not counted: the non-header data of its request, and     *)
(* three bytes of a body that ends before other headers.  The count of     *)
(* what is left wraps only when less than the header of a body is left     *)
(* (obex_object_send, send_body, send_stream).                             *)
THEOREM PacketsHold == Spec => []PacketsFit
<1>1. Init => Carried /\ Packs /\ Weighed
  BY CarriedAtFirst, PacksAtFirst, WeighedAtFirst
<1>2. Carried /\ Packs /\ Weighed /\ [Next]_vars => (Carried /\ Packs /\ Weighed)'
  BY CarriedStep, PacksStep, WeighedStep
<1>3. Carried /\ Packs /\ Weighed => PacketsFit
  <2> SUFFICES ASSUME Carried, Packs, Weighed PROVE PacketsFit
    OBVIOUS
  <2>1. ASSUME ~hist.short, NEW i \in 1..Len(link.pkts)
        PROVE  LET p     == link.pkts[i]
                   ended == \E j \in 1..Len(p.items) - 1 :
                              p.items[j].kind = "BODY_END"
               IN  /\ NonHeader(p) \in {0, env.nonhdr}
                   /\ p.size <= Limit + NonHeader(p) + (IF ended THEN SEQHDR ELSE 0)
    <3> DEFINE p == link.pkts[i]
               ended == \E j \in 1..Len(p.items) - 1 : p.items[j].kind = "BODY_END"
               size == SizeOf(p.items)
    <3>1. NonHeader(p) \in Extra /\ RoomFor(p, Limit)
      BY <2>1 DEF Weighed, Packs, RoomKept
    <3>2. p \in Packet
      BY Typed, ElementOfSeq DEF Carried, Links
    <3>3. p.size \in Nat /\ size \in Nat
      BY <3>2, SizeNat DEF Packet
    <3>4. 3 + size <= Limit + (IF ended THEN 3 ELSE 0) /\ Limit \in Nat
      BY <3>1, Sizes, LimitIs DEF RoomFor
    <3>5. NonHeader(p) = p.size - 3 - size
      BY Sizes DEF NonHeader
    <3> HIDE DEF p, ended, size
    <3>6. p.size <= Limit + NonHeader(p) + (IF ended THEN 3 ELSE 0)
      BY <3>3, <3>4, <3>5
    <3>7. QED
      BY <3>1, <3>6, Sizes DEF Extra, p, ended
  <2>2. phase = "overrun" => Limit - COMMON - SizeOf(tx.items) \in 1..2
    BY DEF Packs, RoomKept, Overrun
  <2>3. QED
    BY <2>1, <2>2 DEF PacketsFit
<1>4. QED
  BY <1>1, <1>2, <1>3, PTL DEF Spec

(***************************************************************************)
(* OBEX_FL_FIT_ONE_PACKET: what addheader has accepted is sent in one      *)
(* packet.                                                                 *)
(***************************************************************************)

(* The application asked for one packet, and nothing holds the headers up. *)
Alone ==
  /\ hist.fits /\ env.trans # "IRDA"
  /\ \A i \in 1..Len(hist.added) : ~hist.added[i].suspend

(* The headers of queue q take no more than room: rest[i] is left behind   *)
(* the i-th.                                                               *)
Fits(q, room) ==
  \E rest \in [0..Len(q) -> Nat] :
    /\ rest[0] <= room
    /\ \A i \in 1..Len(q) : rest[i] + q[i].length <= rest[i - 1]

(* A header that is still whole.                                           *)
Whole(h) ==
  /\ h.kind \in {"BYTE", "INT", "SEQ", "BODY"}
  /\ h.length >= 2
  /\ h.kind = "BODY" => h.length >= Len(h.data) + 3

Single ==
  Alone =>
    /\ tx.pc \notin {"ask", "copy", "turn"}
    /\ tx.pc \in {"add", "fill"} =>
         ~tx.suspend /\ \A i \in 1..Len(tx.headerq) : Whole(tx.headerq[i])
    /\ tx.pc = "add" => tx.totallen <= RoomInPacket /\ Fits(tx.headerq, tx.totallen)
    /\ tx.pc = "fill" =>
         /\ tx.left <= RoomInPacket /\ Fits(tx.headerq, tx.left)
         /\ tx.addmore \/ tx.headerq = <<>>
    /\ \A i \in 1..Len(link.pkts) : link.pkts[i].op # "NEXT"

LEMMA FitsMore ==
  ASSUME NEW q \in Seq(Element), NEW room \in Nat, Fits(q, room),
         NEW more \in Nat, room <= more
  PROVE  Fits(q, more)
<1>1. PICK rest \in [0..Len(q) -> Nat] :
        /\ rest[0] <= room
        /\ \A i \in 1..Len(q) : rest[i] + q[i].length <= rest[i - 1]
  BY DEF Fits
<1>2. 0 \in 0..Len(q)
  BY LenProperties
<1>3. rest[0] <= more
  BY <1>1, <1>2
<1>4. QED
  BY <1>1, <1>3 DEF Fits

LEMMA FitsEmpty == Fits(<<>>, 0)
<1> DEFINE rest == [i \in 0..Len(<<>>) |-> 0]
<1>1. rest \in [0..Len(<<>>) -> Nat] /\ rest[0] <= 0
  OBVIOUS
<1>2. \A i \in 1..Len(<<>>) : rest[i] + <<>>[i].length <= rest[i - 1]
  OBVIOUS
<1> HIDE DEF rest
<1>3. QED
  BY <1>1, <1>2 DEF Fits

LEMMA FitsAppended ==
  ASSUME NEW q \in Seq(Element), NEW room \in Nat, Fits(q, room), NEW h \in Element
  PROVE  Fits(Append(q, h), room + h.length)
<1> DEFINE n == Len(q)
           s == Append(q, h)
           size == h.length
<1>1. /\ n \in Nat /\ Len(s) = n + 1 /\ s[n + 1] = h
      /\ \A i \in 1..n : s[i] = q[i]
  BY LenProperties, AppendProperties
<1>2. size \in Nat
  BY DEF Element
<1>3. PICK rest \in [0..n -> Nat] :
        /\ rest[0] <= room
        /\ \A i \in 1..n : rest[i] + q[i].length <= rest[i - 1]
  BY DEF Fits
<1>4. \A i \in 1..n : q[i].length \in Nat
  <2>1. \A i \in 1..n : q[i] \in Element
    BY ElementOfSeq
  <2>2. QED
    BY <2>1 DEF Element
<1> HIDE DEF n, s
<1> DEFINE more == [i \in 0..n + 1 |-> IF i = n + 1 THEN rest[n] ELSE rest[i] + size]
<1>5. more \in [0..n + 1 -> Nat]
  <2> HIDE DEF size
  <2>1. \A i \in 0..n + 1 : i # n + 1 => i \in 0..n
    BY <1>1
  <2>2. n \in 0..n
    BY <1>1
  <2>3. QED
    BY <1>2, <2>1, <2>2
<1>6. more[0] <= room + size
  <2> HIDE DEF size
  <2>1. 0 \in 0..n /\ 0 # n + 1 /\ 0 \in 0..n + 1
    BY <1>1
  <2>2. more[0] = rest[0] + size /\ rest[0] \in Nat
    BY <2>1
  <2> HIDE DEF more
  <2>3. QED
    BY <1>2, <1>3, <2>2
<1>7. \A i \in 1..n + 1 : more[i] + s[i].length <= more[i - 1]
  <2> TAKE i \in 1..n + 1
  <2>1. CASE i = n + 1
    <3>1. more[i] = rest[n] /\ more[i - 1] = rest[n] + size /\ rest[n] \in Nat
      BY <1>1, <2>1
    <3>2. s[i].length = size
      BY <1>1, <2>1
    <3> HIDE DEF more, size
    <3>3. QED
      BY <1>2, <3>1, <3>2
  <2>2. CASE i # n + 1
    <3>1. i \in 1..n /\ i - 1 \in 0..n /\ i \in 0..n /\ i - 1 # n + 1
      BY <1>1, <2>2
    <3>2. more[i] = rest[i] + size /\ more[i - 1] = rest[i - 1] + size
      BY <1>1, <2>2, <3>1
    <3>3. rest[i] + q[i].length <= rest[i - 1] /\ s[i] = q[i]
          /\ rest[i] \in Nat /\ rest[i - 1] \in Nat /\ q[i].length \in Nat
      BY <1>1, <1>3, <1>4, <3>1
    <3> HIDE DEF more, size
    <3>4. QED
      BY <1>2, <3>2, <3>3
  <2>3. QED
    BY <2>1, <2>2
<1> HIDE DEF more
<1>8. Fits(s, room + size)
  BY <1>1, <1>5, <1>6, <1>7 DEF Fits
<1>9. QED
  BY <1>8 DEF s

LEMMA FitsFirst ==
  ASSUME NEW q \in Seq(Element), q # <<>>, NEW room \in Nat, Fits(q, room)
  PROVE  q[1].length <= room /\ Fits(Tail(q), room - q[1].length)
<1> DEFINE n == Len(q)
           s == Tail(q)
<1>1. n \in Nat /\ n # 0 /\ Len(s) = n - 1 /\ \A i \in 1..n - 1 : s[i] = q[i + 1]
  BY EmptySeq, HeadTailProperties
<1>2. PICK rest \in [0..n -> Nat] :
        /\ rest[0] <= room
        /\ \A i \in 1..n : rest[i] + q[i].length <= rest[i - 1]
  BY DEF Fits
<1>3. q[1].length \in Nat
  <2>1. q[1] \in Element
    BY <1>1, ElementOfSeq
  <2>2. QED
    BY <2>1 DEF Element
<1> HIDE DEF n, s
<1> DEFINE less == [i \in 0..n - 1 |-> rest[i + 1]]
<1>4. \A i \in 0..n - 1 : i + 1 \in 0..n
  BY <1>1
<1>5. less \in [0..n - 1 -> Nat]
  BY <1>4
<1>6. 1 \in 1..n /\ 1 \in 0..n /\ 0 \in 0..n /\ 0 \in 0..n - 1
  BY <1>1
<1>7. rest[1] + q[1].length <= rest[0] /\ rest[1] \in Nat /\ rest[0] \in Nat
  BY <1>2, <1>6
<1>8. less[0] <= room - q[1].length /\ q[1].length <= room
  <2>1. less[0] = rest[1]
    BY <1>6
  <2> HIDE DEF less
  <2>2. QED
    BY <1>2, <1>3, <1>7, <2>1
<1>9. \A i \in 1..n - 1 : less[i] + s[i].length <= less[i - 1]
  <2> TAKE i \in 1..n - 1
  <2>1. i \in 0..n - 1 /\ i - 1 \in 0..n - 1 /\ i + 1 \in 1..n /\ (i + 1) - 1 = i
        /\ (i - 1) + 1 = i
    BY <1>1
  <2>2. less[i] = rest[i + 1] /\ less[i - 1] = rest[i] /\ s[i] = q[i + 1]
    BY <1>1, <2>1
  <2> HIDE DEF less
  <2>3. QED
    BY <1>2, <2>1, <2>2
<1> HIDE DEF less
<1>10. Fits(s, room - q[1].length)
  BY <1>1, <1>5, <1>8, <1>9 DEF Fits
<1>11. QED
  BY <1>8, <1>10 DEF s

LEMMA AloneStays ==
  ASSUME env' = env, hist'.added = hist.added, hist'.fits = hist.fits
  PROVE  Alone' <=> Alone
BY DEF Alone

LEMMA RestSingle ==
  ASSUME Carried, Single, Rests
  PROVE  Single'
<1> SUFFICES ASSUME Alone
             PROVE  /\ tx'.pc \notin {"ask", "copy", "turn"}
                    /\ tx'.pc \in {"add", "fill"} => tx' = tx
                    /\ \A i \in 1..Len(link'.pkts) : link'.pkts[i].op # "NEXT"
  <2>1. RoomInPacket' = RoomInPacket /\ (Alone' <=> Alone)
    BY SameLimit, AloneStays DEF Rests
  <2>2. QED
    BY <2>1 DEF Single
<1>1. \A i \in 1..Len(link.pkts) : link.pkts[i].op # "NEXT"
  BY DEF Single
<1>2. tx.pc \notin {"ask", "copy", "turn"}
  BY DEF Single
<1>3. \A i \in 1..Len(link'.pkts) : link'.pkts[i].op # "NEXT"
  BY <1>1 DEF Rests, AbortPacket
<1>4. tx'.pc \notin {"ask", "copy", "turn"} /\ (tx'.pc \in {"add", "fill"} => tx' = tx)
  BY <1>1, <1>2 DEF Rests, Packing
<1>5. QED
  BY <1>3, <1>4

LEMMA AddSingle ==
  ASSUME Carried, Single, AddHeaders
  PROVE  Single'
<1>1. PICK h \in Element, fit \in BOOLEAN : Adds(h, fit)
  BY AddIs DEF Carried
<1> DEFINE q == Append(tx.headerq, h)
           total == tx.totallen + h.length
<1>2. /\ phase = "open" /\ tx.pc = "add" /\ UNCHANGED <<env, link, rx, phase>>
      /\ tx' = [tx EXCEPT !.headerq = q, !.totallen = total]
      /\ hist'.added = Append(hist.added, h)
      /\ (hist'.fits => hist.fits /\ fit /\ h.kind \notin {"STREAM", "EMPTY"})
  BY <1>1 DEF Adds
<1>3. /\ tx \in Sender /\ hist.added \in Seq(Element) /\ tx.headerq \in Seq(Element)
      /\ tx.totallen \in Nat /\ h.length \in Nat
  BY DEF Carried, TypeOK, Sender, Element
<1>4. /\ tx'.pc = "add" /\ tx'.headerq = q /\ tx'.totallen = total
      /\ tx'.suspend = tx.suspend
  BY <1>2, <1>3 DEF Sender
<1> SUFFICES ASSUME Alone'
             PROVE  /\ ~tx.suspend /\ \A i \in 1..Len(q) : Whole(q[i])
                    /\ total <= RoomInPacket /\ Fits(q, total)
                    /\ \A i \in 1..Len(link.pkts) : link.pkts[i].op # "NEXT"
  BY <1>2, <1>4, SameLimit DEF Single
<1>5. Alone /\ fit /\ h.kind \notin {"STREAM", "EMPTY"}
  <2>1. /\ Len(hist'.added) = Len(hist.added) + 1 /\ Len(hist.added) \in Nat
        /\ \A i \in 1..Len(hist.added) : hist'.added[i] = hist.added[i]
    BY <1>2, <1>3, AppendProperties, LenProperties
  <2>2. \A i \in 1..Len(hist.added) : i \in 1..Len(hist'.added)
    BY <2>1
  <2>3. QED
    BY <1>2, <2>1, <2>2 DEF Alone
<1>6. /\ ~tx.suspend /\ tx.totallen <= RoomInPacket /\ Fits(tx.headerq, tx.totallen)
      /\ \A i \in 1..Len(tx.headerq) : Whole(tx.headerq[i])
      /\ \A i \in 1..Len(link.pkts) : link.pkts[i].op # "NEXT"
  BY <1>2, <1>5 DEF Single
<1>7. RoomInPacket = MtuTx - 3
  BY <1>5, Sizes, Mtu DEF Alone, RoomInPacket
<1>8. total <= RoomInPacket
  <2>1. h.length <= Space(tx, TRUE)
    BY <1>1, <1>5 DEF Adds, Accepts
  <2>2. Space(tx, TRUE) = MtuTx - tx.totallen - 3
    BY <1>3, <1>6, <1>7, Mtu, Sizes DEF Space
  <2>3. h.length <= MtuTx - tx.totallen - 3
    BY <2>1, <2>2
  <2>4. QED
    BY <1>3, <1>7, <2>3, Mtu
<1>9. Whole(h)
  <2>1. h.kind \in {"BYTE", "INT", "SEQ", "BODY"}
    BY <1>5 DEF Element, Kinds
  <2>2. PICK n \in Nat : h.length = HeaderSize(h.kind, n)
                         /\ (h.kind = "BODY" => n = Len(h.data))
    BY <1>1 DEF Adds
  <2>3. QED
    BY <2>1, <2>2, Sizes DEF Whole, HeaderSize, UINTHDR, BYTEHDR
<1>10. Fits(q, total)
  BY <1>3, <1>6, FitsAppended
<1>11. \A i \in 1..Len(q) : Whole(q[i])
  <2> DEFINE n == Len(tx.headerq)
  <2>1. /\ n \in Nat /\ Len(q) = n + 1 /\ q[n + 1] = h
        /\ \A i \in 1..n : q[i] = tx.headerq[i]
    BY <1>3, LenProperties, AppendProperties
  <2> HIDE DEF n, q
  <2>2. \A i \in 1..n + 1 : i \in 1..n \/ i = n + 1
    BY <2>1
  <2>3. QED
    BY <1>6, <1>9, <2>1, <2>2 DEF n
<1>12. QED
  BY <1>6, <1>8, <1>10, <1>11

LEMMA SendSingle ==
  ASSUME Carried, Single, Send
  PROVE  Single'
<1>1. /\ phase = "open" /\ tx.pc \in {"add", "turn"} /\ tx' = Begin(tx)
      /\ UNCHANGED <<env, link, rx, hist, phase>>
  BY DEF Send
<1>2. RoomInPacket \in Nat /\ tx \in Sender
  BY Room DEF Carried, TypeOK
<1>3. /\ tx'.pc = "fill" /\ tx'.headerq = tx.headerq /\ tx'.left = RoomInPacket
      /\ tx'.suspend = tx.suspend /\ tx'.addmore
  BY <1>1, <1>2 DEF Begin, Sender
<1>4. RoomInPacket' = RoomInPacket /\ (Alone' <=> Alone)
  BY <1>1, SameLimit, AloneStays
<1>5. ASSUME Alone PROVE Fits(tx.headerq, RoomInPacket)
  <2>1. /\ tx.totallen <= RoomInPacket /\ Fits(tx.headerq, tx.totallen)
    BY <1>1, <1>5 DEF Single
  <2>2. tx.totallen \in Nat /\ tx.headerq \in Seq(Element)
    BY <1>2 DEF Sender
  <2>3. QED
    BY <1>2, <2>1, <2>2, FitsMore
<1>6. QED
  BY <1>1, <1>2, <1>3, <1>4, <1>5 DEF Single

LEMMA FinishSingle ==
  ASSUME Carried, Single, FinishPacket
  PROVE  Single'
<1>1. /\ tx.pc = "fill" /\ (~tx.addmore \/ tx.headerq = <<>>)
      /\ env' = env /\ hist' = hist
      /\ tx'.pc = "write" /\ link'.pkts = <<Finished>>
  BY FinishIs
<1>2. Alone' <=> Alone
  BY <1>1, AloneStays
<1>3. Alone => tx.headerq = <<>>
  BY <1>1 DEF Single
<1>4. Alone => Finished.op = "LAST"
  BY <1>3 DEF Finished
<1> HIDE DEF Finished
<1>5. \A i \in 1..Len(link'.pkts) : link'.pkts[i] = Finished
  BY <1>1
<1>6. QED
  BY <1>1, <1>2, <1>4, <1>5 DEF Single

(* Each header goes whole, and only the last leaves no room.               *)
LEMMA FillSingle ==
  ASSUME Carried, Packs, Single, FillHeader
  PROVE  Single'
<1>1. /\ phase = "open" /\ tx.pc = "fill" /\ tx.addmore /\ tx.headerq # <<>>
      /\ env' = env /\ link' = link /\ rx' = rx
      /\ \/ \E f, r \in Seq(Nat) : Cuts(f, r)
         \/ EndsBody \/ Overruns \/ Skips \/ PutsHeader \/ Stops \/ BeginsStream
  BY FillIs DEF Carried
<1>2. hist'.added = hist.added /\ hist'.fits = hist.fits
  <2>1. \/ hist' = hist
        \/ \E b : hist' = [hist EXCEPT !.short = b]
    BY <1>1 DEF Cuts, EndsBody, Overruns, Skips, PutsHeader, Stops, BeginsStream
  <2>2. hist \in Histories
    BY Typed DEF Carried
  <2>3. QED
    BY <2>1, <2>2 DEF Histories
<1>3. RoomInPacket' = RoomInPacket /\ (Alone' <=> Alone)
  BY <1>1, <1>2, SameLimit, AloneStays
<1> SUFFICES ASSUME Alone PROVE Single'
  BY <1>3 DEF Single
<1> DEFINE q == Tail(tx.headerq)
           size == First.length
<1>4. /\ tx \in Sender /\ First \in Element /\ tx.headerq \in Seq(Element)
      /\ Len(tx.headerq) \in Nat \ {0} /\ q \in Seq(Element)
      /\ Len(q) = Len(tx.headerq) - 1
      /\ \A i \in 1..Len(tx.headerq) - 1 : q[i] = tx.headerq[i + 1]
      /\ tx.left \in Nat /\ size \in Nat
  BY <1>1, Queue DEF Carried, TypeOK, First, Sender, Element
<1>5. /\ ~tx.suspend /\ \A i \in 1..Len(tx.headerq) : Whole(tx.headerq[i])
      /\ tx.left <= RoomInPacket /\ Fits(tx.headerq, tx.left)
      /\ \A i \in 1..Len(link.pkts) : link.pkts[i].op # "NEXT"
  BY <1>1 DEF Single
<1>6. size <= tx.left /\ Fits(q, tx.left - size)
  BY <1>1, <1>4, <1>5, FitsFirst DEF First
<1>7. 1 \in 1..Len(tx.headerq) /\ Whole(First) /\ Known(First, hist.added)
  BY <1>4, <1>5 DEF First, Packs, OneBody
<1>8. ~First.suspend
  BY <1>7 DEF Known, Alone
<1>9. /\ Filler \in Sender /\ ~Filler.suspend /\ Filler.left = tx.left
      /\ Filler.addmore = tx.addmore
  BY <1>4, <1>5, <1>8, FlaggedIs DEF Filler
<1>10. \A i \in 1..Len(q) : Whole(q[i])
  <2>1. \A i \in 1..Len(q) : i + 1 \in 1..Len(tx.headerq)
    BY <1>4
  <2>2. QED
    BY <1>4, <1>5, <2>1
(* Item x of at most the size of the first header goes.                    *)
<1>11. ASSUME NEW x \in Item, NEW n \in Nat, n <= size,
              tx' = AfterItem(Filler, x, q, n)
       PROVE  Single'
  <2> HIDE DEF size
  <2>1. Follows(tx', Filler, x, q, n)
    BY <1>4, <1>9, <1>11, AfterItemIs
  <2> HIDE DEF q
  <2>2. RoomInPacket \in Nat /\ RoomInPacket <= 65535
    BY Room
  <2>3. (tx.left - n) % 65536 = tx.left - n
    <3>1. tx.left - n \in Int /\ 0 <= tx.left - n /\ tx.left - n < 65536
      BY <1>4, <1>5, <1>6, <1>11, <2>2
    <3>2. QED
      BY <3>1, Wraps
  <2>4. /\ tx'.pc = "fill" /\ tx'.headerq = q /\ tx'.left = tx.left - n
        /\ ~tx'.suspend /\ (tx'.left # 0 => tx'.addmore)
    BY <1>1, <1>9, <2>1, <2>3 DEF Follows
  <2>5. tx'.left <= RoomInPacket /\ Fits(q, tx'.left)
    <3>1. tx.left - size \in Nat /\ tx.left - n \in Nat /\ tx.left - size <= tx.left - n
      BY <1>4, <1>6, <1>11
    <3>2. Fits(q, tx.left - n)
      BY <1>4, <1>6, <3>1, FitsMore
    <3>3. tx.left - n <= RoomInPacket
      BY <1>4, <1>5, <1>11, <2>2
    <3>4. QED
      BY <2>4, <3>2, <3>3
  <2>6. tx'.addmore \/ q = <<>>
    <3> SUFFICES ASSUME q # <<>>, tx'.left = 0 PROVE FALSE
      BY <2>4
    <3>1. 1 \in 1..Len(q) /\ Whole(q[1])
      BY <1>4, <1>10, EmptySeq
    <3>2. q[1].length <= 0
      BY <1>4, <2>5, FitsFirst
    <3>3. q[1].length \in Nat
      <4>1. q[1] \in Element
        BY <1>4, <3>1, ElementOfSeq
      <4>2. QED
        BY <4>1 DEF Element
    <3>4. QED
      BY <3>1, <3>2, <3>3 DEF Whole
  <2>7. QED
    BY <1>1, <1>3, <1>5, <1>10, <2>4, <2>5, <2>6 DEF Single
<1>12. Len(First.data) \in Nat
  BY <1>4, LenProperties DEF Element
<1>13. ~Skips /\ ~BeginsStream
  BY <1>7 DEF Skips, BeginsStream, Whole
<1>14. ASSUME NEW f \in Seq(Nat), NEW r \in Seq(Nat), Cuts(f, r) PROVE FALSE
  <2>1. /\ First.kind = "BODY" /\ Len(f) = tx.left - 3
        /\ Len(r) > 0 /\ Len(f) + Len(r) = Len(First.data)
    BY <1>14 DEF Cuts
  <2>2. size >= Len(First.data) + 3
    BY <1>7, <2>1 DEF Whole
  <2>3. Len(r) \in Nat
    BY LenProperties
  <2> HIDE DEF size
  <2>4. QED
    BY <1>4, <1>6, <1>12, <2>1, <2>2, <2>3
<1>15. ~Overruns
  <2> SUFFICES ASSUME First.kind = "BODY", tx.left < 3 PROVE FALSE
    BY DEF Overruns
  <2>1. size >= Len(First.data) + 3
    BY <1>7 DEF Whole
  <2> HIDE DEF size
  <2>2. QED
    BY <1>4, <1>6, <1>12, <2>1
<1>16. ~Stops
  <2> SUFFICES ASSUME size > tx.left PROVE FALSE
    BY DEF Stops
  <2> HIDE DEF size
  <2>1. QED
    BY <1>4, <1>6
<1>17. CASE EndsBody
  <2> DEFINE x == ItemOf(First, "BODY_END", First.data)
             n == Len(First.data)
  <2>1. First.kind = "BODY" /\ x \in Item /\ tx' = AfterItem(Filler, x, q, n)
    BY <1>17 DEF EndsBody
  <2>2. size >= n + 3
    BY <1>7, <2>1 DEF Whole
  <2>3. n \in Nat /\ n <= size
    BY <1>4, <1>12, <2>2
  <2> HIDE DEF x, n
  <2>4. QED
    BY <1>11, <2>1, <2>3
<1>18. CASE PutsHeader
  <2> DEFINE x == HeaderItem(First)
  <2>1. x \in Item /\ tx' = AfterItem(Filler, x, q, size)
    BY <1>18 DEF PutsHeader
  <2> HIDE DEF x
  <2>2. size <= size
    BY <1>4
  <2>3. QED
    BY <1>4, <1>11, <2>1, <2>2
<1>19. QED
  BY <1>1, <1>13, <1>14, <1>15, <1>16, <1>17, <1>18

LEMMA SingleAtFirst == Init => Single
<1> SUFFICES ASSUME Init PROVE Single
  OBVIOUS
<1>1. /\ tx = NewSender(env.nonhdr) /\ link.pkts = <<>> /\ hist.added = <<>>
  BY DEF Init
<1>2. /\ tx.pc = "add" /\ tx.headerq = <<>> /\ tx.totallen = 0 /\ ~tx.suspend
  BY <1>1 DEF NewSender
<1>3. RoomInPacket \in Nat /\ Fits(<<>>, 0)
  BY Room, FitsEmpty
<1>4. 0 <= RoomInPacket
  BY <1>3
<1>5. QED
  BY <1>1, <1>2, <1>3, <1>4 DEF Single

LEMMA SingleStep == Carried /\ Packs /\ Single /\ [Next]_vars => Single'
<1> SUFFICES ASSUME Carried, Packs, Single, [Next]_vars PROVE Single'
  OBVIOUS
<1>1. CASE Passes
  BY <1>1, PassesRest, RestSingle
<1>2. CASE UNCHANGED vars
  <2>1. /\ env' = env /\ tx' = tx /\ link' = link /\ hist' = hist /\ phase' = phase
    BY <1>2 DEF vars
  <2>2. Rests
    BY <2>1, SamePackets DEF Rests, Packing
  <2>3. QED
    BY <2>2, RestSingle
<1>3. ASSUME \/ \E n \in ChunkSizes, end \in BOOLEAN : AnswerStream(n, end)
             \/ \E suspend \in BOOLEAN : AnswerStreamNothing(suspend)
             \/ CopyStream
      PROVE  Single'
  <2>1. hist \in Histories
    BY Typed DEF Carried
  <2>2. tx.pc \in {"ask", "copy"} /\ env' = env
    BY <1>3 DEF AnswerStream, AnswerStreamNothing, CopyStream
  <2>3. \/ hist' = hist
        \/ \E given, chunks : hist' = [hist EXCEPT !.given = given, !.chunks = chunks]
        \/ \E faults : hist' = [hist EXCEPT !.faults = faults]
    BY <1>3 DEF AnswerStream, AnswerStreamNothing, CopyStream
  <2>4. hist'.added = hist.added /\ hist'.fits = hist.fits
    BY <2>1, <2>3 DEF Histories
  <2>5. ~Alone' 
    BY <2>2, <2>4, AloneStays DEF Single
  <2>6. QED
    BY <2>5 DEF Single
<1>4. CASE Works
  BY <1>3, <1>4, FillSingle DEF Works
<1>5. QED
  BY <1>1, <1>2, <1>4, Steps, AddSingle, SendSingle, FinishSingle, Zenon DEF Passes

(* "In this command all headers must fit in one packet!"                   *)
(* (obex_object_addheader with OBEX_FL_FIT_ONE_PACKET): what was accepted  *)
(* so is sent in one packet, where packets are not cut to the frames of    *)
(* IrDA and nothing suspends the transfer.                                 *)
THEOREM OnePacket == Spec => []FitsOnePacket
<1>1. Init => Carried /\ Packs /\ Single
  BY CarriedAtFirst, PacksAtFirst, SingleAtFirst
<1>2. Carried /\ Packs /\ Single /\ [Next]_vars => (Carried /\ Packs /\ Single)'
  BY CarriedStep, PacksStep, SingleStep
<1>3. Single => FitsOnePacket
  BY DEF Single, Alone, FitsOnePacket
<1>4. QED
  BY <1>1, <1>2, <1>3, PTL DEF Spec
=============================================================================
