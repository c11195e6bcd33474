--------------------------- MODULE ObexBodyProofs ---------------------------
(***************************************************************************)
(* Theorems about ObexWire: the bytes of a body, from the application that *)
(* gives them to the one that receives them.  They are numbered, so what   *)
(* the receiver has, what is in the packet on its way and what the sender  *)
(* has left are three intervals that follow each other.                    *)
(***************************************************************************)
EXTENDS ObexWireProofs

(* Header x of a packet takes the body from its a-th byte to its b-th.     *)
Spans(x, a, b) ==
  IF x.kind = "HEADER" THEN b = a
  ELSE b = a + Len(x.data) /\ \A k \in 1..Len(x.data) : x.data[k] = a + k

(* So do the headers of a packet together: the first i of them to pos[i].  *)
Runs(items, a, b) ==
  \E pos \in [0..Len(items) -> Nat] :
    /\ pos[0] = a /\ pos[Len(items)] = b
    /\ \A i \in 1..Len(items) : Spans(items[i], pos[i - 1], pos[i])

(* The bytes d follow the m-th.                                            *)
From(d, m) == \A k \in 1..Len(d) : d[k] = m + k

LEMMA RunsEmpty ==
  ASSUME NEW a \in Nat
  PROVE  Runs(<<>>, a, a)
<1> DEFINE pos == [i \in 0..0 |-> a]
<1>1. Len(<<>>) = 0 /\ 0 \in 0..0
  OBVIOUS
<1>2. pos \in [0..0 -> Nat] /\ pos[0] = a
  BY <1>1
<1> HIDE DEF pos
<1>3. QED
  BY <1>1, <1>2 DEF Runs

LEMMA RunsAppend ==
  ASSUME NEW items \in Seq(Item), NEW a \in Nat, NEW b \in Nat, NEW c \in Nat,
         NEW x \in Item, Runs(items, a, b), Spans(x, b, c)
  PROVE  Runs(Append(items, x), a, c)
<1> DEFINE n == Len(items)
           s == Append(items, x)
<1>1. /\ n \in Nat /\ Len(s) = n + 1 /\ s[n + 1] = x
      /\ \A i \in 1..n : s[i] = items[i]
  BY LenProperties, AppendProperties
<1>2. PICK pos \in [0..n -> Nat] :
        /\ pos[0] = a /\ pos[n] = b
        /\ \A i \in 1..n : Spans(items[i], pos[i - 1], pos[i])
  BY DEF Runs
<1> DEFINE more == [i \in 0..n + 1 |-> IF i = n + 1 THEN c ELSE pos[i]]
<1> HIDE DEF n, s
<1>3. \A i \in 0..n + 1 : i # n + 1 => i \in 0..n
  BY <1>1
<1>4. more \in [0..n + 1 -> Nat]
  BY <1>1, <1>2, <1>3
<1>5. /\ more[n + 1] = c
      /\ \A i \in 0..n : more[i] = pos[i]
      /\ 0 \in 0..n /\ n \in 0..n
  <2>1. \A i \in 0..n : i \in 0..n + 1 /\ i # n + 1
    BY <1>1
  <2>2. n + 1 \in 0..n + 1 /\ 0 \in 0..n /\ n \in 0..n
    BY <1>1
  <2>3. QED
    BY <2>1, <2>2
<1> HIDE DEF more
<1>6. \A i \in 1..n + 1 : Spans(s[i], more[i - 1], more[i])
  <2> TAKE i \in 1..n + 1
  <2>1. CASE i = n + 1
    <3>1. i - 1 = n /\ more[i - 1] = b
      BY <1>1, <1>2, <1>5, <2>1
    <3>2. QED
      BY <1>1, <1>5, <2>1, <3>1
  <2>2. CASE i # n + 1
    <3>1. i \in 1..n /\ i \in 0..n /\ i - 1 \in 0..n
      BY <1>1, <2>2
    <3>2. QED
      BY <1>1, <1>2, <1>5, <3>1
  <2>3. QED
    BY <2>1, <2>2
<1>7. more[0] = a /\ more[n + 1] = c
  BY <1>2, <1>5
<1>8. \E p \in [0..Len(s) -> Nat] :
        /\ p[0] = a /\ p[Len(s)] = c
        /\ \A i \in 1..Len(s) : Spans(s[i], p[i - 1], p[i])
  BY <1>1, <1>4, <1>6, <1>7
<1>9. QED
  BY <1>8 DEF Runs, s

LEMMA RunsTail ==
  ASSUME NEW items \in Seq(Item), items # <<>>, NEW a \in Nat, NEW c \in Nat,
         Runs(items, a, c)
  PROVE  \E b \in Nat : Spans(Head(items), a, b) /\ Runs(Tail(items), b, c)
<1> DEFINE n == Len(items)
           s == Tail(items)
<1>1. /\ n \in Nat \ {0} /\ Len(s) = n - 1 /\ Head(items) = items[1]
      /\ \A i \in 1..n - 1 : s[i] = items[i + 1]
  BY LenProperties, EmptySeq, HeadTailProperties
<1>2. PICK pos \in [0..n -> Nat] :
        /\ pos[0] = a /\ pos[n] = c
        /\ \A i \in 1..n : Spans(items[i], pos[i - 1], pos[i])
  BY DEF Runs
<1> DEFINE less == [i \in 0..n - 1 |-> pos[i + 1]]
<1> HIDE DEF n, s
<1>3. \A i \in 0..n - 1 : i + 1 \in 0..n
  BY <1>1
<1>4. less \in [0..n - 1 -> Nat]
  BY <1>2, <1>3
<1>5. \A i \in 0..n - 1 : less[i] = pos[i + 1]
  OBVIOUS
<1>6. 0 \in 0..n - 1 /\ n - 1 \in 0..n - 1 /\ 1 \in 1..n /\ 1 \in 0..n
  BY <1>1
<1> HIDE DEF less
<1>7. \A i \in 1..n - 1 : Spans(s[i], less[i - 1], less[i])
  <2> TAKE i \in 1..n - 1
  <2>1. i + 1 \in 1..n /\ i - 1 \in 0..n - 1 /\ i \in 0..n - 1
        /\ (i + 1) - 1 = i /\ (i - 1) + 1 = i
    BY <1>1
  <2>2. Spans(items[i + 1], pos[i], pos[i + 1])
    BY <1>2, <2>1
  <2>3. QED
    BY <1>1, <1>5, <2>1, <2>2
<1>8. less[0] = pos[1] /\ less[n - 1] = c
  <2>1. (n - 1) + 1 = n /\ 0 + 1 = 1
    BY <1>1
  <2>2. QED
    BY <1>2, <1>5, <1>6, <2>1
<1>9. Spans(Head(items), a, pos[1])
  <2>1. 1 - 1 = 0
    OBVIOUS
  <2>2. QED
    BY <1>1, <1>2, <1>6, <2>1
<1>10. pos[1] \in Nat
  BY <1>2, <1>6
<1>11. \E p \in [0..Len(s) -> Nat] :
         /\ p[0] = pos[1] /\ p[Len(s)] = c
         /\ \A i \in 1..Len(s) : Spans(s[i], p[i - 1], p[i])
  BY <1>1, <1>4, <1>7, <1>8
<1>12. Runs(s, pos[1], c)
  BY <1>11 DEF Runs
<1>13. QED
  BY <1>9, <1>10, <1>12 DEF s

(* Without a fragment among them they take nothing of the body.            *)
LEMMA RunsHeaders ==
  ASSUME NEW items \in Seq(Item), NEW a \in Nat, NEW b \in Nat, Runs(items, a, b),
         \A i \in 1..Len(items) : items[i].kind = "HEADER"
  PROVE  a = b
<1> DEFINE n == Len(items)
<1>1. n \in Nat
  BY LenProperties
<1>2. PICK pos \in [0..n -> Nat] :
        /\ pos[0] = a /\ pos[n] = b
        /\ \A i \in 1..n : Spans(items[i], pos[i - 1], pos[i])
  BY DEF Runs
<1> DEFINE T == {k \in 0..n : pos[k] = a}
<1>3. \A i \in 1..n : pos[i] = pos[i - 1]
  BY <1>2 DEF Spans
<1> HIDE DEF n
<1>4. 0 \in T
  BY <1>1, <1>2
<1>5. \A k \in 1..n : k - 1 \in T => k \in T
  BY <1>1, <1>3
<1>6. T = 0..n
  <2>1. T \in SUBSET (0..n)
    OBVIOUS
  <2> HIDE DEF T
  <2>2. QED
    BY <1>1, <1>4, <1>5, <2>1, UpTo
<1>7. n \in T
  BY <1>1, <1>6
<1>8. QED
  BY <1>2, <1>7

LEMMA FromNumbers ==
  ASSUME NEW d \in Seq(Nat), From(d, 0)
  PROVE  d = Numbers(0, Len(d))
<1>1. Len(d) \in Nat /\ \A k \in 1..Len(d) : d[k] = 0 + k
  BY LenProperties DEF From
<1>2. /\ Numbers(0, Len(d)) \in Seq(Nat) /\ Len(Numbers(0, Len(d))) = Len(d)
      /\ \A k \in 1..Len(d) : Numbers(0, Len(d))[k] = 0 + k
  BY <1>1, NumbersIs
<1>3. QED
  BY <1>1, <1>2, SeqEqual

LEMMA NumbersFrom ==
  ASSUME NEW m \in Nat, NEW n \in Nat
  PROVE  From(Numbers(m, n), m)
BY NumbersIs DEF From

(* Bytes that follow each other, one after the other or together.          *)
LEMMA FromConcat ==
  ASSUME NEW s \in Seq(Nat), NEW t \in Seq(Nat), NEW m \in Nat
  PROVE  From(s \o t, m) <=> From(s, m) /\ From(t, m + Len(s))
<1> DEFINE a == Len(s)
           b == Len(t)
           u == s \o t
<1>1. a \in Nat /\ b \in Nat /\ Len(u) = a + b
  BY LenProperties, ConcatProperties
<1>2. \A i \in 1..a + b : u[i] = IF i <= a THEN s[i] ELSE t[i - a]
  BY ConcatProperties
<1> HIDE DEF a, b, u
<1>3. \A i \in 1..a : u[i] = s[i]
  BY <1>1, <1>2
<1>4. \A i \in 1..b : u[a + i] = t[i]
  <2> TAKE i \in 1..b
  <2>1. a + i \in 1..a + b /\ ~(a + i <= a) /\ (a + i) - a = i
    BY <1>1
  <2>2. QED
    BY <1>2, <2>1
<1>5. ASSUME From(u, m) PROVE From(s, m) /\ From(t, m + a)
  <2>1. \A i \in 1..a + b : u[i] = m + i
    BY <1>1, <1>5 DEF From
  <2>2. \A i \in 1..a : s[i] = m + i
    <3> TAKE i \in 1..a
    <3>1. i \in 1..a + b
      BY <1>1
    <3>2. QED
      BY <1>3, <2>1, <3>1
  <2>3. \A i \in 1..b : t[i] = m + a + i
    <3> TAKE i \in 1..b
    <3>1. a + i \in 1..a + b
      BY <1>1
    <3>2. t[i] = m + (a + i)
      BY <1>4, <2>1, <3>1
    <3>3. QED
      BY <1>1, <3>2
  <2>4. QED
    BY <2>2, <2>3 DEF From, a, b
<1>6. ASSUME From(s, m), From(t, m + a) PROVE From(u, m)
  <2>1. \A i \in 1..a : s[i] = m + i
    BY <1>6 DEF From, a
  <2>2. \A i \in 1..b : t[i] = (m + a) + i
    BY <1>6 DEF From, b
  <2>3. \A i \in 1..a + b : u[i] = m + i
    <3> TAKE i \in 1..a + b
    <3>1. CASE i <= a
      <4>1. i \in 1..a
        BY <1>1, <3>1
      <4>2. QED
        BY <1>3, <2>1, <4>1
    <3>2. CASE ~(i <= a)
      <4>1. i - a \in 1..b
        BY <1>1, <3>2
      <4>2. u[i] = t[i - a]
        BY <1>2, <3>2
      <4>3. u[i] = (m + a) + (i - a)
        BY <2>2, <4>1, <4>2
      <4>4. QED
        BY <1>1, <4>3
    <3>3. QED
      BY <3>1, <3>2
  <2>4. QED
    BY <1>1, <2>3 DEF From
<1>7. QED
  BY <1>5, <1>6 DEF a, u

(***************************************************************************)
(* Where the body is.                                                      *)
(***************************************************************************)
Queued(q) == \E i \in 1..Len(q) : IsBody(q[i].kind)
BodyAdded == Queued(hist.added)

(* The headers on their way: those not parsed yet of the packet that is    *)
(* read, else those of the packet that is made or sent.                    *)
Moving ==
  IF rx.pc = "parse" THEN rx.todo
  ELSE IF tx.pc \in {"fill", "ask", "copy", "write"} THEN tx.items
  ELSE IF tx.pc = "wait" THEN link.pkts[1].items
  ELSE <<>>

(* The end of the body has not been received.                              *)
Pending == Queued(tx.headerq) \/ HasEnd(Moving)

(* What the sender has of a stream, and what it has left of the body.      *)
StreamLeft(t) == IF t.pc \in {"ask", "copy"} THEN t.frag \o t.s_data ELSE t.s_data
Leaves(t, d) ==
  /\ ~Queued(t.headerq) => d = <<>>
  /\ \A i \in 1..Len(t.headerq) : IsBody(t.headerq[i].kind) =>
       d = IF t.headerq[i].kind = "BODY" THEN t.headerq[i].data ELSE StreamLeft(t)

(* The three intervals: a bytes have been received, items are on their     *)
(* way, and with what is left there are as many as were given.             *)
Flows(items, t, a, given) ==
  \E m \in Nat, d \in Seq(Nat) :
    /\ Runs(items, a, m) /\ Leaves(t, d) /\ From(d, m)
    /\ given = m + Len(d)

At == IF env.streams THEN Len(hist.streamed) ELSE Len(rx.body)

(* After the last fragment of the body there is no other, and before it    *)
(* the sender has not taken the body from its queue.                       *)
Tidy(items, q, added) ==
  \A i \in 1..Len(items) :
    /\ items[i].no \in 1..Len(added)
    /\ items[i].kind = "HEADER" => ~IsBody(added[items[i].no].kind)
    /\ items[i].kind # "HEADER" => Queued(q) \/ HasEnd(items)
    /\ items[i].kind = "BODY_END" =>
         ~Queued(q) /\ \A j \in i + 1..Len(items) : items[j].kind = "HEADER"

(* A header of the object is not a body ...                                *)
Other(h, added) == h.no \in 1..Len(added) /\ ~IsBody(added[h.no].kind)

(* ... or it is the body, with all its bytes.                              *)
Entire(h, added, given) ==
  /\ h.no \in 1..Len(added)
  /\ IsBody(added[h.no].kind) => h.data = Numbers(0, given)

Untouched ==
  /\ hist.given = 0 /\ hist.streamed = <<>> /\ hist.eos = 0
  /\ rx.body = <<>> /\ tx.s_data = <<>>

Awaited ==
  /\ hist.eos = 0
  /\ \A i \in 1..Len(Received) : Other(Received[i], hist.added)
  /\ ~rx.abort => Flows(Moving, tx, At, hist.given)

Heard == BodyAdded /\ env.streams /\ ~rx.abort => hist.eos = 1

OnWay ==
  /\ ~BodyAdded => Untouched
  /\ Tidy(Moving, tx.headerq, hist.added)
  /\ tx.pc = "ask" => tx.s_data = <<>>
  /\ Pending => BodyAdded /\ Awaited
  /\ ~Pending => Heard

Arrived ==
  /\ InOrder
  /\ hist.eos <= 1
  /\ hist.eos = 1 => Len(hist.streamed) = hist.given
  /\ rx.abort => env.streams
  /\ \A i \in 1..Len(Received) : Entire(Received[i], hist.added, hist.given)
  /\ phase = "done" => Heard

Journey == Arrived /\ (phase = "open" => OnWay)

LEMMA JourneyIsWhole ==
  ASSUME Journey
  PROVE  BodyWhole
<1>1. EndOfStreamLast
  BY DEF Journey, Arrived, EndOfStreamLast, Heard, BodyAdded, Queued, IsBody
<1>2. \A i \in 1..Len(Received) :
        LET h == Received[i]
        IN  hist.added[h.no].kind \in {"BODY", "STREAM"} =>
              h.data = Numbers(0, hist.given)
  BY DEF Journey, Arrived, Entire, IsBody
<1>3. QED
  BY <1>1, <1>2 DEF BodyWhole, Journey, Arrived

LEMMA JourneyAtFirst == Init => Journey
<1> SUFFICES ASSUME Init PROVE Journey
  OBVIOUS
<1>1. /\ tx = NewSender(env.nonhdr) /\ phase = "open"
      /\ rx.pc = "read" /\ rx.headerq = <<>> /\ rx.rm = <<>> /\ rx.body = <<>>
      /\ rx.abort = FALSE
      /\ hist.added = <<>> /\ hist.given = 0 /\ hist.streamed = <<>> /\ hist.eos = 0
  BY DEF Init
<1>2. tx.pc = "add" /\ tx.headerq = <<>> /\ tx.s_data = <<>>
  BY <1>1 DEF NewSender
<1>3. Moving = <<>> /\ ~HasEnd(<<>>) /\ ~Queued(<<>>)
  BY <1>1, <1>2 DEF Moving, HasEnd, Queued
<1>4. OnWay
  BY <1>1, <1>2, <1>3 DEF OnWay, Untouched, Tidy, Pending, Heard, BodyAdded
<1>5. Received = <<>>
  BY <1>1 DEF Received
<1>6. <<>> = Numbers(0, Len(<<>>))
  <2>1. <<>> \in Seq(Nat)
    BY EmptySeq
  <2>2. From(<<>>, 0)
    BY DEF From
  <2>3. QED
    BY <2>1, <2>2, FromNumbers
<1>7. InOrder
  BY <1>1, <1>6 DEF InOrder
<1>8. QED
  BY <1>1, <1>4, <1>5, <1>7 DEF Journey, Arrived

(***************************************************************************)
(* The sender.                                                             *)
(***************************************************************************)
LEMMA QueuedAdded ==
  ASSUME OneBody, Queued(tx.headerq)
  PROVE  BodyAdded
<1>1. PICK i \in 1..Len(tx.headerq) : IsBody(tx.headerq[i].kind)
  BY DEF Queued
<1>2. Known(tx.headerq[i], hist.added)
  BY DEF OneBody
<1>3. QED
  BY <1>1, <1>2 DEF Known, BodyAdded, Queued

(* While the sender works the receiver has what it had.                    *)
LEMMA SenderKeeps ==
  ASSUME OneBody, Journey, phase = "open", phase' = "open",
         env' = env, rx' = rx, hist'.added = hist.added,
         hist'.streamed = hist.streamed, hist'.eos = hist.eos,
         hist'.given = hist.given \/ Queued(tx.headerq),
         tx'.s_data = tx.s_data \/ Queued(tx.headerq),
         Tidy(Moving', tx'.headerq, hist.added),
         tx'.pc = "ask" => tx'.s_data = <<>>,
         Pending' <=> Pending,
         Pending /\ ~rx.abort => Flows(Moving', tx', At, hist'.given)
  PROVE  Journey'
<1>1. Arrived /\ OnWay
  BY DEF Journey
<1>2. At' = At /\ Received' = Received /\ (BodyAdded' <=> BodyAdded)
  BY DEF At, Received, BodyAdded
<1>3. ~BodyAdded => ~Queued(tx.headerq)
  BY QueuedAdded
<1>4. Queued(tx.headerq) => Pending
  BY DEF Pending
<1>5. ~BodyAdded' => Untouched'
  BY <1>1, <1>2, <1>3 DEF OnWay, Untouched
<1>6. Pending' => Awaited'
  <2> SUFFICES ASSUME Pending PROVE Awaited'
    OBVIOUS
  <2>1. Awaited
    BY <1>1 DEF OnWay
  <2>2. QED
    BY <1>2, <2>1 DEF Awaited
<1>7. ~Pending' => Heard'
  BY <1>1, <1>2 DEF OnWay, Heard
<1>8. Tidy(Moving, tx.headerq, hist.added)'
  OBVIOUS
<1>9. OnWay'
  <2>1. Pending' => BodyAdded'
    BY <1>1, <1>2 DEF OnWay
  <2>2. QED
    BY <1>5, <1>6, <1>7, <1>8, <2>1 DEF OnWay
<1>10. ASSUME NEW i \in 1..Len(Received)
       PROVE  Entire(Received[i], hist.added, hist'.given)
  <2>1. CASE hist'.given = hist.given
    BY <1>1, <2>1 DEF Arrived
  <2>2. CASE Queued(tx.headerq)
    <3>1. Other(Received[i], hist.added)
      BY <1>1, <1>4, <2>2 DEF OnWay, Awaited
    <3>2. QED
      BY <3>1 DEF Other, Entire
  <2>3. QED
    BY <2>1, <2>2
<1>11. hist.eos = 1 => Len(hist.streamed) = hist'.given
  <2>1. CASE hist'.given = hist.given
    BY <1>1, <2>1 DEF Arrived
  <2>2. CASE Queued(tx.headerq)
    BY <1>1, <1>4, <2>2 DEF OnWay, Awaited
  <2>3. QED
    BY <2>1, <2>2
<1>12. InOrder'
  BY <1>1 DEF Arrived, InOrder
<1>13. Arrived'
  BY <1>1, <1>2, <1>10, <1>11, <1>12 DEF Arrived
<1>14. QED
  BY <1>9, <1>13 DEF Journey

(* Header x of queue q, of which more is left, goes into the packet.       *)
LEMMA PutTidy ==
  ASSUME NEW items \in Seq(Item), NEW x \in Item, NEW q, NEW more, NEW added,
         Tidy(items, q, added), x.no \in 1..Len(added),
         x.kind = "HEADER" => ~IsBody(added[x.no].kind),
         x.kind # "HEADER" => Queued(q),
         Queued(more) <=> Queued(q) /\ x.kind # "BODY_END"
  PROVE  /\ Tidy(Append(items, x), more, added)
         /\ Queued(more) \/ HasEnd(Append(items, x)) <=> Queued(q) \/ HasEnd(items)
<1> DEFINE n == Len(items)
           s == Append(items, x)
<1>1. /\ n \in Nat /\ Len(s) = n + 1 /\ s[n + 1] = x
      /\ \A i \in 1..n : s[i] = items[i]
  BY LenProperties, AppendProperties
<1> HIDE DEF n, s
<1>2. \A i \in 1..n : i \in 1..n + 1
  BY <1>1
<1>3. n + 1 \in 1..n + 1 /\ \A i \in 1..n + 1 : i = n + 1 \/ i \in 1..n
  BY <1>1
<1>4. HasEnd(s) <=> HasEnd(items) \/ x.kind = "BODY_END"
  BY <1>1, <1>2, <1>3 DEF HasEnd, n
<1>5. HasEnd(items) => ~Queued(q)
  BY DEF HasEnd, Tidy
<1>6. Queued(more) \/ HasEnd(s) <=> Queued(q) \/ HasEnd(items)
  <2>1. x.kind = "BODY_END" => Queued(q)
    OBVIOUS
  <2>2. QED
    BY <1>4, <1>5, <2>1
<1>7. ASSUME NEW i \in 1..n + 1
      PROVE  /\ s[i].no \in 1..Len(added)
             /\ s[i].kind = "HEADER" => ~IsBody(added[s[i].no].kind)
             /\ s[i].kind # "HEADER" => Queued(more) \/ HasEnd(s)
             /\ s[i].kind = "BODY_END" =>
                  ~Queued(more) /\ \A j \in i + 1..n + 1 : s[j].kind = "HEADER"
  <2>1. CASE i = n + 1
    <3>1. s[i] = x /\ \A j \in i + 1..n + 1 : FALSE
      BY <1>1, <2>1
    <3>2. QED
      BY <1>6, <3>1
  <2>2. CASE i \in 1..n
    <3>1. s[i] = items[i]
      BY <1>1, <2>2
    <3>2. /\ items[i].no \in 1..Len(added)
          /\ items[i].kind = "HEADER" => ~IsBody(added[items[i].no].kind)
          /\ items[i].kind # "HEADER" => Queued(q) \/ HasEnd(items)
          /\ items[i].kind = "BODY_END" =>
               ~Queued(q) /\ \A j \in i + 1..n : items[j].kind = "HEADER"
      BY <2>2 DEF Tidy, n
    <3>3. ASSUME items[i].kind = "BODY_END", NEW j \in i + 1..n + 1
          PROVE  s[j].kind = "HEADER"
      <4>1. x.kind = "HEADER"
        BY <3>2, <3>3
      <4>2. CASE j = n + 1
        BY <1>1, <4>1, <4>2
      <4>3. CASE j # n + 1
        <5>1. j \in i + 1..n /\ j \in 1..n
          BY <1>1, <2>2, <4>3
        <5>2. QED
          BY <1>1, <3>2, <3>3, <5>1
      <4>4. QED
        BY <4>2, <4>3
    <3>4. QED
      BY <1>6, <3>1, <3>2, <3>3
  <2>3. QED
    BY <1>3, <2>1, <2>2
<1>8. Tidy(s, more, added)
  BY <1>1, <1>7 DEF Tidy
<1>9. QED
  BY <1>6, <1>8 DEF s

LEMMA PackingMoves ==
  ASSUME Carried, phase = "open", Packing
  PROVE  Moving = tx.items /\ rx.pc # "parse"
BY DEF Carried, Transit, OnLink, AtReceiver, Packing, Moving

(* The first header of the queue and the others.                           *)
LEMMA QueueTail ==
  ASSUME tx \in Sender, tx.headerq # <<>>
  PROVE  /\ Queued(tx.headerq) <=> IsBody(First.kind) \/ Queued(Tail(tx.headerq))
         /\ OneBody /\ IsBody(First.kind) => ~Queued(Tail(tx.headerq))
<1> DEFINE q == tx.headerq
           r == Tail(q)
           n == Len(q)
<1>1. /\ n \in Nat \ {0} /\ Len(r) = n - 1
      /\ \A i \in 1..n - 1 : r[i] = q[i + 1]
  BY Queue
<1>2. First = q[1]
  BY DEF First
<1> HIDE DEF n, r
<1>3. \A i \in 1..n - 1 : i + 1 \in 1..n /\ i + 1 # 1
  BY <1>1
<1>4. 1 \in 1..n /\ \A i \in 1..n : i = 1 \/ (i - 1 \in 1..n - 1 /\ (i - 1) + 1 = i)
  BY <1>1
<1>5. Queued(r) => \E i \in 1..n : i # 1 /\ IsBody(q[i].kind)
  BY <1>1, <1>3 DEF Queued
<1>6. ASSUME NEW i \in 1..n, IsBody(q[i].kind), i # 1
      PROVE  Queued(r)
  <2>1. i - 1 \in 1..n - 1 /\ (i - 1) + 1 = i
    BY <1>4, <1>6
  <2>2. r[i - 1] = q[i]
    BY <1>1, <2>1
  <2>3. QED
    BY <1>1, <1>6, <2>1, <2>2 DEF Queued
<1>7. Queued(q) <=> \E i \in 1..n : IsBody(q[i].kind)
  BY DEF Queued, n
<1>8. Queued(q) <=> IsBody(First.kind) \/ Queued(r)
  BY <1>2, <1>4, <1>5, <1>6, <1>7
<1>9. ASSUME OneBody, IsBody(First.kind), NEW i \in 1..n, i # 1, IsBody(q[i].kind)
      PROVE  FALSE
  BY <1>2, <1>4, <1>9, OneQueued DEF n
<1>10. QED
  BY <1>5, <1>8, <1>9 DEF r

(* What is left of the body when the first header is not it ...            *)
LEMMA LeavesRest ==
  ASSUME tx \in Sender, tx.headerq # <<>>, ~IsBody(First.kind),
         NEW t, t.headerq = Tail(tx.headerq), StreamLeft(t) = StreamLeft(tx),
         NEW d, Leaves(tx, d)
  PROVE  Leaves(t, d)
<1> DEFINE q == tx.headerq
           r == Tail(q)
           n == Len(q)
<1>1. /\ n \in Nat \ {0} /\ Len(r) = n - 1
      /\ \A i \in 1..n - 1 : r[i] = q[i + 1]
  BY Queue
<1>2. Queued(r) <=> Queued(q)
  BY QueueTail
<1> HIDE DEF n, r
<1>3. \A i \in 1..n - 1 : i + 1 \in 1..n
  BY <1>1
<1>4. ASSUME NEW i \in 1..n - 1, IsBody(r[i].kind)
      PROVE  d = IF r[i].kind = "BODY" THEN r[i].data ELSE StreamLeft(tx)
  <2>1. r[i] = q[i + 1] /\ i + 1 \in 1..n
    BY <1>1, <1>3
  <2>2. QED
    BY <1>4, <2>1 DEF Leaves, n
<1>5. QED
  BY <1>1, <1>2, <1>4 DEF Leaves, r

(* ... and when it is.                                                     *)
LEMMA LeavesFirst ==
  ASSUME tx \in Sender, tx.headerq # <<>>, IsBody(First.kind), NEW d, Leaves(tx, d)
  PROVE  d = IF First.kind = "BODY" THEN First.data ELSE StreamLeft(tx)
<1>1. 1 \in 1..Len(tx.headerq)
  BY Queue
<1>2. QED
  BY <1>1 DEF Leaves, First

LEMMA LeavesNothing ==
  ASSUME NEW t, ~Queued(t.headerq)
  PROVE  Leaves(t, <<>>)
BY DEF Leaves, Queued

(* Header x has been put into the packet.                                  *)
LEMMA PutJourney ==
  ASSUME Carried, OneBody, Journey, Packing, phase = "open", phase' = "open",
         env' = env, rx' = rx, hist'.added = hist.added,
         hist'.streamed = hist.streamed, hist'.eos = hist.eos,
         hist'.given = hist.given \/ Queued(tx.headerq),
         tx'.s_data = tx.s_data \/ Queued(tx.headerq),
         NEW x \in Item, tx'.pc = "fill", tx'.items = Append(tx.items, x),
         x.no \in 1..Len(hist.added),
         x.kind = "HEADER" => ~IsBody(hist.added[x.no].kind),
         x.kind # "HEADER" => Queued(tx.headerq),
         Queued(tx'.headerq) <=> Queued(tx.headerq) /\ x.kind # "BODY_END",
         ~rx.abort /\ Flows(tx.items, tx, At, hist.given) =>
                        Flows(Append(tx.items, x), tx', At, hist'.given)
  PROVE  Journey'
<1>1. Moving = tx.items /\ rx.pc # "parse"
  BY PackingMoves
<1>2. Moving' = tx'.items
  BY <1>1 DEF Moving
<1>3. tx.items \in Seq(Item)
  BY Typed DEF Carried, Sender
<1>4. OnWay
  BY DEF Journey
<1>5. Tidy(tx.items, tx.headerq, hist.added)
  BY <1>1, <1>4 DEF OnWay
<1> DEFINE s == Append(tx.items, x)
           more == tx'.headerq
<1>6. Queued(more) <=> Queued(tx.headerq) /\ x.kind # "BODY_END"
  OBVIOUS
<1> HIDE DEF more
<1>7. /\ Tidy(s, more, hist.added)
      /\ Queued(more) \/ HasEnd(s) <=> Queued(tx.headerq) \/ HasEnd(tx.items)
  BY <1>3, <1>5, <1>6, PutTidy
<1>8. Pending' <=> Pending
  BY <1>1, <1>2, <1>7 DEF Pending, more
<1>9. Tidy(Moving', tx'.headerq, hist.added)
  BY <1>2, <1>7 DEF more
<1>10. Pending /\ ~rx.abort => Flows(Moving', tx', At, hist'.given)
  BY <1>1, <1>2, <1>4 DEF OnWay, Awaited
<1>11. QED
  BY <1>8, <1>9, <1>10, SenderKeeps

(* Nothing has been put into the packet, which is still made.              *)
LEMMA StayJourney ==
  ASSUME Carried, OneBody, Journey, Packing, phase = "open", phase' = "open",
         env' = env, rx' = rx, hist'.added = hist.added,
         hist'.streamed = hist.streamed, hist'.eos = hist.eos,
         hist'.given = hist.given \/ Queued(tx.headerq),
         tx'.s_data = tx.s_data \/ Queued(tx.headerq),
         Packing', tx'.items = tx.items,
         tx'.pc = "ask" => tx'.s_data = <<>>,
         Queued(tx'.headerq) <=> Queued(tx.headerq),
         ~rx.abort /\ Flows(tx.items, tx, At, hist.given) =>
                        Flows(tx.items, tx', At, hist'.given)
  PROVE  Journey'
<1>1. Moving = tx.items /\ rx.pc # "parse"
  BY PackingMoves
<1>2. Moving' = tx.items
  BY <1>1 DEF Moving, Packing
<1>3. OnWay
  BY DEF Journey
<1>4. Pending' <=> Pending
  BY <1>1, <1>2 DEF Pending
<1>5. Tidy(Moving', tx'.headerq, hist.added)
  BY <1>1, <1>2, <1>3 DEF OnWay, Tidy
<1>6. Pending /\ ~rx.abort => Flows(Moving', tx', At, hist'.given)
  BY <1>1, <1>2, <1>3 DEF OnWay, Awaited
<1>7. QED
  BY <1>4, <1>5, <1>6, SenderKeeps

(* The transfer ends, but not as it should.                                *)
LEMMA EndJourney ==
  ASSUME Journey, phase' # "open", phase' = "done" => Heard',
         env' = env, rx'.body = rx.body, rx'.abort = rx.abort, Received' = Received,
         hist'.added = hist.added, hist'.given = hist.given,
         hist'.streamed = hist.streamed, hist'.eos = hist.eos
  PROVE  Journey'
<1>1. Arrived
  BY DEF Journey
<1>2. InOrder'
  BY <1>1 DEF Arrived, InOrder
<1>3. Arrived'
  BY <1>1, <1>2 DEF Arrived
<1>4. QED
  BY <1>3 DEF Journey

LEMMA FillJourney ==
  ASSUME Carried, OneBody, Journey, FillHeader
  PROVE  Journey'
<1>1. /\ phase = "open" /\ tx.pc = "fill" /\ tx.addmore /\ tx.headerq # <<>>
      /\ env' = env /\ link' = link /\ rx' = rx
      /\ \/ \E f, r \in Seq(Nat) : Cuts(f, r)
         \/ EndsBody \/ Overruns \/ Skips \/ PutsHeader \/ Stops \/ BeginsStream
  BY FillIs DEF Carried
<1>2. /\ tx \in Sender /\ First \in Element
      /\ tx.headerq \in Seq(Element) /\ Tail(tx.headerq) \in Seq(Element)
      /\ Len(tx.headerq) \in Nat \ {0} /\ 1 \in 1..Len(tx.headerq)
  BY <1>1, Queue, SMTT(20) DEF Carried, TypeOK, First
<1>3. /\ Filler \in Sender /\ Filler.items = tx.items /\ Filler.left = tx.left
      /\ Filler.headerq = tx.headerq /\ Filler.s_data = tx.s_data
  BY <1>2, FlaggedIs DEF Filler
<1>4. Packing /\ tx.left \in Nat
  BY <1>1, <1>2 DEF Packing, Sender
<1>5. Known(First, hist.added)
  BY <1>2 DEF OneBody, First
<1>6. First.no \in 1..Len(hist.added) /\ hist.added[First.no].kind = First.kind
  BY <1>5 DEF Known
<1>7. StreamLeft(tx) = tx.s_data
  BY <1>1 DEF StreamLeft
<1>8. ASSUME NEW f \in Seq(Nat), NEW r \in Seq(Nat), Cuts(f, r)
      PROVE  Journey'
  <2> DEFINE q == [tx.headerq EXCEPT ![1].data = r]
             x == ItemOf(First, "BODY", f)
  <2>1. /\ q \in Seq(Element) /\ Len(q) = Len(tx.headerq)
        /\ \A i \in 1..Len(tx.headerq) :
             /\ q[i].kind = tx.headerq[i].kind
             /\ q[i].data = IF i = 1 THEN r ELSE tx.headerq[i].data
    BY <1>1, <1>2, <1>8, CutIs
  <2>2. /\ First.kind = "BODY" /\ tx.left >= 3
        /\ Len(f) + Len(r) = Len(First.data)
        /\ \A i \in 1..Len(f) : f[i] = First.data[i]
        /\ \A i \in 1..Len(r) : r[i] = First.data[Len(f) + i]
        /\ x \in Item /\ tx' = AfterItem(Filler, x, q, tx.left)
        /\ phase' = phase /\ hist' = hist
    BY <1>8 DEF Cuts
  <2>3. x.kind = "BODY" /\ x.data = f /\ x.no = First.no
    BY <1>2, ItemOfIs
  <2> HIDE DEF q, x
  <2>4. /\ tx'.pc = "fill" /\ tx'.items = Append(tx.items, x)
        /\ tx'.headerq = q /\ tx'.s_data = tx.s_data
    <3>1. Follows(AfterItem(Filler, x, q, tx.left), Filler, x, q, tx.left)
      BY <1>3, <1>4, <2>1, <2>2, AfterItemIs
    <3>2. QED
      BY <1>3, <2>2, <3>1 DEF Follows
  <2>5. IsBody(First.kind) /\ Queued(tx.headerq) /\ Queued(q)
    BY <1>2, <2>1, <2>2 DEF IsBody, Queued, First
  <2>6. ASSUME Flows(tx.items, tx, At, hist.given)
        PROVE  Flows(Append(tx.items, x), tx', At, hist.given)
    <3>1. PICK m \in Nat, d \in Seq(Nat) :
            /\ Runs(tx.items, At, m) /\ Leaves(tx, d) /\ From(d, m)
            /\ hist.given = m + Len(d)
      BY <2>6 DEF Flows
    <3>2. d = First.data
      BY <1>1, <1>2, <2>2, <2>5, <3>1, LeavesFirst
    <3>3. At \in Nat /\ tx.items \in Seq(Item)
      BY <1>2, LenProperties, Typed DEF Carried, At, Histories, Receivers, Sender
    <3> DEFINE k == Len(f)
               c == m + k
    <3>4. k \in Nat /\ Len(r) \in Nat /\ Len(d) = k + Len(r) /\ c \in Nat
      BY <2>2, <3>2, LenProperties
    <3>5. \A i \in 1..Len(d) : d[i] = m + i
      BY <3>1 DEF From
    <3> HIDE DEF k
    <3>6. \A i \in 1..k : f[i] = m + i
      BY <2>2, <3>2, <3>4, <3>5 DEF k
    <3>7. \A i \in 1..Len(r) : r[i] = c + i
      <4> TAKE i \in 1..Len(r)
      <4>1. k + i \in 1..Len(d)
        BY <3>4
      <4>2. r[i] = m + (k + i)
        BY <2>2, <3>2, <3>5, <4>1 DEF k
      <4>3. QED
        BY <3>4, <4>2
    <3>8. From(r, c)
      BY <3>7 DEF From
    <3>9. Spans(x, m, c)
      BY <2>3, <3>6 DEF Spans, k
    <3>10. Runs(Append(tx.items, x), At, c)
      BY <2>2, <3>1, <3>3, <3>4, <3>9, RunsAppend
    <3>11. Leaves(tx', r)
      <4>1. \A i \in 1..Len(q) : IsBody(q[i].kind) => i = 1
        BY <1>2, <2>1, <2>5, OneQueued DEF First
      <4>2. QED
        BY <1>2, <2>1, <2>2, <2>4, <2>5, <4>1 DEF Leaves, First
    <3>12. hist.given = c + Len(r)
      BY <3>1, <3>4
    <3> HIDE DEF c
    <3>13. QED
      BY <3>4, <3>8, <3>10, <3>11, <3>12 DEF Flows
  <2>7. /\ hist'.added = hist.added /\ hist'.given = hist.given
        /\ hist'.streamed = hist.streamed /\ hist'.eos = hist.eos
    BY <2>2
  <2>8. /\ x.no \in 1..Len(hist.added)
        /\ x.kind # "HEADER" /\ x.kind # "BODY_END" /\ Queued(tx'.headerq)
    BY <1>6, <2>3, <2>4, <2>5
  <2>9. QED
    BY <1>1, <1>4, <2>2, <2>4, <2>5, <2>6, <2>7, <2>8, PutJourney
<1>9. CASE EndsBody
  <2> DEFINE q == Tail(tx.headerq)
             x == ItemOf(First, "BODY_END", First.data)
             n == Len(First.data)
  <2>1. First.data \in Seq(Nat) /\ n \in Nat
    BY <1>2, LenProperties DEF Element
  <2>2. /\ First.kind = "BODY"
        /\ x \in Item /\ tx' = AfterItem(Filler, x, q, n)
        /\ phase' = phase /\ hist' = hist
    BY <1>9 DEF EndsBody
  <2>3. x.kind = "BODY_END" /\ x.data = First.data /\ x.no = First.no
    BY <1>2, <2>1, ItemOfIs
  <2> HIDE DEF q, x, n
  <2>4. /\ tx'.pc = "fill" /\ tx'.items = Append(tx.items, x)
        /\ tx'.headerq = q /\ tx'.s_data = tx.s_data
    <3>1. Follows(AfterItem(Filler, x, q, n), Filler, x, q, n)
      BY <1>2, <1>3, <2>1, <2>2, AfterItemIs DEF q
    <3>2. QED
      BY <1>3, <2>2, <3>1 DEF Follows
  <2>5. IsBody(First.kind) /\ Queued(tx.headerq) /\ ~Queued(q)
    BY <1>1, <1>2, <2>2, QueueTail DEF IsBody, q
  <2>6. ASSUME Flows(tx.items, tx, At, hist.given)
        PROVE  Flows(Append(tx.items, x), tx', At, hist.given)
    <3>1. PICK m \in Nat, d \in Seq(Nat) :
            /\ Runs(tx.items, At, m) /\ Leaves(tx, d) /\ From(d, m)
            /\ hist.given = m + Len(d)
      BY <2>6 DEF Flows
    <3>2. d = First.data
      BY <1>1, <1>2, <2>2, <2>5, <3>1, LeavesFirst
    <3>3. At \in Nat /\ tx.items \in Seq(Item)
      BY <1>2, LenProperties, Typed DEF Carried, At, Histories, Receivers, Sender
    <3> DEFINE c == m + Len(d)
    <3>4. c \in Nat
      BY LenProperties
    <3>5. Spans(x, m, c)
      BY <2>3, <3>1, <3>2 DEF Spans, From
    <3>6. Runs(Append(tx.items, x), At, c)
      BY <2>2, <3>1, <3>3, <3>4, <3>5, RunsAppend
    <3>7. Leaves(tx', <<>>)
      BY <2>4, <2>5, LeavesNothing
    <3>8. hist.given = c + Len(<<>>) /\ From(<<>>, c) /\ <<>> \in Seq(Nat)
      BY <3>1, <3>4, EmptySeq DEF From
    <3> HIDE DEF c
    <3>9. QED
      BY <3>4, <3>6, <3>7, <3>8 DEF Flows
  <2>7. /\ hist'.added = hist.added /\ hist'.given = hist.given
        /\ hist'.streamed = hist.streamed /\ hist'.eos = hist.eos
    BY <2>2
  <2>8. /\ x.no \in 1..Len(hist.added)
        /\ x.kind # "HEADER" /\ x.kind = "BODY_END" /\ ~Queued(tx'.headerq)
    BY <1>6, <2>3, <2>4, <2>5
  <2>9. QED
    BY <1>1, <1>4, <2>2, <2>4, <2>5, <2>6, <2>7, <2>8, PutJourney
<1>10. CASE PutsHeader
  <2> DEFINE q == Tail(tx.headerq)
             x == HeaderItem(First)
             n == First.length
  <2>1. /\ Plain(First) /\ x \in Item /\ tx' = AfterItem(Filler, x, q, n)
        /\ phase' = phase /\ hist' = hist
    BY <1>10 DEF PutsHeader
  <2>2. n \in Nat
    BY <1>2 DEF Element
  <2>3. x.kind = "HEADER" /\ x.no = First.no
    BY DEF HeaderItem
  <2> HIDE DEF q, x, n
  <2>4. /\ tx'.pc = "fill" /\ tx'.items = Append(tx.items, x)
        /\ tx'.headerq = q /\ tx'.s_data = tx.s_data
    <3>1. Follows(AfterItem(Filler, x, q, n), Filler, x, q, n)
      BY <1>2, <1>3, <2>1, <2>2, AfterItemIs DEF q
    <3>2. QED
      BY <1>3, <2>1, <3>1 DEF Follows
  <2>5. ~IsBody(First.kind)
    BY <2>1 DEF IsBody, Plain
  <2>6. Queued(q) <=> Queued(tx.headerq)
    BY <1>1, <1>2, <2>5, QueueTail DEF q
  <2>7. ASSUME Flows(tx.items, tx, At, hist.given)
        PROVE  Flows(Append(tx.items, x), tx', At, hist.given)
    <3>1. PICK m \in Nat, d \in Seq(Nat) :
            /\ Runs(tx.items, At, m) /\ Leaves(tx, d) /\ From(d, m)
            /\ hist.given = m + Len(d)
      BY <2>7 DEF Flows
    <3>2. At \in Nat /\ tx.items \in Seq(Item)
      BY <1>2, LenProperties, Typed DEF Carried, At, Histories, Receivers, Sender
    <3>3. Spans(x, m, m)
      BY <2>3 DEF Spans
    <3>4. Runs(Append(tx.items, x), At, m)
      BY <2>1, <3>1, <3>2, <3>3, RunsAppend
    <3>5. StreamLeft(tx') = StreamLeft(tx)
      BY <1>7, <2>4 DEF StreamLeft
    <3>6. Leaves(tx', d)
      BY <1>1, <1>2, <2>4, <2>5, <3>1, <3>5, LeavesRest DEF q
    <3>7. QED
      BY <3>1, <3>4, <3>6 DEF Flows
  <2>8. /\ hist'.added = hist.added /\ hist'.given = hist.given
        /\ hist'.streamed = hist.streamed /\ hist'.eos = hist.eos
    BY <2>1
  <2>9. /\ x.no \in 1..Len(hist.added) /\ ~IsBody(hist.added[x.no].kind)
        /\ x.kind = "HEADER"
    BY <1>6, <2>3, <2>5
  <2>10. QED
    BY <1>1, <1>4, <2>1, <2>4, <2>6, <2>7, <2>8, <2>9, PutJourney
<1>11. CASE Skips
  <2>1. /\ First.kind = "EMPTY" /\ phase' = phase /\ hist' = hist
        /\ tx' = More(Pop(Filler))
    BY <1>11 DEF Skips
  <2>2. /\ tx'.pc = "fill" /\ tx'.items = tx.items
        /\ tx'.headerq = Tail(tx.headerq) /\ tx'.s_data = tx.s_data
    BY <1>1, <1>3, <2>1, SkipIs
  <2>3. ~IsBody(First.kind)
    BY <2>1 DEF IsBody
  <2>4. Queued(tx'.headerq) <=> Queued(tx.headerq)
    BY <1>1, <1>2, <2>2, <2>3, QueueTail
  <2>5. StreamLeft(tx') = StreamLeft(tx)
    BY <1>7, <2>2 DEF StreamLeft
  <2>6. \A d : Leaves(tx, d) => Leaves(tx', d)
    BY <1>1, <1>2, <2>2, <2>3, <2>5, LeavesRest
  <2>7. Flows(tx.items, tx, At, hist.given) => Flows(tx.items, tx', At, hist.given)
    BY <2>6 DEF Flows
  <2>8. Packing' /\ phase' = "open"
    BY <1>1, <2>1, <2>2 DEF Packing
  <2>9. QED
    BY <1>1, <1>4, <2>1, <2>2, <2>4, <2>7, <2>8, StayJourney
<1>12. CASE tx' = [tx EXCEPT !.addmore = FALSE] /\ hist' = hist /\ phase' = phase
  <2>1. /\ tx'.pc = "fill" /\ tx'.items = tx.items /\ tx'.headerq = tx.headerq
        /\ tx'.s_data = tx.s_data
    BY <1>1, <1>2, <1>12 DEF Sender
  <2>2. \A d : Leaves(tx, d) => Leaves(tx', d)
    BY <1>7, <2>1 DEF Leaves, StreamLeft
  <2>3. Flows(tx.items, tx, At, hist.given) => Flows(tx.items, tx', At, hist.given)
    BY <2>2 DEF Flows
  <2>4. Packing' /\ phase' = "open"
    BY <1>1, <1>12, <2>1 DEF Packing
  <2>5. QED
    BY <1>1, <1>4, <1>12, <2>1, <2>3, <2>4, StayJourney
<1>13. CASE phase' \in {"failed", "overrun"} /\ hist' = hist
  <2>1. Received' = Received
    BY <1>1 DEF Received
  <2>2. QED
    BY <1>1, <1>13, <2>1, EndJourney
<1>14. CASE BeginsStream
  <2> DEFINE pc == IF tx.s_data = <<>> THEN "ask" ELSE "copy"
             room == IF tx.left < 3 THEN HUGE ELSE tx.left - 3
             short == hist.short \/ tx.left < SEQHDR
  <2>1. /\ First.kind = "STREAM" /\ phase' = phase
        /\ tx' = [Filler EXCEPT !.pc = pc, !.room = room, !.frag = <<>>]
        /\ hist' = [hist EXCEPT !.short = short]
    BY <1>14 DEF BeginsStream
  <2>2. /\ hist'.added = hist.added /\ hist'.given = hist.given
        /\ hist'.streamed = hist.streamed /\ hist'.eos = hist.eos
    BY <2>1, Typed DEF Carried, Histories
  <2>3. pc \in {"ask", "copy"} /\ (pc = "ask" => tx.s_data = <<>>)
    OBVIOUS
  <2> HIDE DEF pc, room
  <2>4. /\ tx'.pc = pc /\ tx'.items = tx.items /\ tx'.headerq = tx.headerq
        /\ tx'.s_data = tx.s_data /\ tx'.frag = <<>>
    BY <1>3, <2>1 DEF Sender
  <2>5. StreamLeft(tx') = tx.s_data
    <3>1. StreamLeft(tx') = <<>> \o tx.s_data
      BY <2>3, <2>4 DEF StreamLeft
    <3>2. tx.s_data \in Seq(Nat)
      BY <1>2 DEF Sender
    <3>3. QED
      BY <3>1, <3>2, ConcatEmptySeq
  <2>6. \A d : Leaves(tx, d) => Leaves(tx', d)
    BY <1>7, <2>4, <2>5 DEF Leaves
  <2>7. Flows(tx.items, tx, At, hist.given) => Flows(tx.items, tx', At, hist.given)
    BY <2>6 DEF Flows
  <2>8. Packing' /\ phase' = "open" /\ (tx'.pc = "ask" => tx'.s_data = <<>>)
    BY <1>1, <2>1, <2>3, <2>4 DEF Packing
  <2>9. QED
    BY <1>1, <1>4, <2>2, <2>4, <2>7, <2>8, StayJourney
<1>15. Stops => \/ tx' = [tx EXCEPT !.addmore = FALSE] /\ hist' = hist /\ phase' = phase
                \/ phase' \in {"failed", "overrun"} /\ hist' = hist
  BY DEF Stops
<1>16. Overruns => phase' \in {"failed", "overrun"} /\ hist' = hist
  BY DEF Overruns
<1>17. QED
  BY <1>1, <1>8, <1>9, <1>10, <1>11, <1>12, <1>13, <1>14, <1>15, <1>16

(* A stream at the front of the queue is what is left.                     *)
LEMMA StreamLeaves ==
  ASSUME OneBody, tx \in Sender, tx.headerq # <<>>, First.kind = "STREAM",
         NEW t, t.headerq = tx.headerq, NEW d
  PROVE  Leaves(t, d) <=> d = StreamLeft(t)
<1>1. 1 \in 1..Len(tx.headerq) /\ First = tx.headerq[1] /\ IsBody(First.kind)
  BY Queue DEF First, IsBody
<1>2. \A i \in 1..Len(tx.headerq) : IsBody(tx.headerq[i].kind) => i = 1
  BY <1>1, OneQueued
<1>3. Queued(tx.headerq)
  BY <1>1 DEF Queued
<1>4. QED
  BY <1>1, <1>2, <1>3 DEF Leaves

(* The fragment goes into the packet.                                      *)
LEMMA EndStreamJourney ==
  ASSUME Carried, OneBody, Journey, tx.pc \in {"ask", "copy"},
         phase = "open", phase' = "open",
         env' = env, rx' = rx, hist'.added = hist.added,
         hist'.streamed = hist.streamed, hist'.eos = hist.eos,
         NEW t \in Sender, t.headerq = tx.headerq, t.items = tx.items,
         t.pc \in {"ask", "copy"}, tx' = EndStream(t),
         Flows(tx.items, tx, At, hist.given) => Flows(tx.items, t, At, hist'.given)
  PROVE  Journey'
<1> DEFINE last == t.s_stop /\ t.s_data = <<>>
           kind == IF last THEN "BODY_END" ELSE "BODY"
           x == ItemOf(t.headerq[1], kind, t.frag)
           q == IF last THEN Tail(t.headerq) ELSE t.headerq
           n == 3 + Len(t.frag)
<1>1. /\ tx.headerq # <<>> /\ First.kind = "STREAM" /\ Packing
      /\ tx \in Sender /\ hist \in Histories /\ rx \in Receivers
  BY Typed DEF Carried, Transit, Asking, First, Packing
<1>2. /\ x \in Item /\ q \in Seq(Element) /\ n \in Nat
      /\ tx' = AfterItem(t, x, q, n)
  BY <1>1, EndStreamIs
<1>3. /\ First \in Element /\ 1 \in 1..Len(tx.headerq)
      /\ t.frag \in Seq(Nat) /\ t.s_data \in Seq(Nat)
      /\ tx.items \in Seq(Item)
  BY <1>1, Queue DEF Sender, First
<1>4. x.kind = kind /\ x.data = t.frag /\ x.no = First.no
  BY <1>3, ItemOfIs DEF First
<1>5. IsBody(First.kind) /\ Queued(tx.headerq)
  BY <1>1, <1>3 DEF IsBody, Queued, First
<1>6. Queued(q) <=> ~last
  <2>1. ~Queued(Tail(tx.headerq))
    BY <1>1, <1>5, QueueTail
  <2>2. QED
    BY <1>5, <2>1
<1>7. kind = "BODY_END" <=> last
  OBVIOUS
<1>8. kind # "HEADER" /\ (~last => q = tx.headerq)
  OBVIOUS
<1> HIDE DEF x, q, n, kind
<1>9. /\ tx'.pc = "fill" /\ tx'.items = Append(tx.items, x)
      /\ tx'.headerq = q /\ tx'.s_data = t.s_data
  <2>1. Follows(AfterItem(t, x, q, n), t, x, q, n)
    BY <1>2, AfterItemIs
  <2>2. QED
    BY <1>2, <2>1 DEF Follows
<1>10. Known(First, hist.added)
  BY <1>3 DEF OneBody, First
<1>11. First.no \in 1..Len(hist.added)
  BY <1>10 DEF Known
<1>12. ASSUME Flows(tx.items, t, At, hist'.given)
       PROVE  Flows(Append(tx.items, x), tx', At, hist'.given)
  <2>1. PICK m \in Nat, d \in Seq(Nat) :
          /\ Runs(tx.items, At, m) /\ Leaves(t, d) /\ From(d, m)
          /\ hist'.given = m + Len(d)
    BY <1>12 DEF Flows
  <2>2. d = t.frag \o t.s_data
    BY <1>1, <2>1, StreamLeaves DEF StreamLeft
  <2> DEFINE c == m + Len(t.frag)
  <2>3. c \in Nat /\ Len(t.s_data) \in Nat /\ Len(t.frag) \in Nat
    BY <1>3, LenProperties
  <2>4. From(t.frag, m) /\ From(t.s_data, c)
    BY <1>3, <2>1, <2>2, FromConcat
  <2>5. hist'.given = c + Len(t.s_data)
    <3> DEFINE a == Len(t.frag)
               b == Len(t.s_data)
    <3>1. Len(d) = a + b
      BY <1>3, <2>2, ConcatProperties
    <3>2. a \in Nat /\ b \in Nat /\ m \in Nat
      BY <2>1, <2>3
    <3>3. hist'.given = m + (a + b)
      BY <2>1, <3>1
    <3> HIDE DEF a, b
    <3>4. m + (a + b) = (m + a) + b
      BY <3>2
    <3>5. QED
      BY <3>3, <3>4 DEF a, b
  <2>6. Spans(x, m, c)
    BY <1>4, <1>8, <2>4 DEF Spans, From
  <2> HIDE DEF c
  <2>7. At \in Nat
    BY <1>1, LenProperties DEF At, Histories, Receivers
  <2>8. Runs(Append(tx.items, x), At, c)
    BY <1>2, <1>3, <2>1, <2>3, <2>6, <2>7, RunsAppend
  <2>9. Leaves(tx', t.s_data)
    <3>1. CASE last
      BY <1>6, <1>9, <3>1, LeavesNothing
    <3>2. CASE ~last
      <4>1. tx'.headerq = tx.headerq /\ StreamLeft(tx') = t.s_data
        BY <1>8, <1>9, <3>2 DEF StreamLeft
      <4>2. QED
        BY <1>1, <4>1, StreamLeaves
    <3>3. QED
      BY <3>1, <3>2
  <2>10. QED
    BY <1>3, <2>3, <2>4, <2>5, <2>8, <2>9 DEF Flows
<1>13. x.kind # "HEADER" /\ (Queued(tx'.headerq) <=> x.kind # "BODY_END")
  BY <1>4, <1>6, <1>7, <1>8, <1>9
<1>14. x.no \in 1..Len(hist.added)
  BY <1>4, <1>11
<1>15. QED
  BY <1>1, <1>2, <1>5, <1>9, <1>12, <1>13, <1>14, PutJourney

LEMMA StreamJourney ==
  ASSUME Carried, OneBody, Journey,
         \/ \E n \in ChunkSizes, end \in BOOLEAN : AnswerStream(n, end)
         \/ \E suspend \in BOOLEAN : AnswerStreamNothing(suspend)
         \/ CopyStream
  PROVE  Journey'
<1>1. tx \in Sender /\ hist \in Histories /\ rx \in Receivers
  BY Typed DEF Carried
<1>2. ASSUME phase = "open", tx.pc \in {"ask", "copy"}
      PROVE  /\ tx.headerq # <<>> /\ First.kind = "STREAM" /\ Packing
             /\ Queued(tx.headerq)
  <2>1. tx.headerq # <<>> /\ First.kind = "STREAM" /\ Packing
    BY <1>2 DEF Carried, Transit, Asking, First, Packing
  <2>2. 1 \in 1..Len(tx.headerq)
    BY <1>1, <2>1, Queue
  <2>3. QED
    BY <2>1, <2>2 DEF Queued, IsBody, First
<1>3. tx.frag \in Seq(Nat) /\ tx.s_data \in Seq(Nat)
  BY <1>1 DEF Sender
<1>4. ASSUME phase = "open", tx.pc = "ask"
      PROVE  tx.s_data = <<>>
  BY <1>4 DEF Journey, OnWay
<1>5. ASSUME NEW n \in ChunkSizes, NEW end \in BOOLEAN, AnswerStream(n, end)
      PROVE  Journey'
  <2> DEFINE new == Numbers(hist.given, n)
             t   == [tx EXCEPT !.s_buf = TRUE, !.s_data = new, !.s_stop = @ \/ end]
             given == hist.given + n
             chunks == Smaller(hist.chunks + 1, MaxChunks)
  <2>1. /\ phase = "open" /\ tx.pc = "ask" /\ UNCHANGED <<env, link, rx, phase>>
        /\ tx' = IF t.s_stop THEN EndStream(t) ELSE [t EXCEPT !.pc = "copy"]
        /\ hist' = [hist EXCEPT !.given = given, !.chunks = chunks]
    BY <1>5 DEF AnswerStream
  <2>2. hist.given \in Nat /\ n \in Nat
    BY <1>1, SizesAreNat DEF Histories
  <2>3. /\ new \in Seq(Nat) /\ Len(new) = n /\ From(new, hist.given)
    BY <2>2, NumbersIs, NumbersFrom
  <2> HIDE DEF new, chunks
  <2>4. /\ hist'.added = hist.added /\ hist'.given = given
        /\ hist'.streamed = hist.streamed /\ hist'.eos = hist.eos
    BY <1>1, <2>1 DEF Histories
  <2>5. /\ t \in Sender /\ t.headerq = tx.headerq /\ t.items = tx.items
        /\ t.frag = tx.frag /\ t.s_data = new /\ t.pc = "ask"
    BY <1>1, <2>1, <2>3 DEF Sender
  <2> HIDE DEF t
  <2>6. ASSUME Flows(tx.items, tx, At, hist.given)
        PROVE  Flows(tx.items, t, At, given)
    <3>1. PICK m \in Nat, d \in Seq(Nat) :
            /\ Runs(tx.items, At, m) /\ Leaves(tx, d) /\ From(d, m)
            /\ hist.given = m + Len(d)
      BY <2>6 DEF Flows
    <3>2. d = tx.frag \o <<>>
      BY <1>1, <1>2, <1>4, <2>1, <3>1, StreamLeaves DEF StreamLeft
    <3>3. d = tx.frag
      BY <1>3, <3>2, ConcatEmptySeq
    <3>4. From(d \o new, m)
      BY <2>3, <3>1, FromConcat
    <3>5. StreamLeft(t) = d \o new
      BY <2>5, <3>3 DEF StreamLeft
    <3>6. Leaves(t, d \o new)
      BY <1>1, <1>2, <2>1, <2>5, <3>5, StreamLeaves
    <3>7. d \o new \in Seq(Nat) /\ Len(d \o new) = Len(d) + n
      BY <2>3, ConcatProperties
    <3>8. given = m + Len(d \o new)
      BY <2>2, <3>1, <3>7, LenProperties
    <3> HIDE DEF given
    <3>9. QED
      BY <3>1, <3>4, <3>6, <3>7, <3>8 DEF Flows
  <2>7. CASE t.s_stop
    <3>1. tx' = EndStream(t)
      BY <2>1, <2>7
    <3>2. QED
      BY <2>1, <2>4, <2>5, <2>6, <3>1, EndStreamJourney
  <2>8. CASE ~t.s_stop
    <3>1. tx' = [t EXCEPT !.pc = "copy"]
      BY <2>1, <2>8
    <3>2. /\ tx'.pc = "copy" /\ tx'.headerq = tx.headerq /\ tx'.items = tx.items
          /\ tx'.frag = t.frag /\ tx'.s_data = t.s_data
      BY <2>5, <3>1 DEF Sender
    <3>3. StreamLeft(tx') = StreamLeft(t)
      BY <2>5, <3>2 DEF StreamLeft
    <3>4. \A d : Leaves(t, d) => Leaves(tx', d)
      BY <2>5, <3>2, <3>3 DEF Leaves
    <3>5. Flows(tx.items, tx, At, hist.given) => Flows(tx.items, tx', At, given)
      BY <2>6, <3>4 DEF Flows
    <3>6. Packing' /\ Packing /\ Queued(tx.headerq)
      BY <1>2, <2>1, <3>2 DEF Packing
    <3>7. QED
      BY <2>1, <2>4, <3>2, <3>5, <3>6, StayJourney
  <2>9. QED
    BY <2>7, <2>8
<1>6. ASSUME NEW suspend \in BOOLEAN, AnswerStreamNothing(suspend)
      PROVE  Journey'
  <2> DEFINE t == [tx EXCEPT !.s_buf = FALSE, !.suspend = @ \/ suspend]
             faults == hist.faults + 1
  <2>1. /\ phase = "open" /\ tx.pc = "ask" /\ UNCHANGED <<env, link, rx>>
        /\ hist' = [hist EXCEPT !.faults = faults]
        /\ \/ tx' = EndStream(t) /\ phase' = phase
           \/ phase' = "failed" /\ tx' = tx
    BY <1>6 DEF AnswerStreamNothing
  <2> HIDE DEF faults
  <2>2. /\ hist'.added = hist.added /\ hist'.given = hist.given
        /\ hist'.streamed = hist.streamed /\ hist'.eos = hist.eos
    BY <1>1, <2>1 DEF Histories
  <2>3. /\ t \in Sender /\ t.headerq = tx.headerq /\ t.items = tx.items
        /\ t.frag = tx.frag /\ t.s_data = tx.s_data /\ t.pc = "ask"
    BY <1>1, <2>1 DEF Sender
  <2> HIDE DEF t
  <2>4. StreamLeft(t) = StreamLeft(tx)
    BY <2>1, <2>3 DEF StreamLeft
  <2>5. \A d : Leaves(tx, d) => Leaves(t, d)
    BY <2>3, <2>4 DEF Leaves
  <2>6. Flows(tx.items, tx, At, hist.given) => Flows(tx.items, t, At, hist'.given)
    BY <2>2, <2>5 DEF Flows
  <2>7. CASE tx' = EndStream(t) /\ phase' = phase
    BY <2>1, <2>2, <2>3, <2>6, <2>7, EndStreamJourney
  <2>8. CASE phase' = "failed" /\ tx' = tx
    <3>1. Received' = Received
      BY <2>1 DEF Received
    <3>2. QED
      BY <2>1, <2>2, <2>8, <3>1, EndJourney
  <2>9. QED
    BY <2>1, <2>7, <2>8
<1>7. CASE CopyStream
  <2> DEFINE t == Copied(tx)
  <2>1. /\ phase = "open" /\ tx.pc = "copy" /\ UNCHANGED <<env, link, rx, hist, phase>>
        /\ tx' = IF t.room > 0 THEN [t EXCEPT !.pc = "ask"] ELSE EndStream(t)
    BY <1>7 DEF CopyStream
  <2>2. PICK f \in Seq(Nat), r \in Seq(Nat) :
          /\ Len(f) + Len(r) = Len(tx.s_data)
          /\ \A i \in 1..Len(f) : f[i] = tx.s_data[i]
          /\ \A i \in 1..Len(r) : r[i] = tx.s_data[Len(f) + i]
          /\ t \in Sender /\ t.frag = tx.frag \o f /\ t.s_data = r
          /\ t.room > 0 => r = <<>>
          /\ t.headerq = tx.headerq /\ t.items = tx.items /\ t.pc = tx.pc
    BY <1>1, CopiedIs
  <2> HIDE DEF t
  <2>3. f \o r = tx.s_data
    <3> DEFINE a == Len(f)
               b == Len(r)
    <3>1. a \in Nat /\ b \in Nat
      BY LenProperties
    <3>2. /\ f \o r \in Seq(Nat) /\ Len(f \o r) = a + b
          /\ \A i \in 1..a + b : (f \o r)[i] = IF i <= a THEN f[i] ELSE r[i - a]
      BY ConcatProperties
    <3>3. Len(tx.s_data) = a + b
      BY <2>2
    <3>4. /\ \A i \in 1..a : f[i] = tx.s_data[i]
          /\ \A i \in 1..b : r[i] = tx.s_data[a + i]
      BY <2>2
    <3> HIDE DEF a, b
    <3>5. \A i \in 1..a + b : (f \o r)[i] = tx.s_data[i]
      <4> TAKE i \in 1..a + b
      <4>1. CASE i <= a
        <5>1. i \in 1..a
          BY <3>1, <4>1
        <5>2. QED
          BY <3>2, <3>4, <4>1, <5>1
      <4>2. CASE ~(i <= a)
        <5>1. i - a \in 1..b /\ a + (i - a) = i
          BY <3>1, <4>2
        <5>2. (f \o r)[i] = r[i - a]
          BY <3>2, <4>2
        <5>3. QED
          BY <3>4, <5>1, <5>2
      <4>3. QED
        BY <4>1, <4>2
    <3>6. QED
      BY <1>3, <3>2, <3>3, <3>5, SeqEqual
  <2>4. StreamLeft(t) = StreamLeft(tx)
    <3>1. \A u \in Seq(Nat) : (u \o f) \o r = u \o (f \o r)
      BY <2>2, ConcatAssociative
    <3>2. (tx.frag \o f) \o r = tx.frag \o (f \o r)
      BY <1>3, <3>1
    <3>3. QED
      BY <2>1, <2>2, <2>3, <3>2 DEF StreamLeft
  <2>5. \A d : Leaves(tx, d) => Leaves(t, d)
    BY <2>2, <2>4 DEF Leaves
  <2>6. Flows(tx.items, tx, At, hist.given) => Flows(tx.items, t, At, hist.given)
    BY <2>5 DEF Flows
  <2>7. CASE t.room > 0
    <3>1. tx' = [t EXCEPT !.pc = "ask"]
      BY <2>1, <2>7
    <3>2. /\ tx'.pc = "ask" /\ tx'.headerq = tx.headerq /\ tx'.items = tx.items
          /\ tx'.frag = t.frag /\ tx'.s_data = t.s_data /\ t.s_data = <<>>
      BY <2>2, <2>7, <3>1 DEF Sender
    <3>3. StreamLeft(tx') = StreamLeft(t)
      <4>1. StreamLeft(tx') = tx'.frag \o tx'.s_data
        BY <3>2 DEF StreamLeft
      <4>2. t.pc = "copy"
        BY <2>1, <2>2
      <4>3. StreamLeft(t) = t.frag \o t.s_data
        BY <4>2 DEF StreamLeft
      <4>4. QED
        BY <3>2, <4>1, <4>3
    <3>4. \A d : Leaves(t, d) => Leaves(tx', d)
      BY <2>2, <3>2, <3>3 DEF Leaves
    <3>5. Flows(tx.items, tx, At, hist.given) => Flows(tx.items, tx', At, hist.given)
      BY <2>6, <3>4 DEF Flows
    <3>6. Packing' /\ Packing /\ Queued(tx.headerq)
      BY <1>2, <2>1, <3>2 DEF Packing
    <3>7. QED
      BY <2>1, <3>2, <3>5, <3>6, StayJourney
  <2>8. CASE ~(t.room > 0)
    <3>1. tx' = EndStream(t)
      BY <2>1, <2>8
    <3>2. t.pc = "copy"
      BY <2>1, <2>2
    <3>3. QED
      BY <2>1, <2>2, <2>6, <3>1, <3>2, EndStreamJourney
  <2>9. QED
    BY <2>7, <2>8
<1>8. QED
  BY <1>5, <1>6, <1>7

(***************************************************************************)
(* The other steps.                                                        *)
(***************************************************************************)

(* The headers on their way and what is left stay as they are; the         *)
(* receiver of a stream may cancel.                                        *)
LEMMA SameJourney ==
  ASSUME Journey, phase = "open", phase' = "open", env' = env,
         hist'.added = hist.added, hist'.given = hist.given,
         hist'.streamed = hist.streamed, hist'.eos = hist.eos,
         rx'.body = rx.body, Received' = Received,
         rx.abort => rx'.abort, rx'.abort => rx.abort \/ env.streams,
         tx'.headerq = tx.headerq, tx'.s_data = tx.s_data,
         tx'.pc = "ask" => tx.pc = "ask",
         StreamLeft(tx') = StreamLeft(tx), Moving' = Moving
  PROVE  Journey'
<1>1. Arrived /\ OnWay
  BY DEF Journey
<1>2. At' = At /\ (BodyAdded' <=> BodyAdded) /\ (Pending' <=> Pending)
  BY DEF At, BodyAdded, Pending
<1>3. Heard => Heard'
  BY <1>2 DEF Heard
<1>4. \A d : Leaves(tx, d) => Leaves(tx', d)
  BY DEF Leaves
<1>5. Flows(Moving, tx, At, hist.given) => Flows(Moving', tx', At', hist'.given)
  BY <1>2, <1>4 DEF Flows
<1>6. Awaited => Awaited'
  <2> SUFFICES ASSUME Awaited PROVE Awaited'
    OBVIOUS
  <2>1. ~rx'.abort => Flows(Moving', tx', At', hist'.given)
    BY <1>5 DEF Awaited
  <2>2. (~rx.abort => Flows(Moving, tx, At, hist.given))'
    BY <2>1
  <2>3. QED
    BY <2>2 DEF Awaited
<1>7. Tidy(Moving, tx.headerq, hist.added)'
  BY <1>1 DEF OnWay
<1>8. OnWay'
  BY <1>1, <1>2, <1>3, <1>6, <1>7 DEF OnWay, Untouched
<1>9. InOrder'
  BY <1>1 DEF Arrived, InOrder
<1>10. Arrived'
  BY <1>1, <1>9 DEF Arrived
<1>11. QED
  BY <1>8, <1>10 DEF Journey

(* Nothing is on its way before a packet is begun.                         *)
LEMMA NothingMoves ==
  ASSUME Carried, phase = "open", tx.pc \in {"add", "turn"}
  PROVE  Moving = <<>> /\ rx.pc # "parse"
BY DEF Carried, Transit, OnLink, AtReceiver, Moving

LEMMA SendJourney ==
  ASSUME Carried, Journey, Send
  PROVE  Journey'
<1>1. /\ phase = "open" /\ tx.pc \in {"add", "turn"} /\ tx' = Begin(tx)
      /\ UNCHANGED <<env, link, rx, hist, phase>>
  BY DEF Send
<1>2. tx \in Sender
  BY Typed DEF Carried
<1>3. /\ tx'.pc = "fill" /\ tx'.headerq = tx.headerq /\ tx'.items = <<>>
      /\ tx'.s_data = tx.s_data
  <2> HIDE DEF RoomInPacket
  <2>1. QED
    BY <1>1, <1>2 DEF Begin, Sender
<1>4. Moving = <<>> /\ rx.pc # "parse"
  BY <1>1, NothingMoves
<1>5. Moving' = Moving
  BY <1>1, <1>3, <1>4 DEF Moving
<1>6. StreamLeft(tx') = StreamLeft(tx)
  BY <1>1, <1>3 DEF StreamLeft
<1>7. Received' = Received
  BY <1>1 DEF Received
<1>8. (rx.abort => rx'.abort) /\ (rx'.abort => rx.abort)
  BY <1>1
<1>9. QED
  BY <1>1, <1>3, <1>5, <1>6, <1>7, <1>8, SameJourney

LEMMA FinishJourney ==
  ASSUME Carried, Journey, FinishPacket
  PROVE  Journey'
<1>1. /\ phase = "open" /\ phase' = phase /\ tx.pc = "fill"
      /\ UNCHANGED <<env, rx, hist>>
      /\ tx'.pc = "write" /\ tx'.headerq = tx.headerq
      /\ tx'.items = tx.items /\ tx'.s_data = tx.s_data
  BY FinishIs
<1>2. Moving = tx.items /\ rx.pc # "parse"
  BY <1>1, PackingMoves DEF Packing
<1>3. Moving' = Moving
  BY <1>1, <1>2 DEF Moving
<1>4. StreamLeft(tx') = StreamLeft(tx)
  BY <1>1 DEF StreamLeft
<1>5. Received' = Received
  BY <1>1 DEF Received
<1>6. (rx.abort => rx'.abort) /\ (rx'.abort => rx.abort)
  BY <1>1
<1>7. QED
  BY <1>1, <1>3, <1>4, <1>5, <1>6, SameJourney

LEMMA QueueGrows ==
  ASSUME NEW q \in Seq(Element), NEW h \in Element
  PROVE  LET s == Append(q, h)
         IN  /\ Len(s) = Len(q) + 1 /\ s[Len(q) + 1] = h
             /\ \A i \in 1..Len(q) : s[i] = q[i]
             /\ Queued(s) <=> Queued(q) \/ IsBody(h.kind)
             /\ 1..Len(q) \subseteq 1..Len(s)
             /\ \A i \in 1..Len(s) : i \in 1..Len(q) \/ i = Len(q) + 1
<1> DEFINE n == Len(q)
           s == Append(q, h)
<1>1. /\ n \in Nat /\ Len(s) = n + 1 /\ s[n + 1] = h
      /\ \A i \in 1..n : s[i] = q[i]
  BY LenProperties, AppendProperties
<1> HIDE DEF n, s
<1>2. /\ \A i \in 1..n : i \in 1..n + 1
      /\ \A i \in 1..n + 1 : i \in 1..n \/ i = n + 1
      /\ n + 1 \in 1..n + 1
  BY <1>1
<1>3. Queued(s) <=> Queued(q) \/ IsBody(h.kind)
  BY <1>1, <1>2 DEF Queued, n
<1>4. QED
  BY <1>1, <1>2, <1>3 DEF n, s

LEMMA AddJourney ==
  ASSUME Carried, OneBody, Journey, AddHeaders
  PROVE  Journey'
<1>1. PICK h \in Element, fit \in BOOLEAN : Adds(h, fit)
  BY AddIs DEF Carried
<1>2. /\ phase = "open" /\ tx.pc = "add" /\ UNCHANGED <<env, link, rx, phase>>
      /\ h.kind = "BODY" => h.data = Numbers(0, Len(h.data))
      /\ h.kind # "BODY" => h.data = <<>>
      /\ hist'.added = Append(hist.added, h)
      /\ hist'.given = hist.given + Len(h.data)
      /\ hist'.streamed = hist.streamed /\ hist'.eos = hist.eos
      /\ tx' = [tx EXCEPT !.headerq = Append(tx.headerq, h),
                          !.totallen = tx.totallen + h.length]
  BY <1>1 DEF Adds
<1>3. IsBody(h.kind) => ~BodyAdded
  BY <1>1 DEF Adds, IsBody, BodyAdded, Queued
<1>4. tx \in Sender /\ hist \in Histories /\ rx \in Receivers
  BY Typed DEF Carried
<1>5. /\ tx'.headerq = Append(tx.headerq, h) /\ tx'.s_data = tx.s_data
      /\ tx'.pc = "add"
  BY <1>2, <1>4 DEF Sender
<1>6. /\ tx.headerq \in Seq(Element) /\ hist.added \in Seq(Element)
      /\ hist.given \in Nat /\ h.data \in Seq(Nat)
  BY <1>4 DEF Sender, Histories, Element
<1> DEFINE q == Append(tx.headerq, h)
           n == Len(tx.headerq)
           added == Append(hist.added, h)
           k == Len(hist.added)
<1>7. /\ Len(q) = n + 1 /\ q[n + 1] = h
      /\ \A i \in 1..n : q[i] = tx.headerq[i]
      /\ Queued(q) <=> Queued(tx.headerq) \/ IsBody(h.kind)
      /\ 1..n \subseteq 1..Len(q)
      /\ \A i \in 1..Len(q) : i \in 1..n \/ i = n + 1
  BY <1>6, QueueGrows
<1>8. /\ \A i \in 1..k : added[i] = hist.added[i]
      /\ Queued(added) <=> Queued(hist.added) \/ IsBody(h.kind)
      /\ 1..k \subseteq 1..Len(added)
  BY <1>6, QueueGrows
<1>9. hist'.added = added /\ tx'.headerq = q
  BY <1>2, <1>5
<1> HIDE DEF q, added
<1>10. Arrived /\ OnWay
  BY <1>2 DEF Journey
<1>11. Moving = <<>> /\ Moving' = <<>> /\ rx.pc # "parse" /\ ~HasEnd(<<>>)
  <2>1. Moving = <<>> /\ rx.pc # "parse"
    BY <1>2, NothingMoves
  <2>2. Moving' = <<>>
    BY <1>2, <1>5, <2>1 DEF Moving
  <2>3. QED
    BY <2>1, <2>2 DEF HasEnd
<1>12. /\ Received' = Received /\ At' = At
       /\ BodyAdded' <=> BodyAdded \/ IsBody(h.kind)
       /\ Pending <=> Queued(tx.headerq)
       /\ Pending' <=> Queued(tx.headerq) \/ IsBody(h.kind)
  BY <1>2, <1>7, <1>8, <1>9, <1>11 DEF Received, At, BodyAdded, Pending
<1>13. Queued(tx.headerq) => BodyAdded
  BY QueuedAdded
<1>14. ~IsBody(h.kind) => hist'.given = hist.given
  <2>1. Len(<<>>) = 0
    OBVIOUS
  <2>2. ~IsBody(h.kind) => h.data = <<>>
    BY <1>2 DEF IsBody
  <2>3. QED
    BY <1>2, <1>6, <2>1, <2>2
<1>15. IsBody(h.kind) => Untouched
  BY <1>3, <1>10 DEF OnWay
<1>16. ASSUME NEW i \in 1..Len(Received)
       PROVE  /\ Entire(Received[i], added, hist'.given)
              /\ IsBody(h.kind) => Other(Received[i], added)
              /\ Other(Received[i], hist.added) => Other(Received[i], added)
  <2> DEFINE g == Received[i]
  <2>1. Entire(g, hist.added, hist.given)
    BY <1>10 DEF Arrived
  <2> HIDE DEF g
  <2>2. g.no \in 1..k
    BY <2>1 DEF Entire
  <2>3. g.no \in 1..Len(added) /\ added[g.no] = hist.added[g.no]
    BY <1>8, <2>2
  <2>4. Other(g, hist.added) => Other(g, added)
    BY <2>3 DEF Other
  <2>5. CASE IsBody(h.kind)
    <3>1. ~IsBody(added[g.no].kind)
      BY <1>3, <2>2, <2>3, <2>5 DEF BodyAdded, Queued
    <3>2. QED
      BY <2>3, <2>4, <3>1 DEF Other, Entire, g
  <2>6. CASE ~IsBody(h.kind)
    <3>1. Entire(g, added, hist'.given)
      BY <1>14, <2>1, <2>3, <2>6 DEF Entire
    <3>2. QED
      BY <2>4, <2>6, <3>1 DEF g
  <2>7. QED
    BY <2>5, <2>6
<1>17. ASSUME IsBody(h.kind)
       PROVE  Flows(<<>>, tx', At, hist'.given)
  <2>1. Untouched /\ At = 0
    <3>1. Untouched
      BY <1>15, <1>17
    <3>2. Len(<<>>) = 0
      OBVIOUS
    <3>3. QED
      BY <3>1, <3>2 DEF Untouched, At
  <2>2. StreamLeft(tx') = <<>>
    BY <1>5, <2>1 DEF StreamLeft, Untouched
  <2>3. ~Queued(tx.headerq) /\ Queued(q)
    BY <1>3, <1>7, <1>13, <1>17
  <2>4. \A i \in 1..Len(q) : IsBody(q[i].kind) => i = n + 1
    BY <1>7, <2>3 DEF Queued
  <2>5. Leaves(tx', h.data)
    BY <1>2, <1>7, <1>9, <2>2, <2>3, <2>4 DEF Leaves
  <2>6. From(h.data, 0)
    <3>1. CASE h.kind = "BODY"
      <4>1. Len(h.data) \in Nat
        BY <1>6, LenProperties
      <4>2. From(Numbers(0, Len(h.data)), 0)
        BY <4>1, NumbersFrom
      <4>3. QED
        BY <1>2, <3>1, <4>2
    <3>2. CASE h.kind # "BODY"
      <4>1. From(<<>>, 0)
        BY DEF From
      <4>2. QED
        BY <1>2, <3>2, <4>1
    <3>3. QED
      BY <3>1, <3>2
  <2>7. Runs(<<>>, At, 0)
    BY <2>1, RunsEmpty
  <2>8. hist'.given = 0 + Len(h.data)
    BY <1>2, <2>1 DEF Untouched
  <2>9. QED
    BY <1>6, <2>5, <2>6, <2>7, <2>8 DEF Flows
<1>18. ASSUME ~IsBody(h.kind), Flows(<<>>, tx, At, hist.given)
       PROVE  Flows(<<>>, tx', At, hist'.given)
  <2>1. StreamLeft(tx') = StreamLeft(tx)
    BY <1>2, <1>5 DEF StreamLeft
  <2>2. ASSUME NEW d, Leaves(tx, d) PROVE Leaves(tx', d)
    <3>1. \A i \in 1..Len(q) : IsBody(q[i].kind) => i \in 1..n /\ q[i] = tx.headerq[i]
      BY <1>7, <1>18
    <3>2. Queued(q) <=> Queued(tx.headerq)
      BY <1>7, <1>18
    <3>3. QED
      BY <1>9, <2>1, <2>2, <3>1, <3>2 DEF Leaves
  <2>3. QED
    BY <1>14, <1>18, <2>2 DEF Flows
<1>19. Pending' => Awaited'
  <2> SUFFICES ASSUME Pending' PROVE Awaited'
    OBVIOUS
  <2>1. CASE IsBody(h.kind)
    <3>1. /\ hist'.eos = 0
          /\ \A i \in 1..Len(Received) : Other(Received[i], added)
          /\ Flows(<<>>, tx', At, hist'.given)
      BY <1>2, <1>15, <1>16, <1>17, <2>1 DEF Untouched
    <3>2. QED
      BY <1>9, <1>11, <1>12, <3>1 DEF Awaited
  <2>2. CASE ~IsBody(h.kind)
    <3>1. Awaited
      BY <1>10, <1>12, <2>2 DEF OnWay
    <3>2. /\ hist'.eos = 0
          /\ \A i \in 1..Len(Received) : Other(Received[i], added)
          /\ ~rx.abort => Flows(<<>>, tx', At, hist'.given)
      BY <1>2, <1>11, <1>16, <1>18, <2>2, <3>1 DEF Awaited
    <3>3. rx' = rx
      BY <1>2
    <3>4. QED
      BY <1>9, <1>11, <1>12, <3>2, <3>3 DEF Awaited
  <2>3. QED
    BY <2>1, <2>2
<1>20. ~Pending' => Heard'
  <2>1. ~Pending' => Heard
    BY <1>10, <1>12 DEF OnWay
  <2>2. ~Pending' => ~IsBody(h.kind)
    BY <1>12
  <2>3. env' = env /\ rx' = rx /\ hist'.eos = hist.eos
    BY <1>2
  <2>4. QED
    BY <1>12, <2>1, <2>2, <2>3 DEF Heard
<1>21. ~BodyAdded' => Untouched'
  BY <1>2, <1>5, <1>10, <1>12, <1>14 DEF OnWay, Untouched
<1>22. OnWay'
  <2>1. Tidy(<<>>, q, added)
    BY DEF Tidy
  <2>2. Tidy(Moving, tx.headerq, hist.added)'
    BY <1>9, <1>11, <2>1 DEF Tidy
  <2>3. tx'.pc # "ask"
    BY <1>5
  <2>4. Pending' => BodyAdded'
    BY <1>12, <1>13
  <2>5. QED
    BY <1>19, <1>20, <1>21, <2>2, <2>3, <2>4 DEF OnWay
<1>23. Arrived'
  <2>1. InOrder'
    BY <1>2, <1>10 DEF Arrived, InOrder
  <2>2. hist.eos = 1 => Len(hist.streamed) = hist'.given
    BY <1>10, <1>14, <1>15 DEF Arrived, Untouched
  <2>3. \A i \in 1..Len(Received') : Entire(Received'[i], added, hist'.given)
    BY <1>12, <1>16
  <2>4. rx.abort => env.streams
    BY <1>10 DEF Arrived
  <2>5. hist'.eos <= 1
    BY <1>2, <1>10 DEF Arrived
  <2>6. phase' # "done"
    BY <1>2
  <2>7. QED
    BY <1>2, <1>9, <2>1, <2>2, <2>3, <2>4, <2>5, <2>6 DEF Arrived
<1>24. QED
  BY <1>22, <1>23 DEF Journey

(* A packet on the link has the headers that are on their way.             *)
LEMMA LinkMoves ==
  ASSUME Carried, phase = "open", rx.pc # "parse", link.pkts # <<>>
  PROVE  Moving = link.pkts[1].items /\ tx.pc \in {"write", "wait"}
<1>1. tx.pc \in {"write", "wait"}
  BY FirstPacket
<1>2. tx.pc = "write" => Made
  BY DEF Carried, Transit, OnLink
<1>3. QED
  BY <1>1, <1>2 DEF Moving, Made

LEMMA WriteMoves ==
  ASSUME Carried, Write \/ Resume
  PROVE  Moving' = Moving
<1>1. tx \in Sender /\ link \in Links /\ phase = "open"
      /\ UNCHANGED <<env, rx, hist, phase>>
  BY Typed DEF Carried, Write, Resume
<1>2. CASE Write
  <2>1. PICK n :
        /\ tx' = [tx EXCEPT !.unsent = @ - n,
                            !.pc = IF n = tx.unsent THEN "wait" ELSE @]
        /\ link' = [link EXCEPT !.written = @ + n]
    BY <1>2 DEF Write
  <2>2. tx.pc = "write"
    BY <1>2 DEF Write
  <2>3. link'.pkts = link.pkts /\ tx'.items = tx.items /\ tx'.pc \in {"write", "wait"}
    BY <1>1, <2>1, <2>2 DEF Links, Sender
  <2>4. link.pkts[1].items = tx.items
    BY <1>1, <2>2 DEF Carried, Transit, OnLink, Made
  <2>5. QED
    BY <1>1, <2>2, <2>3, <2>4 DEF Moving
<1>3. CASE Resume
  <2>1. link' = link /\ tx' = [tx EXCEPT !.suspend = FALSE]
    BY <1>3 DEF Resume
  <2>2. tx'.items = tx.items /\ tx'.pc = tx.pc
    BY <1>1, <2>1 DEF Sender
  <2>3. QED
    BY <1>1, <2>1, <2>2 DEF Moving
<1>4. QED
  BY <1>2, <1>3

LEMMA AbortMoves ==
  ASSUME Carried, SendAbort
  PROVE  Moving' = Moving
<1>1. /\ tx \in Sender /\ link \in Links
      /\ phase = "open" /\ tx.pc \in {"turn", "wait"} /\ ~hist.aborting
      /\ tx' = [tx EXCEPT !.pc = "wait"] /\ rx' = rx
      /\ link' = [link EXCEPT !.written = @ + COMMON,
                              !.pkts = Append(@, AbortPacket)]
  BY Typed DEF Carried, SendAbort, AbortPacket
<1>2. AbortPacket \in Packet /\ AbortPacket.items = <<>>
  BY Sizes, EmptySeq DEF AbortPacket, Packet
<1> HIDE DEF AbortPacket
<1>3. /\ link'.pkts = Append(link.pkts, AbortPacket) /\ link.pkts \in Seq(Packet)
      /\ tx'.pc = "wait"
  BY <1>1 DEF Links, Sender
<1>4. CASE tx.pc = "turn"
  <2>1. link.pkts = <<>> /\ rx.pc # "parse" /\ Moving = <<>>
    BY <1>1, <1>4, NothingMoves DEF Carried, Transit, OnLink
  <2>2. link'.pkts[1] = AbortPacket
    <3>1. Len(<<>>) = 0 /\ <<>> \in Seq(Packet)
      BY EmptySeq
    <3>2. Append(<<>>, AbortPacket)[0 + 1] = AbortPacket
      BY <1>2, <3>1, AppendProperties
    <3>3. QED
      BY <1>3, <2>1, <3>2
  <2>3. QED
    BY <1>1, <1>2, <1>3, <2>1, <2>2 DEF Moving
<1>5. CASE tx.pc = "wait"
  <2>1. Len(link.pkts) = 1
    BY <1>1, <1>5 DEF Carried, Transit, OnLink
  <2>2. link'.pkts[1] = link.pkts[1]
    <3>1. 1 \in 1..Len(link.pkts)
      BY <2>1
    <3>2. QED
      BY <1>2, <1>3, <3>1, AppendProperties
  <2>3. QED
    BY <1>1, <1>3, <1>5, <2>2 DEF Moving
<1>6. QED
  BY <1>1, <1>4, <1>5

LEMMA ReadMoves ==
  ASSUME Carried, Read \/ Feed
  PROVE  Moving' = Moving
<1>1. Readable /\ \E n, c : Taken(n, c)
  BY DEF Read, Feed
<1>2. PICK n, c : Taken(n, c)
  BY <1>1
<1> DEFINE size == rx.size + c
           whole == size >= COMMON /\ size = Head(link.pkts).size
           todo == IF whole THEN Head(link.pkts).items ELSE <<>>
           taken == link.taken + n
<1>3. /\ tx' = tx /\ link' = [link EXCEPT !.taken = taken]
      /\ rx' = [rx EXCEPT !.size = size, !.pc = IF whole THEN "parse" ELSE "read",
                          !.todo = todo]
  BY <1>2 DEF Taken
<1>4. whole => todo = Head(link.pkts).items
  OBVIOUS
<1>5. rx \in Receivers /\ link \in Links
  BY Typed DEF Carried
<1> HIDE DEF size, whole, todo, taken
<1>6. /\ link'.pkts = link.pkts
      /\ rx'.todo = todo /\ rx'.pc = IF whole THEN "parse" ELSE "read"
  BY <1>3, <1>5 DEF Links, Receivers
<1>7. phase = "open" /\ rx.pc = "read" /\ link.pkts # <<>>
  BY <1>1, ToRead
<1>8. Head(link.pkts) = link.pkts[1] /\ Moving = link.pkts[1].items
  BY <1>7, FirstPacket, LinkMoves
<1>9. QED
  BY <1>3, <1>4, <1>6, <1>7, <1>8 DEF Moving

LEMMA HandledMoves ==
  ASSUME Carried, PacketHandled, phase' = "open"
  PROVE  Moving' = Moving
<1>1. /\ phase = "open" /\ rx.pc = "parse" /\ rx.todo = <<>> /\ tx.pc = "wait"
      /\ rx'.pc = "read" /\ link'.pkts = Tail(link.pkts) /\ link.pkts # <<>>
      /\ link.pkts[1].op # "ABORT"
      /\ link.pkts[1] \in Packet
  BY HandledIs
<1>2. link.pkts[1].op = "NEXT"
  BY <1>1, HandledIs DEF Packet
<1>3. tx'.pc = IF ~hist.aborting THEN "turn" ELSE "wait"
  BY <1>2, HandledIs
<1>4. Moving = <<>>
  BY <1>1 DEF Moving
<1>5. CASE ~hist.aborting
  BY <1>1, <1>3, <1>4, <1>5 DEF Moving
<1>6. CASE hist.aborting
  <2>1. Len(link.pkts) = 2 /\ link.pkts[2] = AbortPacket
    BY <1>1, <1>2, <1>6 DEF Carried, Transit, OnLink, AbortPacket
  <2>2. link.pkts \in Seq(Packet)
    BY Typed DEF Carried, Links
  <2>3. link'.pkts[1] = AbortPacket
    BY <1>1, <2>1, <2>2, HeadTailProperties
  <2>4. link'.pkts[1].items = <<>>
    BY <2>3 DEF AbortPacket
  <2>5. QED
    BY <1>1, <1>3, <1>4, <1>6, <2>4 DEF Moving
<1>7. QED
  BY <1>5, <1>6

LEMMA PassMoves ==
  ASSUME Carried, phase' = "open",
         \/ Write \/ Resume \/ SendAbort \/ Read \/ Feed \/ ReadFails
         \/ PacketHandled \/ Cancel \/ Looks
  PROVE  Moving' = Moving
<1>1. CASE ReadFails \/ Cancel
  <2>1. /\ tx' = tx /\ link' = link
        /\ \E x, b : rx' = [rx EXCEPT !.size = x] \/ rx' = [rx EXCEPT !.abort = b]
    BY <1>1 DEF ReadFails, Cancel
  <2>2. rx'.pc = rx.pc /\ rx'.todo = rx.todo
    BY <2>1, Typed DEF Carried, Receivers
  <2>3. QED
    BY <2>1, <2>2 DEF Moving
<1>2. CASE Looks
  BY <1>2, LooksIs DEF Moving
<1>3. QED
  BY <1>1, <1>2, WriteMoves, AbortMoves, ReadMoves, HandledMoves

(* What the receiver has, when it takes no header.                         *)
LEMMA PassKeeps ==
  ASSUME Carried, Passes, ~ReceiveHeader
  PROVE  /\ hist'.streamed = hist.streamed /\ hist'.eos = hist.eos
         /\ rx'.body = rx.body /\ Received' = Received
         /\ rx.abort => rx'.abort
         /\ rx'.abort => rx.abort \/ env.streams
         /\ rx'.abort => rx.abort \/ phase' = "open"
<1>1. rx \in Receivers /\ hist \in Histories
  BY Typed DEF Carried
<1>2. CASE Write \/ Resume \/ Misread \/ GiveUp \/ Ended
  <2>1. rx' = rx /\ hist' = hist
    BY <1>2 DEF Write, Resume, Misread, GiveUp, Ended, vars
  <2>2. QED
    BY <2>1 DEF Received
<1>3. CASE WriteFails \/ SendAbort
  <2>1. rx' = rx
    BY <1>3 DEF WriteFails, SendAbort
  <2>2. hist'.streamed = hist.streamed /\ hist'.eos = hist.eos
    BY <1>1, <1>3 DEF WriteFails, SendAbort, Histories
  <2>3. QED
    BY <2>1, <2>2 DEF Received
<1>4. CASE Read \/ Feed
  <2>1. hist'.streamed = hist.streamed /\ hist'.eos = hist.eos
    <3>1. hist' = hist \/ \E b : hist' = [hist EXCEPT !.overfed = b]
      BY <1>4 DEF Read, Feed
    <3>2. QED
      BY <1>1, <3>1 DEF Histories
  <2>2. \E x, y, z : rx' = [rx EXCEPT !.size = x, !.pc = y, !.todo = z]
    <3>1. \E n, c : Taken(n, c)
      BY <1>4 DEF Read, Feed
    <3>2. PICK n, c : Taken(n, c)
      BY <3>1
    <3> DEFINE size == rx.size + c
               whole == size >= COMMON /\ size = Head(link.pkts).size
               pc == IF whole THEN "parse" ELSE "read"
               todo == IF whole THEN Head(link.pkts).items ELSE <<>>
    <3>3. rx' = [rx EXCEPT !.size = size, !.pc = pc, !.todo = todo]
      BY <3>2 DEF Taken
    <3> HIDE DEF size, pc, todo
    <3>4. QED
      BY <3>3
  <2>3. QED
    BY <1>1, <2>1, <2>2 DEF Receivers, Received
<1>5. CASE ReadFails
  <2>1. hist'.streamed = hist.streamed /\ hist'.eos = hist.eos
    BY <1>1, <1>5 DEF ReadFails, Histories
  <2>2. \E x : rx' = [rx EXCEPT !.size = x]
    BY <1>5 DEF ReadFails
  <2>3. QED
    BY <1>1, <2>1, <2>2 DEF Receivers, Received
<1>6. CASE PacketHandled
  <2>1. hist' = hist /\ rx'.body = rx.body /\ rx'.abort = rx.abort
        /\ rx'.headerq = rx.headerq /\ rx'.rm = rx.rm
    BY <1>6, HandledIs
  <2>2. QED
    BY <2>1 DEF Received
<1>7. CASE Cancel
  <2>1. hist'.streamed = hist.streamed /\ hist'.eos = hist.eos
    BY <1>1, <1>7 DEF Cancel, Histories
  <2>2. rx' = [rx EXCEPT !.abort = TRUE] /\ env.streams /\ phase' = "open"
    BY <1>7 DEF Cancel
  <2>3. QED
    BY <1>1, <2>1, <2>2 DEF Receivers, Received
<1>8. CASE Looks
  BY <1>8, LooksIs
<1>9. QED
  BY <1>2, <1>3, <1>4, <1>5, <1>6, <1>7, <1>8 DEF Passes

(* The last packet has been read: it ended the body.                       *)
LEMMA LastHeard ==
  ASSUME Carried, Journey, PacketHandled, phase' = "done"
  PROVE  Heard'
<1>1. /\ phase = "open" /\ rx.pc = "parse" /\ rx.todo = <<>>
      /\ link.pkts[1].op = "LAST" /\ Made /\ ~rx.abort
      /\ UNCHANGED <<env, hist>>
  BY HandledIs
<1>2. tx.headerq = <<>> /\ Moving = <<>>
  BY <1>1 DEF Made, Moving
<1>3. ~Pending
  BY <1>2 DEF Pending, Queued, HasEnd
<1>4. Heard
  BY <1>1, <1>3 DEF Journey, OnWay
<1>5. QED
  BY <1>1, <1>4 DEF Heard, BodyAdded

LEMMA PassJourney ==
  ASSUME Carried, Journey, Passes, ~ReceiveHeader
  PROVE  Journey'
<1>1. Rests
  BY PassesRest
<1>2. /\ env' = env /\ hist'.added = hist.added /\ hist'.given = hist.given
      /\ tx'.headerq = tx.headerq /\ tx'.s_data = tx.s_data
      /\ IF Packing THEN tx' = tx ELSE ~Packing'
  BY <1>1 DEF Rests
<1>3. /\ hist'.streamed = hist.streamed /\ hist'.eos = hist.eos
      /\ rx'.body = rx.body /\ Received' = Received
      /\ rx.abort => rx'.abort
      /\ rx'.abort => rx.abort \/ env.streams
  BY PassKeeps
<1>4. CASE phase = "open" /\ phase' = "open"
  <2>1. ~Ended /\ ~WriteFails /\ ~GiveUp /\ ~Misread
    BY <1>4 DEF Ended, WriteFails, GiveUp, Misread, Ends
  <2>2. Moving' = Moving
    BY <1>4, <2>1, PassMoves DEF Passes
  <2>3. tx'.pc = "ask" => tx.pc = "ask"
    BY <1>2 DEF Packing
  <2>4. StreamLeft(tx') = StreamLeft(tx)
    BY <1>2 DEF StreamLeft, Packing
  <2>5. QED
    BY <1>2, <1>3, <1>4, <2>2, <2>3, <2>4, SameJourney
<1>5. CASE phase' # "open"
  <2>1. Arrived
    BY DEF Journey
  <2>2. phase' = "done" => Heard'
    <3>1. CASE PacketHandled
      BY <3>1, LastHeard
    <3>2. CASE ~PacketHandled
      <4>1. phase' = "done" => phase = "done"
        BY <3>2, LooksIs DEF Passes, Write, Resume, WriteFails, GiveUp, SendAbort, Read,
           Feed, Taken, ReadFails, Misread, Cancel, Ended, vars
      <4>2. phase = "done" => Heard
        BY <2>1 DEF Arrived
      <4>3. QED
        BY <1>2, <1>3, <4>1, <4>2 DEF Heard, BodyAdded
    <3>3. QED
      BY <3>1, <3>2
  <2>3. InOrder'
    BY <1>3, <2>1 DEF Arrived, InOrder
  <2>4. Arrived'
    BY <1>2, <1>3, <2>1, <2>2, <2>3 DEF Arrived
  <2>5. QED
    BY <1>5, <2>4 DEF Journey
<1>6. CASE phase # "open"
  <2>1. phase' # "open"
    BY <1>6, LooksIs DEF Passes, Write, Resume, WriteFails, GiveUp, SendAbort, Read,
       Feed, ReadFails, Misread, PacketHandled, Cancel, Ended, vars, Readable
  <2>2. QED
    BY <1>5, <2>1
<1>7. QED
  BY <1>4, <1>5, <1>6

(***************************************************************************)
(* The receiver takes a header out of the packet.                          *)
(***************************************************************************)
LEMMA TailTidy ==
  ASSUME NEW items \in Seq(Item), items # <<>>, NEW q, NEW added,
         Tidy(items, q, added)
  PROVE  LET x == Head(items)
             rest == Tail(items)
         IN  /\ x \in Item /\ rest \in Seq(Item)
             /\ x.no \in 1..Len(added)
             /\ x.kind = "HEADER" => ~IsBody(added[x.no].kind)
             /\ x.kind # "HEADER" => Queued(q) \/ HasEnd(items)
             /\ x.kind = "BODY_END" =>
                  ~Queued(q) /\ \A i \in 1..Len(rest) : rest[i].kind = "HEADER"
             /\ HasEnd(items) <=> x.kind = "BODY_END" \/ HasEnd(rest)
             /\ Tidy(rest, q, added)
<1> DEFINE n == Len(items)
           x == Head(items)
           rest == Tail(items)
<1>1. /\ n \in Nat \ {0} /\ Len(rest) = n - 1 /\ x = items[1]
      /\ \A i \in 1..n - 1 : rest[i] = items[i + 1]
      /\ x \in Item /\ rest \in Seq(Item)
  BY LenProperties, EmptySeq, HeadTailProperties
<1> HIDE DEF n, x, rest
<1>2. /\ 1 \in 1..n
      /\ \A i \in 1..n - 1 : i + 1 \in 1..n /\ i + 1 # 1
      /\ \A i \in 1..n : i # 1 => i - 1 \in 1..n - 1 /\ (i - 1) + 1 = i
  BY <1>1
<1>3. /\ x.no \in 1..Len(added)
      /\ x.kind = "HEADER" => ~IsBody(added[x.no].kind)
      /\ x.kind # "HEADER" => Queued(q) \/ HasEnd(items)
      /\ x.kind = "BODY_END" =>
           ~Queued(q) /\ \A j \in 1 + 1..n : items[j].kind = "HEADER"
  BY <1>1, <1>2 DEF Tidy, n
<1>4. x.kind = "BODY_END" => \A i \in 1..n - 1 : rest[i].kind = "HEADER"
  <2> SUFFICES ASSUME x.kind = "BODY_END", NEW i \in 1..n - 1
               PROVE  rest[i].kind = "HEADER"
    OBVIOUS
  <2>1. i + 1 \in 1 + 1..n
    BY <1>1
  <2>2. QED
    BY <1>1, <1>3, <2>1
<1>5. HasEnd(items) <=> x.kind = "BODY_END" \/ HasEnd(rest)
  <2>1. HasEnd(rest) => HasEnd(items)
    BY <1>1, <1>2 DEF HasEnd, n
  <2>2. x.kind = "BODY_END" => HasEnd(items)
    BY <1>1, <1>2 DEF HasEnd, n
  <2>3. ASSUME NEW i \in 1..n, items[i].kind = "BODY_END", i # 1
        PROVE  HasEnd(rest)
    <3>1. i - 1 \in 1..n - 1 /\ rest[i - 1] = items[i]
      BY <1>1, <1>2, <2>3
    <3>2. QED
      BY <1>1, <2>3, <3>1 DEF HasEnd
  <2>4. HasEnd(items) => x.kind = "BODY_END" \/ HasEnd(rest)
    BY <1>1, <2>3 DEF HasEnd, n
  <2>5. QED
    BY <2>1, <2>2, <2>4
<1>6. ASSUME NEW i \in 1..n - 1
      PROVE  /\ rest[i].no \in 1..Len(added)
             /\ rest[i].kind = "HEADER" => ~IsBody(added[rest[i].no].kind)
             /\ rest[i].kind # "HEADER" => Queued(q) \/ HasEnd(rest)
             /\ rest[i].kind = "BODY_END" =>
                  ~Queued(q) /\ \A j \in i + 1..n - 1 : rest[j].kind = "HEADER"
  <2>1. i + 1 \in 1..n /\ rest[i] = items[i + 1]
    BY <1>1, <1>2
  <2>2. /\ rest[i].no \in 1..Len(added)
        /\ rest[i].kind = "HEADER" => ~IsBody(added[rest[i].no].kind)
        /\ rest[i].kind # "HEADER" => Queued(q) \/ HasEnd(items)
        /\ rest[i].kind = "BODY_END" =>
             ~Queued(q) /\ \A j \in (i + 1) + 1..n : items[j].kind = "HEADER"
    BY <2>1 DEF Tidy, n
  <2>3. rest[i].kind # "HEADER" => Queued(q) \/ HasEnd(rest)
    BY <1>4, <1>5, <2>2
  <2>4. ASSUME rest[i].kind = "BODY_END", NEW j \in i + 1..n - 1
        PROVE  rest[j].kind = "HEADER"
    <3>1. j + 1 \in (i + 1) + 1..n /\ j \in 1..n - 1
      BY <1>1
    <3>2. QED
      BY <1>1, <2>2, <2>4, <3>1
  <2>5. QED
    BY <2>2, <2>3, <2>4
<1>7. Tidy(rest, q, added)
  BY <1>1, <1>6 DEF Tidy
<1>8. QED
  BY <1>1, <1>3, <1>4, <1>5, <1>7 DEF x, rest

LEMMA FlowsTail ==
  ASSUME NEW items \in Seq(Item), items # <<>>, NEW t, NEW a \in Nat, NEW given,
         Flows(items, t, a, given)
  PROVE  \E b \in Nat : Spans(Head(items), a, b) /\ Flows(Tail(items), t, b, given)
<1>1. PICK m \in Nat, d \in Seq(Nat) :
        /\ Runs(items, a, m) /\ Leaves(t, d) /\ From(d, m)
        /\ given = m + Len(d)
  BY DEF Flows
<1>2. PICK b \in Nat : Spans(Head(items), a, b) /\ Runs(Tail(items), b, m)
  BY <1>1, RunsTail
<1>3. Flows(Tail(items), t, b, given)
  BY <1>1, <1>2 DEF Flows
<1>4. QED
  BY <1>2, <1>3

(* Nothing of the body is left or on its way: all has been received.       *)
LEMMA FlowsEnd ==
  ASSUME NEW items \in Seq(Item), NEW t, NEW a \in Nat, NEW given,
         Flows(items, t, a, given), ~Queued(t.headerq),
         \A i \in 1..Len(items) : items[i].kind = "HEADER"
  PROVE  a = given
<1>1. PICK m \in Nat, d \in Seq(Nat) :
        /\ Runs(items, a, m) /\ Leaves(t, d) /\ From(d, m)
        /\ given = m + Len(d)
  BY DEF Flows
<1>2. a = m
  BY <1>1, RunsHeaders
<1>3. d = <<>> /\ Len(<<>>) = 0
  BY <1>1 DEF Leaves
<1>4. QED
  BY <1>1, <1>2, <1>3

LEMMA KeepIs ==
  ASSUME NEW H, NEW rm \in Seq(H), NEW q \in Seq(H), NEW h \in H
  PROVE  \A i \in 1..Len(rm \o Append(q, h)) :
           \/ (rm \o Append(q, h))[i] = h
           \/ \E j \in 1..Len(rm \o q) : (rm \o Append(q, h))[i] = (rm \o q)[j]
<1> DEFINE a == Len(rm)
           b == Len(q)
           p == Append(q, h)
           s == rm \o p
           u == rm \o q
<1>1. a \in Nat /\ b \in Nat
  BY LenProperties
<1>2. /\ p \in Seq(H) /\ Len(p) = b + 1 /\ p[b + 1] = h
      /\ \A i \in 1..b : p[i] = q[i]
  BY AppendProperties
<1> HIDE DEF p
<1>3. /\ Len(s) = a + (b + 1)
      /\ \A i \in 1..a + (b + 1) : s[i] = IF i <= a THEN rm[i] ELSE p[i - a]
  <2> DEFINE c == Len(p)
  <2>1. /\ Len(s) = a + c
        /\ \A i \in 1..a + c : s[i] = IF i <= a THEN rm[i] ELSE p[i - a]
    BY <1>2, ConcatProperties
  <2>2. c = b + 1
    BY <1>2
  <2> HIDE DEF a, b, c, s
  <2>3. QED
    BY <2>1, <2>2
<1>4. /\ Len(u) = a + b
      /\ \A i \in 1..a + b : u[i] = IF i <= a THEN rm[i] ELSE q[i - a]
  BY ConcatProperties
<1> HIDE DEF a, b, s, u
<1>5. ASSUME NEW i \in 1..a + (b + 1)
      PROVE  s[i] = h \/ \E j \in 1..a + b : s[i] = u[j]
  <2>1. CASE i = a + (b + 1)
    <3>1. ~(i <= a) /\ i - a = b + 1
      BY <1>1, <2>1
    <3>2. QED
      BY <1>2, <1>3, <3>1
  <2>2. CASE i # a + (b + 1)
    <3>1. i \in 1..a + b
      BY <1>1, <2>2
    <3>2. CASE i <= a
      BY <1>3, <1>4, <3>1, <3>2
    <3>3. CASE ~(i <= a)
      <4>1. i - a \in 1..b
        BY <1>1, <3>1, <3>3
      <4>2. s[i] = p[i - a] /\ u[i] = q[i - a]
        BY <1>3, <1>4, <3>1, <3>3
      <4>3. QED
        BY <1>2, <3>1, <4>1, <4>2
    <3>4. QED
      BY <3>2, <3>3
  <2>3. QED
    BY <2>1, <2>2
<1>6. QED
  BY <1>3, <1>4, <1>5 DEF s, u, p

(* What is to be shown of a step that takes a header.                      *)
LEMMA TookJourney ==
  ASSUME Carried, Journey, phase = "open", phase' = "open",
         rx.pc = "parse", rx'.pc = "parse",
         rx.todo # <<>>, rx'.todo = Tail(rx.todo),
         env' = env, tx' = tx, hist'.added = hist.added, hist'.given = hist.given,
         rx.abort => rx'.abort, rx'.abort => rx.abort,
         BodyAdded \/ (/\ hist'.streamed = hist.streamed /\ hist'.eos = hist.eos
                       /\ rx'.body = rx.body),
         InOrder', hist'.eos <= 1,
         hist'.eos = 1 => Len(hist'.streamed) = hist.given,
         \A i \in 1..Len(Received') : Entire(Received'[i], hist.added, hist.given),
         Queued(tx.headerq) \/ HasEnd(Tail(rx.todo)) =>
           /\ hist'.eos = 0
           /\ \A i \in 1..Len(Received') : Other(Received'[i], hist.added)
           /\ ~rx.abort => Flows(Tail(rx.todo), tx, At', hist.given),
         ~(Queued(tx.headerq) \/ HasEnd(Tail(rx.todo))) => Heard'
  PROVE  Journey'
<1>1. Arrived /\ OnWay
  BY DEF Journey
<1>2. Moving = rx.todo /\ Moving' = Tail(rx.todo)
  BY DEF Moving
<1>3. rx \in Receivers /\ rx.todo \in Seq(Item)
  BY Typed DEF Carried, Receivers
<1>4. Tidy(rx.todo, tx.headerq, hist.added)
  BY <1>1, <1>2 DEF OnWay
<1> DEFINE rest == Tail(rx.todo)
<1>5. /\ Tidy(rest, tx.headerq, hist.added)
      /\ HasEnd(rest) => HasEnd(rx.todo)
  BY <1>3, <1>4, TailTidy
<1>6. Moving' = rest /\ rx'.todo = rest
  BY <1>2
<1>7. Queued(tx.headerq) \/ HasEnd(rest) =>
        /\ hist'.eos = 0
        /\ \A i \in 1..Len(Received') : Other(Received'[i], hist.added)
        /\ ~rx.abort => Flows(rest, tx, At', hist.given)
  OBVIOUS
<1>8. ~(Queued(tx.headerq) \/ HasEnd(rest)) => Heard'
  OBVIOUS
<1> HIDE DEF rest
<1>9. Pending' <=> Queued(tx.headerq) \/ HasEnd(rest)
  BY <1>6 DEF Pending
<1>10. Pending' => Pending
  BY <1>2, <1>5, <1>9 DEF Pending
<1>11. BodyAdded' <=> BodyAdded
  BY DEF BodyAdded
<1>12. Pending' => Awaited'
  <2> SUFFICES ASSUME Pending' PROVE Awaited'
    OBVIOUS
  <2>1. /\ hist'.eos = 0
        /\ \A i \in 1..Len(Received') : Other(Received'[i], hist'.added)
        /\ ~rx'.abort => Flows(Moving', tx', At', hist'.given)
    BY <1>6, <1>7, <1>9
  <2>2. (\A i \in 1..Len(Received) : Other(Received[i], hist.added))'
    BY <2>1
  <2>3. (~rx.abort => Flows(Moving, tx, At, hist.given))'
    BY <2>1
  <2>4. QED
    BY <2>1, <2>2, <2>3 DEF Awaited
<1>13. ~Pending' => Heard'
  BY <1>8, <1>9
<1>14. Tidy(Moving, tx.headerq, hist.added)'
  BY <1>5, <1>6 DEF Tidy
<1>15. ~BodyAdded' => Untouched'
  BY <1>1, <1>11 DEF OnWay, Untouched
<1>16. tx'.pc = "ask" => tx'.s_data = <<>>
  BY <1>1 DEF OnWay
<1>17. Pending' => BodyAdded'
  BY <1>1, <1>10, <1>11 DEF OnWay
<1>18. OnWay'
  BY <1>12, <1>13, <1>14, <1>15, <1>16, <1>17 DEF OnWay
<1>19. Arrived'
  <2>1. (\A i \in 1..Len(Received) : Entire(Received[i], hist.added, hist.given))'
    OBVIOUS
  <2>2. rx'.abort => env'.streams
    BY <1>1 DEF Arrived
  <2>3. QED
    BY <2>1, <2>2 DEF Arrived
<1>20. QED
  BY <1>18, <1>19 DEF Journey

(* Before a header is taken: what it is, and where it is in the body.      *)
LEMMA BeforeTaking ==
  ASSUME Carried, Journey, phase = "open", rx.pc = "parse", rx.todo # <<>>
  PROVE  LET item == Head(rx.todo)
             rest == Tail(rx.todo)
         IN  /\ Arrived /\ OnWay
             /\ rx \in Receivers /\ hist \in Histories
             /\ item \in Item /\ item.no \in Nat /\ item.data \in Seq(Nat)
             /\ rest \in Seq(Item) /\ At \in Nat
             /\ item.no \in 1..Len(hist.added)
             /\ item.kind = "HEADER" => ~IsBody(hist.added[item.no].kind)
             /\ Pending <=> \/ Queued(tx.headerq) \/ HasEnd(rest)
                            \/ item.kind = "BODY_END"
             /\ item.kind # "HEADER" => Pending /\ BodyAdded /\ Awaited
             /\ item.kind = "BODY_END" =>
                  /\ ~Queued(tx.headerq) /\ ~HasEnd(rest)
                  /\ \A i \in 1..Len(rest) : rest[i].kind = "HEADER"
             /\ Pending /\ ~rx.abort =>
                  \E b \in Nat : Spans(item, At, b) /\ Flows(rest, tx, b, hist.given)
<1> DEFINE item == Head(rx.todo)
           rest == Tail(rx.todo)
<1>1. Arrived /\ OnWay /\ rx \in Receivers /\ hist \in Histories
  BY Typed DEF Carried, Journey
<1>2. Moving = rx.todo /\ rx.todo \in Seq(Item)
  BY <1>1 DEF Moving, Receivers
<1>3. Tidy(rx.todo, tx.headerq, hist.added)
  BY <1>1, <1>2 DEF OnWay
<1>4. /\ item \in Item /\ rest \in Seq(Item)
      /\ item.no \in 1..Len(hist.added)
      /\ item.kind = "HEADER" => ~IsBody(hist.added[item.no].kind)
      /\ item.kind # "HEADER" => Queued(tx.headerq) \/ HasEnd(rx.todo)
      /\ item.kind = "BODY_END" =>
           ~Queued(tx.headerq) /\ \A i \in 1..Len(rest) : rest[i].kind = "HEADER"
      /\ HasEnd(rx.todo) <=> item.kind = "BODY_END" \/ HasEnd(rest)
  BY <1>2, <1>3, TailTidy
<1>5. At \in Nat
  BY <1>1, LenProperties DEF At, Histories, Receivers
<1>6. ASSUME Flows(rx.todo, tx, At, hist.given)
      PROVE  \E b \in Nat : Spans(item, At, b) /\ Flows(rest, tx, b, hist.given)
  BY <1>2, <1>5, <1>6, FlowsTail
<1> HIDE DEF item, rest
<1>7. item.no \in Nat /\ item.data \in Seq(Nat)
  BY <1>4 DEF Item
<1>8. Pending <=> \/ Queued(tx.headerq) \/ HasEnd(rest)
                  \/ item.kind = "BODY_END"
  BY <1>2, <1>4 DEF Pending
<1>9. item.kind # "HEADER" => Pending
  BY <1>2, <1>4 DEF Pending
<1>10. Pending => BodyAdded /\ Awaited
  BY <1>1 DEF OnWay
<1>11. Pending /\ ~rx.abort =>
         \E b \in Nat : Spans(item, At, b) /\ Flows(rest, tx, b, hist.given)
  BY <1>2, <1>6, <1>10 DEF Awaited
<1>12. item.kind = "BODY_END" => ~HasEnd(rest)
  BY <1>4 DEF HasEnd
<1>13. QED
  BY <1>1, <1>4, <1>5, <1>7, <1>8, <1>9, <1>10, <1>11, <1>12 DEF item, rest

LEMMA TakesHeader ==
  ASSUME Carried, Journey, phase = "open", phase' = "open",
         rx.pc = "parse", rx.todo # <<>>, Head(rx.todo).kind = "HEADER",
         env' = env, tx' = tx, hist' = hist,
         rx' = [[rx EXCEPT !.todo = Tail(@)] EXCEPT
                 !.headerq = Keep([no |-> Head(rx.todo).no,
                                   data |-> Head(rx.todo).data])]
  PROVE  Journey'
<1> DEFINE item == Head(rx.todo)
           rest == Tail(rx.todo)
           H == [no : Nat, data : Seq(Nat)]
           h == [no |-> item.no, data |-> item.data]
<1>1. /\ Arrived /\ OnWay
      /\ rx \in Receivers /\ hist \in Histories
      /\ item \in Item /\ item.no \in Nat /\ item.data \in Seq(Nat)
      /\ rest \in Seq(Item) /\ At \in Nat
      /\ item.no \in 1..Len(hist.added)
      /\ item.kind = "HEADER" => ~IsBody(hist.added[item.no].kind)
      /\ Pending <=> \/ Queued(tx.headerq) \/ HasEnd(rest)
                     \/ item.kind = "BODY_END"
      /\ Pending /\ ~rx.abort =>
           \E b \in Nat : Spans(item, At, b) /\ Flows(rest, tx, b, hist.given)
  BY BeforeTaking
<1>2. item.kind = "HEADER"
  OBVIOUS
<1>3. rx.headerq \in Seq(H) /\ rx.rm \in Seq(H)
  BY <1>1 DEF Receivers
<1>4. h \in H /\ h.no = item.no
  BY <1>1
<1> HIDE DEF item
<1> DEFINE q == Append(rx.headerq, h)
<1>5. /\ rx'.headerq = q /\ rx'.todo = rest /\ rx'.pc = "parse"
      /\ rx'.rm = rx.rm /\ rx'.body = rx.body /\ rx'.abort = rx.abort
  <2> HIDE DEF h, rest
  <2>1. rx' = [[rx EXCEPT !.todo = rest] EXCEPT !.headerq = q]
    BY DEF Keep, rest, h, item
  <2> HIDE DEF q
  <2>2. QED
    BY <1>1, <2>1 DEF Receivers
<1>6. Received' = rx.rm \o q
  BY <1>5 DEF Received
<1>7. \A i \in 1..Len(Received') :
        Received'[i] = h \/ \E j \in 1..Len(Received) : Received'[i] = Received[j]
  <2> DEFINE was == rx.rm \o rx.headerq
             is == rx.rm \o Append(rx.headerq, h)
  <2> HIDE DEF h, H
  <2>1. \A i \in 1..Len(is) : is[i] = h \/ \E j \in 1..Len(was) : is[i] = was[j]
    <3> DEFINE a == rx.rm
               b == rx.headerq
    <3>1. a \in Seq(H) /\ b \in Seq(H) /\ h \in H
      BY <1>3, <1>4
    <3> HIDE DEF a, b
    <3>2. \A i \in 1..Len(a \o Append(b, h)) :
            \/ (a \o Append(b, h))[i] = h
            \/ \E j \in 1..Len(a \o b) : (a \o Append(b, h))[i] = (a \o b)[j]
      BY <3>1, KeepIs
    <3>3. QED
      BY <3>2 DEF a, b
  <2>2. Received' = is
    BY <1>6
  <2>3. Received = was
    BY DEF Received
  <2> HIDE DEF was, is
  <2>4. QED
    BY <2>1, <2>2, <2>3
<1> HIDE DEF h, q, rest
<1>8. Other(h, hist.added) /\ Entire(h, hist.added, hist.given)
  BY <1>1, <1>2, <1>4 DEF Other, Entire
<1>9. \A i \in 1..Len(Received') : Entire(Received'[i], hist.added, hist.given)
  BY <1>1, <1>7, <1>8 DEF Arrived
<1>10. At' = At
  BY <1>5 DEF At
<1>11. Queued(tx.headerq) \/ HasEnd(rest) =>
         /\ hist'.eos = 0
         /\ \A i \in 1..Len(Received') : Other(Received'[i], hist.added)
         /\ ~rx.abort => Flows(rest, tx, At', hist.given)
  <2> SUFFICES ASSUME Queued(tx.headerq) \/ HasEnd(rest)
               PROVE  /\ hist'.eos = 0
                      /\ \A i \in 1..Len(Received') : Other(Received'[i], hist.added)
                      /\ ~rx.abort => Flows(rest, tx, At', hist.given)
    OBVIOUS
  <2>1. Pending /\ Awaited
    BY <1>1 DEF OnWay
  <2>2. \A i \in 1..Len(Received') : Other(Received'[i], hist.added)
    BY <1>7, <1>8, <2>1 DEF Awaited
  <2>3. \A b : Spans(item, At, b) => b = At
    BY <1>2 DEF Spans
  <2>4. ~rx.abort => Flows(rest, tx, At', hist.given)
    BY <1>1, <1>10, <2>1, <2>3
  <2>5. QED
    BY <2>1, <2>2, <2>4 DEF Awaited
<1>12. ~(Queued(tx.headerq) \/ HasEnd(rest)) => Heard'
  <2>1. ~(Queued(tx.headerq) \/ HasEnd(rest)) => Heard
    BY <1>1, <1>2 DEF OnWay
  <2>2. QED
    BY <1>5, <2>1 DEF Heard, BodyAdded
<1>13. /\ InOrder' /\ hist'.eos <= 1
       /\ hist'.eos = 1 => Len(hist'.streamed) = hist.given
  BY <1>1, <1>5 DEF Arrived, InOrder
<1>14. (rx.abort => rx'.abort) /\ (rx'.abort => rx.abort)
  BY <1>5
<1>15. QED
  BY <1>5, <1>9, <1>11, <1>12, <1>13, <1>14, TookJourney DEF rest

(* A fragment of a stream.                                                 *)
LEMMA TakesStream ==
  ASSUME Carried, Journey, phase = "open", phase' = "open",
         rx.pc = "parse", rx.todo # <<>>, Head(rx.todo).kind # "HEADER", env.streams,
         env' = env, tx' = tx, rx' = [rx EXCEPT !.todo = Tail(@)],
         hist' = IF rx.abort THEN hist
                 ELSE [hist EXCEPT !.streamed = @ \o Head(rx.todo).data,
                                   !.eos = @ + EndsStream(Head(rx.todo))]
  PROVE  Journey'
<1> DEFINE item == Head(rx.todo)
           rest == Tail(rx.todo)
           streamed == hist.streamed \o item.data
           eos == hist.eos + EndsStream(item)
<1>1. /\ Arrived /\ OnWay
      /\ rx \in Receivers /\ hist \in Histories
      /\ item \in Item /\ item.no \in Nat /\ item.data \in Seq(Nat)
      /\ rest \in Seq(Item) /\ At \in Nat
      /\ Pending <=> \/ Queued(tx.headerq) \/ HasEnd(rest)
                     \/ item.kind = "BODY_END"
      /\ item.kind # "HEADER" => Pending /\ BodyAdded /\ Awaited
      /\ item.kind = "BODY_END" =>
           /\ ~Queued(tx.headerq) /\ ~HasEnd(rest)
           /\ \A i \in 1..Len(rest) : rest[i].kind = "HEADER"
      /\ Pending /\ ~rx.abort =>
           \E b \in Nat : Spans(item, At, b) /\ Flows(rest, tx, b, hist.given)
  BY BeforeTaking
<1>2. item.kind # "HEADER"
  OBVIOUS
<1>3. Pending /\ BodyAdded /\ Awaited
  BY <1>1, <1>2
<1>4. hist' = IF rx.abort THEN hist
              ELSE [hist EXCEPT !.streamed = streamed, !.eos = eos]
  OBVIOUS
<1> HIDE DEF streamed, eos, item
<1>5. /\ rx'.todo = rest /\ rx'.pc = "parse" /\ Received' = Received
      /\ rx'.body = rx.body /\ rx'.abort = rx.abort
  <2> HIDE DEF rest
  <2>1. rx' = [rx EXCEPT !.todo = rest]
    BY DEF rest
  <2>2. QED
    BY <1>1, <2>1 DEF Receivers, Received
<1> HIDE DEF rest
<1>6. (rx.abort => rx'.abort) /\ (rx'.abort => rx.abort)
  BY <1>5
<1>7. \A i \in 1..Len(Received') : Entire(Received'[i], hist.added, hist.given)
  BY <1>1, <1>5 DEF Arrived
<1>8. \A i \in 1..Len(Received') : Other(Received'[i], hist.added)
  BY <1>3, <1>5 DEF Awaited
<1>9. CASE rx.abort
  <2>1. hist' = hist
    BY <1>4, <1>9
  <2>2. /\ InOrder' /\ hist'.eos <= 1
        /\ hist'.eos = 1 => Len(hist'.streamed) = hist.given
    BY <1>1, <1>5, <2>1 DEF Arrived, InOrder
  <2>3. Heard'
    BY <1>6, <1>9 DEF Heard
  <2>4. hist'.eos = 0
    BY <1>3, <2>1 DEF Awaited
  <2>5. QED
    BY <1>3, <1>5, <1>6, <1>7, <1>8, <1>9, <2>1, <2>2, <2>3, <2>4, TookJourney DEF rest
<1>10. CASE ~rx.abort
  <2>1. PICK b \in Nat : Spans(item, At, b) /\ Flows(rest, tx, b, hist.given)
    BY <1>1, <1>3, <1>10
  <2>2. /\ hist'.streamed = streamed /\ hist'.eos = eos
        /\ hist'.added = hist.added /\ hist'.given = hist.given
    BY <1>1, <1>4, <1>10 DEF Histories
  <2>3. At = Len(hist.streamed) /\ hist.streamed \in Seq(Nat)
    BY <1>1 DEF At, Histories
  <2>4. b = At + Len(item.data) /\ From(item.data, At)
    BY <1>2, <2>1 DEF Spans, From
  <2>5. streamed \in Seq(Nat) /\ Len(streamed) = b
    BY <1>1, <2>3, <2>4, ConcatProperties DEF streamed
  <2>6. streamed = Numbers(0, Len(streamed))
    <3>1. hist.streamed = Numbers(0, At)
      BY <1>1, <2>3 DEF Arrived, InOrder
    <3>2. From(hist.streamed, 0)
      BY <1>1, <3>1, NumbersFrom
    <3>3. 0 + Len(hist.streamed) = At
      BY <1>1, <2>3
    <3>4. From(streamed, 0)
      BY <1>1, <2>3, <2>4, <3>2, <3>3, FromConcat DEF streamed
    <3>5. QED
      BY <2>5, <3>4, FromNumbers
  <2>7. InOrder'
    BY <1>1, <1>5, <2>2, <2>6 DEF Arrived, InOrder
  <2>8. At' = b
    BY <2>2, <2>5 DEF At
  <2>9. hist.eos = 0
    BY <1>3 DEF Awaited
  <2>10. CASE item.kind = "BODY_END"
    <3>1. hist'.eos = 1
      BY <2>2, <2>9, <2>10 DEF eos, EndsStream
    <3>2. b = hist.given
      BY <1>1, <2>1, <2>10, FlowsEnd
    <3>3. ~(Queued(tx.headerq) \/ HasEnd(rest))
      BY <1>1, <2>10
    <3>4. Heard'
      BY <3>1 DEF Heard
    <3>5. Len(hist'.streamed) = hist.given
      BY <2>2, <2>5, <3>2
    <3>6. hist'.eos <= 1
      BY <3>1
    <3>7. QED
      BY <1>3, <1>5, <1>6, <1>7, <2>2, <2>7, <3>3, <3>4, <3>5, <3>6, TookJourney DEF rest
  <2>11. CASE item.kind # "BODY_END"
    <3>1. hist'.eos = 0
      BY <2>2, <2>9, <2>11 DEF eos, EndsStream
    <3>2. Queued(tx.headerq) \/ HasEnd(rest)
      BY <1>1, <1>3, <2>11
    <3>3. Flows(rest, tx, At', hist.given)
      BY <2>1, <2>8
    <3>4. hist'.eos <= 1 /\ hist'.eos # 1
      BY <3>1
    <3>5. QED
      BY <1>3, <1>5, <1>6, <1>7, <1>8, <2>2, <2>7, <3>1, <3>2, <3>3, <3>4, TookJourney DEF rest
  <2>12. QED
    BY <2>10, <2>11
<1>11. QED
  BY <1>9, <1>10

(* The fragment x joins what was received of the body.                     *)
LEMMA BodyGrows ==
  ASSUME Carried, Journey, phase = "open", rx.pc = "parse", rx.todo # <<>>,
         Head(rx.todo).kind # "HEADER", ~env.streams
  PROVE  LET item == Head(rx.todo)
             rest == Tail(rx.todo)
             d == Body(item)
         IN  /\ d \in Seq(Nat) /\ d = Numbers(0, Len(d))
             /\ ~rx.abort /\ Pending /\ BodyAdded /\ Awaited
             /\ Flows(rest, tx, Len(d), hist.given)
             /\ item.kind = "BODY_END" => d = Numbers(0, hist.given)
<1> DEFINE item == Head(rx.todo)
           rest == Tail(rx.todo)
           d == Body(item)
<1>1. /\ Arrived /\ rx \in Receivers
      /\ item.data \in Seq(Nat) /\ rest \in Seq(Item) /\ At \in Nat
      /\ item.kind # "HEADER" => Pending /\ BodyAdded /\ Awaited
      /\ item.kind = "BODY_END" =>
           /\ ~Queued(tx.headerq)
           /\ \A i \in 1..Len(rest) : rest[i].kind = "HEADER"
      /\ Pending /\ ~rx.abort =>
           \E b \in Nat : Spans(item, At, b) /\ Flows(rest, tx, b, hist.given)
  BY BeforeTaking
<1>2. item.kind # "HEADER"
  OBVIOUS
<1> HIDE DEF item, rest
<1>3. ~rx.abort
  BY <1>1 DEF Arrived
<1>4. PICK b \in Nat : Spans(item, At, b) /\ Flows(rest, tx, b, hist.given)
  BY <1>1, <1>2, <1>3
<1>5. At = Len(rx.body) /\ rx.body \in Seq(Nat)
  BY <1>1 DEF At, Receivers
<1>6. b = At + Len(item.data) /\ From(item.data, At)
  BY <1>2, <1>4 DEF Spans, From
<1>7. d \in Seq(Nat) /\ Len(d) = b
  BY <1>1, <1>5, <1>6, ConcatProperties DEF Body
<1>8. d = Numbers(0, Len(d))
  <2>1. rx.body = Numbers(0, At)
    BY <1>1, <1>5 DEF Arrived, InOrder
  <2>2. From(rx.body, 0)
    BY <1>1, <2>1, NumbersFrom
  <2>3. 0 + Len(rx.body) = At
    BY <1>1, <1>5
  <2>4. From(d, 0)
    BY <1>1, <1>5, <1>6, <2>2, <2>3, FromConcat DEF Body
  <2>5. QED
    BY <1>7, <2>4, FromNumbers
<1>9. item.kind = "BODY_END" => b = hist.given
  BY <1>1, <1>4, FlowsEnd
<1> HIDE DEF d
<1>10. QED
  BY <1>1, <1>2, <1>3, <1>4, <1>7, <1>8, <1>9 DEF item, rest, d

(* A fragment of a body that is collected.                                 *)
LEMMA TakesBody ==
  ASSUME Carried, Journey, phase = "open", phase' = "open",
         rx.pc = "parse", rx.todo # <<>>, Head(rx.todo).kind = "BODY", ~env.streams,
         env' = env, tx' = tx, hist' = hist,
         rx' = [[rx EXCEPT !.todo = Tail(@)] EXCEPT !.body = Body(Head(rx.todo))]
  PROVE  Journey'
<1> DEFINE item == Head(rx.todo)
           rest == Tail(rx.todo)
           d == Body(item)
<1>1. /\ d \in Seq(Nat) /\ d = Numbers(0, Len(d))
      /\ ~rx.abort /\ Pending /\ BodyAdded /\ Awaited
      /\ Flows(rest, tx, Len(d), hist.given)
  BY BodyGrows
<1>2. /\ Arrived /\ rx \in Receivers
      /\ Pending <=> \/ Queued(tx.headerq) \/ HasEnd(rest)
                     \/ item.kind = "BODY_END"
  BY BeforeTaking
<1>3. item.kind = "BODY"
  OBVIOUS
<1> HIDE DEF item, d, rest
<1>4. /\ rx'.todo = rest /\ rx'.pc = "parse" /\ Received' = Received
      /\ rx'.body = d /\ rx'.abort = rx.abort
  <2>1. rx' = [[rx EXCEPT !.todo = rest] EXCEPT !.body = d]
    BY DEF rest, d, item
  <2>2. QED
    BY <1>2, <2>1 DEF Receivers, Received
<1>5. (rx.abort => rx'.abort) /\ (rx'.abort => rx.abort)
  BY <1>4
<1>6. \A i \in 1..Len(Received') : Entire(Received'[i], hist.added, hist.given)
  BY <1>2, <1>4 DEF Arrived
<1>7. \A i \in 1..Len(Received') : Other(Received'[i], hist.added)
  BY <1>1, <1>4 DEF Awaited
<1>8. /\ InOrder' /\ hist'.eos <= 1
      /\ hist'.eos = 1 => Len(hist'.streamed) = hist.given
  BY <1>1, <1>2, <1>4 DEF Arrived, InOrder
<1>9. At' = Len(d)
  BY <1>4 DEF At
<1>10. Queued(tx.headerq) \/ HasEnd(rest)
  BY <1>1, <1>2, <1>3
<1>11. hist'.eos = 0 /\ Flows(rest, tx, At', hist.given)
  BY <1>1, <1>9 DEF Awaited
<1>12. QED
  BY <1>1, <1>4, <1>5, <1>6, <1>7, <1>8, <1>10, <1>11, TookJourney DEF rest

(* The last one: the whole body is kept, or dropped.                       *)
LEMMA TakesEnd ==
  ASSUME Carried, Journey, phase = "open", phase' = "open",
         rx.pc = "parse", rx.todo # <<>>, Head(rx.todo).kind = "BODY_END", ~env.streams,
         env' = env, tx' = tx, hist'.added = hist.added, hist'.given = hist.given,
         hist'.streamed = hist.streamed, hist'.eos = hist.eos,
         \/ rx' = [[rx EXCEPT !.todo = Tail(@)] EXCEPT
                    !.body = <<>>,
                    !.headerq = Keep([no |-> Head(rx.todo).no,
                                      data |-> Body(Head(rx.todo))])]
         \/ rx' = [[rx EXCEPT !.todo = Tail(@)] EXCEPT !.body = <<>>]
  PROVE  Journey'
<1> DEFINE item == Head(rx.todo)
           rest == Tail(rx.todo)
           H == [no : Nat, data : Seq(Nat)]
           g == [no |-> item.no, data |-> Body(item)]
<1>1. /\ Body(item) \in Seq(Nat) /\ BodyAdded /\ Awaited /\ ~rx.abort
      /\ item.kind = "BODY_END" => Body(item) = Numbers(0, hist.given)
  BY BodyGrows
<1>2. /\ Arrived /\ rx \in Receivers
      /\ item.no \in Nat /\ item.no \in 1..Len(hist.added)
      /\ item.kind = "BODY_END" => ~Queued(tx.headerq) /\ ~HasEnd(rest)
  BY BeforeTaking
<1>3. item.kind = "BODY_END"
  OBVIOUS
<1>4. rx.headerq \in Seq(H) /\ rx.rm \in Seq(H)
  BY <1>2 DEF Receivers
<1>5. g \in H /\ g.no = item.no /\ g.data = Body(item)
  BY <1>1, <1>2
<1> DEFINE q == Append(rx.headerq, g)
<1>6. \/ rx' = [[rx EXCEPT !.todo = rest] EXCEPT !.body = <<>>, !.headerq = q]
      \/ rx' = [[rx EXCEPT !.todo = rest] EXCEPT !.body = <<>>]
  BY DEF Keep
<1> HIDE DEF item, g, rest
<1>7. Entire(g, hist.added, hist.given)
  BY <1>1, <1>2, <1>3, <1>5 DEF Entire
<1>8. /\ rx'.todo = rest /\ rx'.pc = "parse" /\ rx'.rm = rx.rm
      /\ rx'.body = <<>> /\ rx'.abort = rx.abort
      /\ rx'.headerq = q \/ rx'.headerq = rx.headerq
  <2> HIDE DEF q
  <2>1. QED
    BY <1>2, <1>6 DEF Receivers
<1>9. \A i \in 1..Len(Received') :
        Received'[i] = g \/ \E j \in 1..Len(Received) : Received'[i] = Received[j]
  <2>1. CASE rx'.headerq = rx.headerq
    <3>1. Received' = Received
      BY <1>8, <2>1 DEF Received
    <3>2. QED
      BY <3>1
  <2>2. CASE rx'.headerq = q
    <3> DEFINE a == rx.rm
               b == rx.headerq
    <3>1. a \in Seq(H) /\ b \in Seq(H) /\ g \in H
      BY <1>4, <1>5
    <3>2. Received' = a \o Append(b, g) /\ Received = a \o b
      BY <1>8, <2>2 DEF Received
    <3> HIDE DEF a, b, H
    <3>3. \A i \in 1..Len(a \o Append(b, g)) :
            \/ (a \o Append(b, g))[i] = g
            \/ \E j \in 1..Len(a \o b) : (a \o Append(b, g))[i] = (a \o b)[j]
      BY <3>1, KeepIs
    <3>4. QED
      BY <3>2, <3>3
  <2>3. QED
    BY <1>8, <2>1, <2>2
<1> HIDE DEF q, H
<1>10. (rx.abort => rx'.abort) /\ (rx'.abort => rx.abort)
  BY <1>8
<1>11. \A i \in 1..Len(Received') : Entire(Received'[i], hist.added, hist.given)
  BY <1>2, <1>7, <1>9 DEF Arrived
<1>12. InOrder'
  <2>1. <<>> = Numbers(0, Len(<<>>))
    <3>1. <<>> \in Seq(Nat) /\ From(<<>>, 0)
      BY EmptySeq DEF From
    <3>2. QED
      BY <3>1, FromNumbers
  <2>2. QED
    BY <1>2, <1>8, <2>1 DEF Arrived, InOrder
<1>13. /\ hist'.eos <= 1
       /\ hist'.eos = 1 => Len(hist'.streamed) = hist.given
  BY <1>2 DEF Arrived
<1>14. ~(Queued(tx.headerq) \/ HasEnd(rest)) /\ Heard'
  BY <1>2, <1>3 DEF Heard
<1>15. QED
  BY <1>1, <1>8, <1>10, <1>11, <1>12, <1>13, <1>14, TookJourney DEF rest

LEMMA ReceiveJourney ==
  ASSUME Carried, Journey, ReceiveHeader
  PROVE  Journey'
<1> DEFINE item == Head(rx.todo)
           r == [rx EXCEPT !.todo = Tail(@)]
           h == [no |-> item.no, data |-> item.data]
           g == [no |-> item.no, data |-> Body(item)]
<1>1. /\ phase = "open" /\ rx.pc = "parse" /\ rx.todo # <<>>
      /\ env' = env /\ tx' = tx
      /\ Receive(item) \/ ReceiveFails(item)
  BY DEF ReceiveHeader, Receive, ReceiveFails
<1>2. hist \in Histories
  BY Typed DEF Carried
<1>3. CASE ReceiveFails(item)
  <2>1. /\ phase' = "refused" /\ rx' = rx
        /\ hist' = [hist EXCEPT !.faults = @ + 1]
    BY <1>3 DEF ReceiveFails
  <2>2. Received' = Received
    BY <2>1 DEF Received
  <2>3. /\ hist'.added = hist.added /\ hist'.given = hist.given
        /\ hist'.streamed = hist.streamed /\ hist'.eos = hist.eos
    BY <1>2, <2>1 DEF Histories
  <2>4. phase' # "open" /\ phase' # "done" /\ rx'.body = rx.body /\ rx'.abort = rx.abort
    BY <2>1
  <2>5. QED
    BY <1>1, <2>2, <2>3, <2>4, EndJourney
<1>4. CASE Receive(item)
  <2>1. phase' = "open"
    BY <1>1, <1>4 DEF Receive
  <2>2. CASE item.kind = "HEADER" /\ rx' = [r EXCEPT !.headerq = Keep(h)] /\ hist' = hist
    BY <1>1, <2>1, <2>2, TakesHeader
  <2>3. CASE /\ item.kind # "HEADER" /\ env.streams /\ rx' = r
             /\ hist' = IF rx.abort THEN hist
                        ELSE [hist EXCEPT !.streamed = @ \o item.data,
                                          !.eos = @ + EndsStream(item)]
    BY <1>1, <2>1, <2>3, TakesStream
  <2>4. CASE /\ item.kind = "BODY" /\ ~env.streams
             /\ rx' = [r EXCEPT !.body = Body(item)] /\ hist' = hist
    BY <1>1, <2>1, <2>4, TakesBody
  <2>5. CASE /\ item.kind = "BODY_END" /\ ~env.streams
             /\ \/ /\ rx' = [r EXCEPT !.body = <<>>, !.headerq = Keep(g)]
                   /\ hist' = hist
                \/ /\ rx' = [r EXCEPT !.body = <<>>]
                   /\ hist' = [hist EXCEPT !.faults = @ + 1,
                                           !.dropped = Len(Received) + 1]
    <3> DEFINE dropped == Len(Received) + 1
               faults == hist.faults + 1
    <3>1. hist' = hist \/ hist' = [hist EXCEPT !.faults = faults, !.dropped = dropped]
      BY <2>5
    <3> HIDE DEF dropped, faults
    <3>2. /\ hist'.added = hist.added /\ hist'.given = hist.given
          /\ hist'.streamed = hist.streamed /\ hist'.eos = hist.eos
      BY <1>2, <3>1 DEF Histories
    <3>3. QED
      BY <1>1, <2>1, <2>5, <3>2, TakesEnd
  <2>6. QED
    BY <1>4, <2>2, <2>3, <2>4, <2>5, Zenon DEF Receive
<1>5. QED
  BY <1>1, <1>3, <1>4

LEMMA JourneyStep == Carried /\ OneBody /\ Journey /\ [Next]_vars => Journey'
<1> SUFFICES ASSUME Carried, OneBody, Journey, [Next]_vars PROVE Journey'
  OBVIOUS
<1>1. CASE Passes
  BY <1>1, PassJourney, ReceiveJourney
<1>2. CASE UNCHANGED vars
  <2>1. /\ env' = env /\ tx' = tx /\ link' = link /\ rx' = rx /\ hist' = hist
        /\ phase' = phase
    BY <1>2 DEF vars
  <2>2. At' = At /\ Received' = Received /\ Moving' = Moving
        /\ (BodyAdded' <=> BodyAdded) /\ (InOrder' <=> InOrder)
    BY <2>1 DEF At, Received, Moving, BodyAdded, InOrder
  <2>3. /\ Heard' <=> Heard
        /\ Untouched' <=> Untouched
        /\ Pending' <=> Pending
        /\ Awaited' <=> Awaited
    BY <2>1, <2>2 DEF Heard, Untouched, Pending, Awaited
  <2>4. (OnWay' <=> OnWay) /\ (Arrived' <=> Arrived)
    BY <2>1, <2>2, <2>3 DEF OnWay, Arrived
  <2>5. QED
    BY <2>1, <2>4 DEF Journey
<1>3. CASE Works
  BY <1>3, FillJourney, StreamJourney DEF Works
<1>4. QED
  BY <1>1, <1>2, <1>3, Steps, AddJourney, SendJourney, FinishJourney, Zenon DEF Passes

(* A body arrives as it was given, however send_body and send_stream cut   *)
(* it, whatever is suspended, refused, cancelled or lost for want of       *)
(* memory: obex_object_receive_body keeps all of it as one header, and     *)
(* obex_object_receive_stream gives it to the application without a gap    *)
(* and ends it once, after the last byte and before the transfer is done.  *)
THEOREM BodyArrives == Spec => []BodyWhole
<1>1. Init => Carried /\ Packs /\ Journey
  BY CarriedAtFirst, PacksAtFirst, JourneyAtFirst
<1>2. Packs => OneBody
  BY DEF Packs
<1>3. Carried /\ Packs /\ Journey /\ [Next]_vars => (Carried /\ Packs /\ Journey)'
  BY <1>2, CarriedStep, PacksStep, JourneyStep
<1>4. Journey => BodyWhole
  BY JourneyIsWhole
<1>5. QED
  BY <1>1, <1>3, <1>4, PTL DEF Spec
=============================================================================
