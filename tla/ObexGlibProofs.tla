--------------------------- MODULE ObexGlibProofs ---------------------------
(***************************************************************************)
(* Theorems of ObexGlib, for a buffer, packets and portions of any size    *)
(* and any number of requests: the types, that what the application reads  *)
(* is what arrived, and that each answer it is told is its own.            *)
(*                                                                         *)
(* The operators of ObexGlib take a context to a set of contexts, through  *)
(* others in which a request is done and the next one not made yet. So the *)
(* invariant is a conjunction of four predicates of a context, and each    *)
(* lemma says which of them an operator establishes, and from which.       *)
(***************************************************************************)
EXTENDS ObexGlib, SequenceTheorems, TLAPS

Events == {"IN", "OUT", "DONE"}

\* The fields of a context.
Context ==
  [state : {"open", "connect", "connected", "disconn", "closed"},
   pending : Request \union {None}, rsp : Responses, start : Nat,
   data : Seq(Bytes), events : Seq(Events),
   auto_connect : BOOLEAN, connected : BOOLEAN, idle : BOOLEAN,
   object : Request \union {None}, suspend : BOOLEAN, continued : BOOLEAN,
   awaited : BOOLEAN, link : {"up", "down"},
   accepted : 0..MaxRequests + 1, put : BOOLEAN, ended : Seq(Responses),
   told : Seq(Responses), arrived : Seq(Bytes), before : Nat,
   read : Seq(Bytes), packets : 0..MaxPackets, closed : BOOLEAN]

\* The types, that the buffer is not overrun, and that only a request can be
\* unanswered.
Typed(s) ==
  /\ s \in Context
  /\ s.start + Len(s.data) <= BufSize
  /\ Len(s.arrived) <= BufSize * s.packets
  /\ s.awaited => s.object # None

\* While the link holds a request waits only behind another, and a GET that
\* waits finds the buffer empty, which no transfer in progress can fill.
Waiting(s) ==
  s.link = "up" /\ s.pending # None =>
    /\ s.object # None
    /\ s.pending.op = "GET" =>
         /\ s.data = <<>> /\ s.start = 0
         /\ Command(s.object) \notin {"PUT", "GET"}

\* ReadsInOrder, and what it needs of "before".
Ordered(s) ==
  ~s.closed =>
    /\ Command(s.object) = "GET" => s.read \o s.data = s.arrived
    /\ IsPrefix(s.read, s.arrived)
    /\ Command(s.object) # "GET" /\ s.link = "up" => Len(s.read) >= s.before
    /\ s.before <= Len(s.arrived)

\* The buffer of a GET is empty ...
Drained(s) ==
  ~s.closed /\ Command(s.object) = "GET" => s.data = <<>> /\ s.start = 0

\* ... whenever a packet may arrive.
HeldBack(s) == s.awaited => Drained(s)

\* The answer that waits to be told, if there is one, is the last.
Quiet == {<<>>, <<"IN">>, <<"OUT">>}
Telling(s) ==
  \/ s.events \in Quiet /\ s.told = s.ended
  \/ /\ s.events \in {<<"DONE">>, <<"IN", "DONE">>, <<"DONE", "OUT">>,
                      <<"IN", "DONE", "OUT">>}
     /\ s.ended = Append(s.told, s.rsp)

\* The inductive invariant.
Inv(s) == Typed(s) /\ Waiting(s) /\ Ordered(s) /\ HeldBack(s) /\ Telling(s)
IInv == Inv(self)

-----------------------------------------------------------------------------
(* The handle.                                                              *)

\* A link error keeps everything but the request.
LEMMA LinkErrorInv ==
  ASSUME NEW s, Typed(s), Ordered(s)
  PROVE  LET u == LinkError(s)
         IN  /\ Typed(u) /\ Waiting(u) /\ Ordered(u) /\ HeldBack(u)
             /\ Telling(s) => Telling(u)
<1> DEFINE u == LinkError(s)
<1>1. Typed(u)
  BY DEF Typed, Context, LinkError
<1>2. /\ u.link = "down" /\ u.object = None /\ u.awaited = FALSE
      /\ u.read = s.read /\ u.arrived = s.arrived /\ u.closed = s.closed
      /\ u.before = s.before /\ u.events = s.events /\ u.told = s.told
      /\ u.ended = s.ended /\ u.rsp = s.rsp
  BY DEF Typed, Context, LinkError
<1>3. Command(u.object) # "GET"
  BY <1>2, NoneAssumption DEF Command, Ops
<1>4. Waiting(u) /\ Ordered(u) /\ HeldBack(u)
  BY <1>2, <1>3 DEF Waiting, Ordered, HeldBack
<1>5. Telling(s) => Telling(u)
  BY <1>2 DEF Telling
<1> QED
  BY <1>1, <1>4, <1>5

\* A packet may be sent when there is a request and its buffer is empty.
LEMMA SendsInv ==
  ASSUME NEW s, Typed(s), Ordered(s), Drained(s), s.object # None,
         NEW u \in Sends(s)
  PROVE  /\ Typed(u) /\ Ordered(u) /\ HeldBack(u)
         /\ Waiting(s) => Waiting(u)
         /\ Telling(s) => Telling(u)
         /\ u.accepted = s.accepted
<1>1. CASE u = LinkError(s)
  <2>1. u.accepted = s.accepted
    BY <1>1 DEF LinkError, Typed, Context
  <2> QED
    BY <1>1, <2>1, LinkErrorInv
<1>2. CASE u = [s EXCEPT !.awaited = TRUE]
  <2>1. Typed(u)
    BY <1>2 DEF Typed, Context
  <2>2. /\ u.link = s.link /\ u.object = s.object /\ u.pending = s.pending
        /\ u.data = s.data /\ u.start = s.start
        /\ u.read = s.read /\ u.arrived = s.arrived /\ u.closed = s.closed
        /\ u.before = s.before /\ u.events = s.events /\ u.told = s.told
        /\ u.ended = s.ended /\ u.rsp = s.rsp /\ u.accepted = s.accepted
    BY <1>2 DEF Typed, Context
  <2>3. Ordered(u) /\ HeldBack(u) /\ (Waiting(s) => Waiting(u))
    BY <2>2 DEF Ordered, Drained, HeldBack, Waiting
  <2>4. Telling(s) => Telling(u)
    BY <2>2 DEF Telling
  <2> QED
    BY <2>1, <2>2, <2>3, <2>4
<1> QED
  BY <1>1, <1>2 DEF Sends

\* A request is made when there is none; a GET, when the buffer is empty.
LEMMA BegunInv ==
  ASSUME NEW s, Typed(s), Ordered(s), s.object = None,
         NEW r \in Request, r.op = "GET" => s.data = <<>> /\ s.start = 0,
         NEW u \in OBEX_Request(s, r)
  PROVE  /\ Typed(u) /\ Ordered(u) /\ HeldBack(u)
         /\ s.link = "down" \/ s.pending = None => Waiting(u)
         /\ Telling(s) => Telling(u)
         /\ u.accepted = s.accepted
<1> DEFINE t == Begun(s, r)
<1>1. r # None /\ r.op \in Ops
  BY NoneAssumption, BoundsAssumption DEF Request
<1>2. Command(s.object) # "GET" /\ ~s.awaited
  BY NoneAssumption DEF Command, Ops, Typed
<1>3. Typed(t)
  <2>1. CASE r.op = "GET"
    <3>1. BufSize * 0 = 0 /\ 0 \in 0..MaxPackets /\ <<>> \in Seq(Bytes) /\ Len(<<>>) = 0
      BY BoundsAssumption, EmptySeq
    <3>2. t = [s EXCEPT !.object = r, !.suspend = FALSE, !.continued = FALSE,
                        !.arrived = <<>>, !.before = 0, !.read = <<>>,
                        !.packets = 0, !.closed = FALSE]
      BY <2>1 DEF Begun, Typed, Context
    <3>3. t \in Context
      <4>1. s \in Context
        BY DEF Typed
      <4>2. [s EXCEPT !.object = r, !.suspend = FALSE, !.continued = FALSE,
                      !.arrived = <<>>, !.before = 0, !.read = <<>>,
                      !.packets = 0, !.closed = FALSE] \in Context
        BY <3>1, <4>1, ZenonT(30) DEF Context
      <4> QED
        BY <3>2, <4>2
    <3>4. /\ t.start = s.start /\ t.data = s.data /\ t.object = r
          /\ t.arrived = <<>> /\ t.packets = 0
      BY <3>2 DEF Typed, Context
    <3> QED
      BY <1>1, <3>1, <3>3, <3>4 DEF Typed
  <2>2. CASE r.op # "GET"
    <3>1. t = [s EXCEPT !.object = r, !.suspend = (r.op = "PUT"), !.continued = FALSE]
      BY <2>2 DEF Begun, Typed, Context
    <3>2. t \in Context
      <4>1. s \in Context
        BY DEF Typed
      <4>2. [s EXCEPT !.object = r, !.suspend = (r.op = "PUT"),
                      !.continued = FALSE] \in Context
        BY <4>1, ZenonT(30) DEF Context
      <4> QED
        BY <3>1, <4>2
    <3>3. /\ t.start = s.start /\ t.data = s.data /\ t.object = r
          /\ t.arrived = s.arrived /\ t.packets = s.packets
      BY <3>1 DEF Typed, Context
    <3> QED
      BY <1>1, <3>2, <3>3 DEF Typed
  <2> QED
    BY <2>1, <2>2
<1>4. /\ t.object = r /\ t.link = s.link /\ t.pending = s.pending
      /\ t.data = s.data /\ t.start = s.start /\ t.awaited = FALSE
      /\ t.events = s.events /\ t.told = s.told
      /\ t.ended = s.ended /\ t.rsp = s.rsp /\ t.accepted = s.accepted
      /\ r.op # "GET" => /\ t.read = s.read /\ t.arrived = s.arrived
                         /\ t.closed = s.closed /\ t.before = s.before
      /\ r.op = "GET" => /\ t.read = <<>> /\ t.arrived = <<>>
                         /\ t.closed = FALSE /\ t.before = 0
  BY <1>2 DEF Begun, Typed, Context
<1>5. Command(t.object) = "GET" <=> r.op = "GET"
  BY <1>1, <1>4 DEF Command, Ops
<1>6. Ordered(t) /\ Drained(t) /\ HeldBack(t)
  <2>1. CASE r.op = "GET"
    <3>1. <<>> \o <<>> = <<>> /\ IsPrefix(<<>>, <<>>) /\ 0 <= Len(<<>>)
      BY EmptySeq DEF IsPrefix
    <3> QED
      BY <1>4, <1>5, <2>1, <3>1 DEF Ordered, Drained, HeldBack
  <2>2. CASE r.op # "GET"
    BY <1>2, <1>4, <1>5, <2>2 DEF Ordered, Drained, HeldBack
  <2> QED
    BY <2>1, <2>2
<1>7. Telling(s) => Telling(t)
  BY <1>4 DEF Telling
<1>8. s.link = "down" \/ s.pending = None => Waiting(t)
  BY <1>4 DEF Waiting
<1>9. u = t \/ u \in Sends(t)
  BY DEF OBEX_Request
<1> QED
  BY <1>1, <1>3, <1>4, <1>6, <1>7, <1>8, <1>9, SendsInv

\* A request is resumed when its buffer is empty, or it is no GET.
LEMMA ResumeInv ==
  ASSUME NEW s, Inv(s), Drained(s), s.object # None,
         NEW u \in OBEX_ResumeRequest(s)
  PROVE  Inv(u)
<1> DEFINE t == [s EXCEPT !.suspend = FALSE]
<1>1. Typed(t)
  BY DEF Inv, Typed, Context
<1>2. /\ t.link = s.link /\ t.object = s.object /\ t.pending = s.pending
      /\ t.data = s.data /\ t.start = s.start /\ t.awaited = s.awaited
      /\ t.read = s.read /\ t.arrived = s.arrived /\ t.closed = s.closed
      /\ t.before = s.before /\ t.events = s.events /\ t.told = s.told
      /\ t.ended = s.ended /\ t.rsp = s.rsp
  BY DEF Inv, Typed, Context
<1>3. Ordered(t) /\ Drained(t) /\ HeldBack(t) /\ Waiting(t)
  BY <1>2 DEF Inv, Ordered, Drained, HeldBack, Waiting
<1>4. Telling(t)
  BY <1>2 DEF Inv, Telling
<1>5. u = t \/ u \in Sends(t)
  BY DEF OBEX_ResumeRequest
<1> QED
  BY <1>1, <1>2, <1>3, <1>4, <1>5, SendsInv DEF Inv

-----------------------------------------------------------------------------
(* Requests.                                                                *)

\* Changing what no part of the invariant speaks of.
LEMMA OtherFields ==
  ASSUME NEW s, Inv(s), NEW t, t \in Context,
         /\ t.link = s.link /\ t.object = s.object /\ t.pending = s.pending
         /\ t.data = s.data /\ t.start = s.start /\ t.awaited = s.awaited
         /\ t.read = s.read /\ t.arrived = s.arrived /\ t.closed = s.closed
         /\ t.before = s.before /\ t.packets = s.packets
         /\ t.events = s.events /\ t.told = s.told
         /\ t.ended = s.ended /\ t.rsp = s.rsp
  PROVE  Inv(t)
<1>1. Typed(t) /\ Ordered(t) /\ Drained(s) = Drained(t)
  BY DEF Inv, Typed, Ordered, Drained
<1>2. Waiting(t) /\ HeldBack(t)
  BY <1>1 DEF Inv, Waiting, HeldBack, Drained
<1>3. Telling(t)
  BY DEF Inv, Telling
<1> QED
  BY <1>1, <1>2, <1>3 DEF Inv

\* A request is made, waits or is refused. A GET finds an empty buffer and no
\* transfer in progress.
LEMMA QueueInv ==
  ASSUME NEW s, Inv(s), s.accepted <= MaxRequests, NEW op \in Ops,
         op = "GET" => /\ s.data = <<>> /\ s.start = 0
                       /\ Command(s.object) \notin {"PUT", "GET"},
         NEW u \in obex_send_or_queue(s, op)
  PROVE  Inv(u) /\ u.accepted <= s.accepted + 1
<1> DEFINE r == [id |-> s.accepted + 1, op |-> op]
           t == [s EXCEPT !.accepted = @ + 1, !.put = @ \/ op = "PUT"]
<1>1. r.op = op
  OBVIOUS
<1>2. r \in Request /\ r # None
  BY BoundsAssumption, NoneAssumption, SMTT(20) DEF Inv, Typed, Context, Request
<1>3. s \in Context /\ s.accepted + 1 \in 0..MaxRequests + 1
  BY BoundsAssumption, SMTT(20) DEF Inv, Typed, Context
<1>4. [s EXCEPT !.accepted = @ + 1, !.put = @ \/ op = "PUT"] \in Context
  BY <1>3 DEF Context
<1>5. /\ t.link = s.link /\ t.object = s.object /\ t.pending = s.pending
      /\ t.data = s.data /\ t.start = s.start /\ t.awaited = s.awaited
      /\ t.read = s.read /\ t.arrived = s.arrived /\ t.closed = s.closed
      /\ t.before = s.before /\ t.packets = s.packets
      /\ t.events = s.events /\ t.told = s.told
      /\ t.ended = s.ended /\ t.rsp = s.rsp /\ t.accepted = s.accepted + 1
  BY <1>3 DEF Context
<1>6. Inv(t)
  BY <1>4, <1>5, OtherFields
<1>7. t \in Context
  BY <1>4
<1>8. u \in IF s.object = None THEN OBEX_Request(t, r)
            ELSE IF s.pending = None THEN {[t EXCEPT !.pending = r]}
            ELSE {s}
  BY DEF obex_send_or_queue
<1> HIDE DEF r, t
<1>9. CASE s.object = None /\ u \in OBEX_Request(t, r)
  <2>1. t.link = "down" \/ t.pending = None
    BY <1>5, <1>6, <1>9, <1>3 DEF Inv, Waiting, Context
  <2>2. Inv(u) /\ u.accepted = t.accepted
    <3>1. r.op = "GET" => t.data = <<>> /\ t.start = 0
      BY <1>1, <1>5
    <3> QED
      BY <1>2, <1>5, <1>6, <1>9, <2>1, <3>1, BegunInv DEF Inv
  <2> QED
    BY <1>3, <1>5, <2>2
<1>10. CASE s.object # None /\ s.pending = None /\ u = [t EXCEPT !.pending = r]
  <2>1. [t EXCEPT !.pending = r] \in Context
    BY <1>2, <1>7 DEF Context
  <2>2. /\ u.link = t.link /\ u.object = t.object /\ u.pending = r
        /\ u.data = t.data /\ u.start = t.start /\ u.awaited = t.awaited
        /\ u.read = t.read /\ u.arrived = t.arrived /\ u.closed = t.closed
        /\ u.before = t.before /\ u.packets = t.packets
        /\ u.events = t.events /\ u.told = t.told
        /\ u.ended = t.ended /\ u.rsp = t.rsp /\ u.accepted = t.accepted
    BY <1>7, <1>10 DEF Context
  <2>3. Typed(u) /\ Ordered(u) /\ HeldBack(u)
    BY <1>6, <1>10, <2>1, <2>2 DEF Inv, Typed, Ordered, HeldBack, Drained
  <2>4. Waiting(u)
    BY <1>1, <1>5, <1>10, <2>2 DEF Waiting
  <2>5. Telling(u)
    BY <1>6, <2>2 DEF Inv, Telling
  <2> QED
    BY <1>3, <1>5, <2>2, <2>3, <2>4, <2>5 DEF Inv
<1>11. CASE u = s
  BY <1>3, <1>11 DEF Context
<1> QED
  BY <1>9, <1>10, <1>11, <1>8

\* A change of the state, the first thing some requests do.
LEMMA StateInv ==
  ASSUME NEW s, Inv(s),
         NEW x \in {"open", "connect", "connected", "disconn", "closed"}
  PROVE  /\ Inv([s EXCEPT !.state = x])
         /\ [s EXCEPT !.state = x].accepted = s.accepted
         /\ [s EXCEPT !.state = x].object = s.object
<1>1. s \in Context
  BY DEF Inv, Typed
<1>2. [s EXCEPT !.state = x] \in Context
  BY <1>1 DEF Context
<1> DEFINE t == [s EXCEPT !.state = x]
<1>3. /\ t.link = s.link /\ t.object = s.object /\ t.pending = s.pending
      /\ t.data = s.data /\ t.start = s.start /\ t.awaited = s.awaited
      /\ t.read = s.read /\ t.arrived = s.arrived /\ t.closed = s.closed
      /\ t.before = s.before /\ t.packets = s.packets
      /\ t.events = s.events /\ t.told = s.told
      /\ t.ended = s.ended /\ t.rsp = s.rsp /\ t.accepted = s.accepted
  BY <1>1 DEF Context
<1> QED
  BY <1>2, <1>3, OtherFields

\* A transfer empties the buffer, which no other transfer uses.
LEMMA TransferInv ==
  ASSUME NEW s, Inv(s), s.accepted <= MaxRequests, NEW op \in {"PUT", "GET"},
         NEW u \in Transfer(s, op)
  PROVE  Inv(u) /\ u.accepted <= s.accepted + 1
<1>1. s \in Context
  BY DEF Inv, Typed
<1>2. CASE u = s
  BY <1>1, <1>2 DEF Context
<1>3. CASE /\ Command(s.object) \notin {"PUT", "GET"}
           /\ u \in obex_send_or_queue([s EXCEPT !.start = 0, !.data = <<>>], op)
  <2> DEFINE t == [s EXCEPT !.start = 0, !.data = <<>>]
  <2>1. <<>> \in Seq(Bytes) /\ Len(<<>>) = 0
    BY EmptySeq
  <2>2. t \in Context
    BY <1>1, <2>1 DEF Context
  <2>3. /\ t.link = s.link /\ t.object = s.object /\ t.pending = s.pending
        /\ t.data = <<>> /\ t.start = 0 /\ t.awaited = s.awaited
        /\ t.read = s.read /\ t.arrived = s.arrived /\ t.closed = s.closed
        /\ t.before = s.before /\ t.packets = s.packets
        /\ t.events = s.events /\ t.told = s.told
        /\ t.ended = s.ended /\ t.rsp = s.rsp /\ t.accepted = s.accepted
    BY <1>1 DEF Context
  <2>4. u \in obex_send_or_queue(t, op)
    BY <1>3
  <2> HIDE DEF t
  <2>5. Typed(t) /\ Ordered(t) /\ HeldBack(t)
    <3>1. BufSize \in Nat /\ t.start + Len(t.data) <= BufSize
      BY <2>1, <2>3, BoundsAssumption
    <3>2. Typed(t)
      BY <2>2, <2>3, <3>1 DEF Inv, Typed
    <3> QED
      BY <1>3, <2>3, <3>2 DEF Inv, Ordered, HeldBack, Drained
  <2>6. Waiting(t)
    BY <2>3 DEF Inv, Waiting
  <2>7. Telling(t)
    BY <2>3 DEF Inv, Telling
  <2>8. Inv(t)
    BY <2>5, <2>6, <2>7 DEF Inv
  <2>9. op = "GET" => t.data = <<>> /\ t.start = 0 /\ Command(t.object) \notin {"PUT", "GET"}
    BY <1>3, <2>3
  <2> QED
    BY <2>3, <2>4, <2>8, <2>9, QueueInv DEF Ops
<1> QED
  BY <1>2, <1>3 DEF Transfer

\* The CONNECT that may come before a transfer.
LEMMA ConnectInv ==
  ASSUME NEW s, Inv(s), s.accepted <= MaxRequests, NEW u \in obex_connect(s)
  PROVE  Inv(u) /\ u.accepted <= s.accepted + 1
<1>1. CASE u = s
  BY <1>1 DEF Inv, Typed, Context
<1>2. CASE u \in obex_send_or_queue([s EXCEPT !.state = "connect"], "CONNECT")
  BY <1>2, StateInv, QueueInv DEF Ops
<1> QED
  BY <1>1, <1>2 DEF obex_connect

\* A transfer after the CONNECT, if one is made.
LEMMA AutoConnectInv ==
  ASSUME NEW s, Inv(s), s.accepted < MaxRequests,
         NEW t \in IF AutoConnects(s) THEN obex_connect(s) ELSE {s}
  PROVE  Inv(t) /\ t.accepted <= MaxRequests
<1>1. s.accepted \in Nat
  BY DEF Inv, Typed, Context
<1>2. CASE t = s
  BY <1>1, <1>2, BoundsAssumption
<1>3. CASE t \in obex_connect(s)
  <2>1. Inv(t) /\ t.accepted <= s.accepted + 1
    BY <1>1, <1>3, BoundsAssumption, ConnectInv
  <2>2. t.accepted \in Nat
    BY <2>1 DEF Inv, Typed, Context
  <2> QED
    BY <1>1, <2>1, <2>2, BoundsAssumption
<1> QED
  BY <1>2, <1>3

\* Every call that makes a request.
LEMMA CallsInv ==
  ASSUME NEW s, Inv(s), s.accepted < MaxRequests, NEW u \in Calls(s)
  PROVE  Inv(u)
<1>1. s.accepted <= MaxRequests
  BY BoundsAssumption DEF Inv, Typed, Context
<1>2. CASE u \in obex_connect(s)
  BY <1>1, <1>2, ConnectInv
<1>3. CASE u \in obex_disconnect(s)
  <2>1. CASE u \in obex_send_or_queue([s EXCEPT !.state = "disconn"], "DISCONNECT")
    BY <1>1, <2>1, StateInv, QueueInv DEF Ops
  <2> QED
    BY <1>3, <2>1 DEF obex_disconnect
<1>4. CASE u \in obex_setpath(s)
  <2>1. CASE u \in obex_send_or_queue(s, "SETPATH")
    BY <1>1, <2>1, QueueInv DEF Ops
  <2> QED
    BY <1>4, <2>1 DEF obex_setpath
<1>5. CASE u \in obex_delete(s)
  <2>1. CASE u \in obex_send_or_queue(s, "DELETE")
    BY <1>1, <2>1, QueueInv DEF Ops
  <2> QED
    BY <1>5, <2>1 DEF obex_delete
<1>6. CASE u \in obex_client_put_object(s)
  <2>1. PICK t \in IF AutoConnects(s) THEN obex_connect(s) ELSE {s} :
          \E v \in obex_put(t) : u = v \/ u = [v EXCEPT !.idle = TRUE]
    BY <1>6 DEF obex_client_put_object
  <2>2. PICK v \in obex_put(t) : u = v \/ u = [v EXCEPT !.idle = TRUE]
    BY <2>1
  <2>3. Inv(v)
    BY <2>2, AutoConnectInv, TransferInv DEF obex_put
  <2>4. CASE u = [v EXCEPT !.idle = TRUE]
    <3>1. v \in Context
      BY <2>3 DEF Inv, Typed
    <3>2. [v EXCEPT !.idle = TRUE] \in Context
      BY <3>1 DEF Context
    <3>3. /\ u.link = v.link /\ u.object = v.object /\ u.pending = v.pending
          /\ u.data = v.data /\ u.start = v.start /\ u.awaited = v.awaited
          /\ u.read = v.read /\ u.arrived = v.arrived /\ u.closed = v.closed
          /\ u.before = v.before /\ u.packets = v.packets
          /\ u.events = v.events /\ u.told = v.told
          /\ u.ended = v.ended /\ u.rsp = v.rsp
      BY <2>4, <3>1 DEF Context
    <3> QED
      BY <2>3, <2>4, <3>2, <3>3, OtherFields
  <2> QED
    BY <2>2, <2>3, <2>4
<1>7. CASE u \in obex_client_get_object(s)
  <2>1. PICK t \in IF AutoConnects(s) THEN obex_connect(s) ELSE {s} :
          u \in obex_get(t)
    BY <1>7 DEF obex_client_get_object
  <2> QED
    BY <2>1, AutoConnectInv, TransferInv DEF obex_get
<1> QED
  BY <1>2, <1>3, <1>4, <1>5, <1>6, <1>7 DEF Calls

-----------------------------------------------------------------------------
(* What the library tells the binding.                                      *)

\* What is stored in an empty buffer is what is in it.
LEMMA StoredBytes ==
  ASSUME NEW data \in Seq(Bytes), NEW new \in Seq(Bytes)
  PROVE  /\ Stored(data, new) \in Seq(Bytes)
         /\ Len(Stored(data, new)) = Len(new) + Len(data)
         /\ data = <<>> => Stored(data, new) = new
<1> DEFINE rest == SubSeq(data, Len(new) + 1, Len(data))
           m == IF Len(new) < Len(data) THEN Len(new) ELSE Len(data)
           junk == [k \in 1..m |-> Junk]
<1>1. Len(new) \in Nat /\ Len(data) \in Nat /\ m \in Nat
  BY LenProperties
<1>2. junk \in Seq(Bytes) /\ Len(junk) = m
  BY <1>1 DEF Bytes
<1>3. rest \in Seq(Bytes) /\ Len(rest) = IF Len(new) < Len(data) THEN Len(data) - Len(new) ELSE 0
  BY <1>1, SubSeqProperties
<1>4. Stored(data, new) = (new \o rest) \o junk
  BY DEF Stored
<1>5. Len(rest) + m = Len(data)
  <2>1. CASE Len(new) < Len(data)
    BY <1>1, <1>3, <2>1
  <2>2. CASE ~(Len(new) < Len(data))
    BY <1>1, <1>3, <2>2
  <2> QED
    BY <2>1, <2>2
<1> HIDE DEF rest, m, junk
<1>6. new \o rest \in Seq(Bytes) /\ Len(new \o rest) = Len(new) + Len(rest)
  BY <1>3, ConcatProperties
<1>7. /\ (new \o rest) \o junk \in Seq(Bytes)
      /\ Len((new \o rest) \o junk) = Len(new \o rest) + Len(junk)
  BY <1>2, <1>6, ConcatProperties
<1>8. ASSUME data = <<>> PROVE (new \o rest) \o junk = new
  <2>1. Len(rest) = 0 /\ Len(junk) = 0
    BY <1>1, <1>2, <1>3, <1>5, <1>8, EmptySeq, LenProperties
  <2>2. rest = <<>> /\ junk = <<>>
    BY <1>2, <1>3, <2>1, EmptySeq
  <2> QED
    BY <2>2, ConcatEmptySeq
<1>9. Len(rest) \in Nat
  BY <1>3, LenProperties
<1>10. Len((new \o rest) \o junk) = (Len(new) + Len(rest)) + m
  BY <1>2, <1>6, <1>7
<1>11. (Len(new) + Len(rest)) + m = Len(new) + Len(data)
  BY <1>1, <1>5, <1>9
<1>12. Len(Stored(data, new)) = Len(new) + Len(data)
  BY <1>4, <1>10, <1>11
<1> QED
  BY <1>4, <1>7, <1>8, <1>12

\* A packet of data stays within what MaxPackets packets may bring.
LEMMA PacketRoom ==
  ASSUME NEW p \in Nat, p < MaxPackets, NEW l \in Nat, l <= BufSize * p,
         NEW n \in 0..BufSize
  PROVE  l + n <= BufSize * (p + 1) /\ l + n <= BufSize * MaxPackets
<1>1. BufSize \in Nat /\ MaxPackets \in Nat
  BY BoundsAssumption
<1>2. BufSize * (p + 1) = BufSize * p + BufSize
  BY <1>1
<1>3. BufSize * MaxPackets = BufSize * (p + 1) + BufSize * (MaxPackets - (p + 1))
  BY <1>1
<1>4. BufSize * (MaxPackets - (p + 1)) \in Nat
  BY <1>1
<1>5. BufSize * p \in Nat /\ BufSize * (p + 1) \in Nat /\ BufSize * MaxPackets \in Nat
  BY <1>1
<1> QED
  BY <1>1, <1>2, <1>3, <1>4, <1>5

\* A sequence that was appended to begins as before.
LEMMA ConcatPrefix ==
  ASSUME NEW a \in Seq(Bytes), NEW b \in Seq(Bytes)
  PROVE  IsPrefix(a, a \o b) /\ Len(a) <= Len(a \o b)
<1>1. /\ Len(a) \in Nat /\ Len(b) \in Nat /\ Len(a \o b) = Len(a) + Len(b)
      /\ a \o b \in Seq(Bytes)
  BY ConcatProperties, LenProperties
<1>2. SubSeq(a \o b, 1, Len(a)) = SubSeq(a, 1, Len(a))
  BY <1>1, ConcatProperties, SubSeqProperties, SubSeqOfConcat1, SubSeqFull
<1> QED
  BY <1>1, <1>2 DEF IsPrefix

\* The body of an answer: it goes to an empty buffer, and suspends the GET.
LEMMA BodyInv ==
  ASSUME NEW s, Inv(s), s.awaited, s.events = <<>>, s.object.op = "GET",
         s.packets < MaxPackets, NEW n \in 0..BufSize,
         NEW b, b = Body(s, n)
  PROVE  /\ Typed(b) /\ Waiting(b) /\ Ordered(b)
         /\ b.events \in {<<>>, <<"IN">>} /\ b.told = b.ended
         /\ b.suspend \/ Drained(b)
         /\ ~b.closed => Len(b.read) >= b.before
         /\ b.object = s.object /\ b.link = s.link
<1> DEFINE new == [k \in 1..n |-> <<s.object.id, Len(s.arrived) + k>>]
           t == [s EXCEPT !.before = Len(s.arrived), !.arrived = @ \o new,
                          !.packets = @ + 1]
<1>1. s \in Context /\ BufSize \in Nat
  BY BoundsAssumption DEF Inv, Typed
<1>2. s.object \in Request /\ s.object # None
  BY <1>1 DEF Inv, Typed, Context
<1>3. /\ s.arrived \in Seq(Bytes) /\ Len(s.arrived) \in Nat /\ s.packets \in Nat
      /\ s.data \in Seq(Bytes) /\ Len(s.data) \in Nat /\ s.start \in Nat
      /\ s.read \in Seq(Bytes) /\ s.object.id \in 1..MaxRequests + 1
      /\ s.packets + 1 \in 0..MaxPackets
      /\ s.start + Len(s.data) <= BufSize
  BY <1>1, <1>2, LenProperties, BoundsAssumption, SMTT(20) DEF Inv, Typed, Context, Request
<1>4. /\ Len(s.arrived) + n <= BufSize * (s.packets + 1)
      /\ Len(s.arrived) + n <= BufSize * MaxPackets
  BY <1>3, PacketRoom DEF Inv, Typed
<1>5. new \in Seq(Bytes) /\ Len(new) = n
  <2>1. \A k \in 1..n : Len(s.arrived) + k \in 1..BufSize * MaxPackets
    BY <1>1, <1>3, <1>4, BoundsAssumption, SMTT(20)
  <2>2. \A k \in 1..n : <<s.object.id, Len(s.arrived) + k>> \in Bytes
    BY <1>3, <2>1 DEF Bytes
  <2> QED
    BY <1>1, <2>2
<1>6. Body(s, n) = IF n = 0 THEN t ELSE obex_readstream(t, new)
  BY DEF Body
<1> HIDE DEF new
<1>7. /\ s.arrived \o new \in Seq(Bytes)
      /\ Len(s.arrived \o new) = Len(s.arrived) + n
  BY <1>3, <1>5, ConcatProperties
<1>8. t \in Context
  BY <1>1, <1>3, <1>7 DEF Context
<1>9. /\ t.link = s.link /\ t.object = s.object /\ t.pending = s.pending
      /\ t.data = s.data /\ t.start = s.start /\ t.awaited = s.awaited
      /\ t.read = s.read /\ t.arrived = s.arrived \o new /\ t.closed = s.closed
      /\ t.before = Len(s.arrived) /\ t.packets = s.packets + 1
      /\ t.events = s.events /\ t.told = s.told
      /\ t.ended = s.ended /\ t.rsp = s.rsp /\ t.suspend = s.suspend
  BY <1>1 DEF Context
<1> HIDE DEF t
<1>10. Command(s.object) = "GET"
  BY <1>2 DEF Command
<1>11. s.told = s.ended
  BY DEF Inv, Telling
<1>12. ~s.closed => s.data = <<>> /\ s.start = 0 /\ s.read = s.arrived
  <2>1. ~s.closed => s.data = <<>> /\ s.start = 0 /\ s.read \o s.data = s.arrived
    BY <1>10 DEF Inv, HeldBack, Drained, Ordered
  <2>2. s.read \o <<>> = s.read
    BY <1>3, ConcatEmptySeq
  <2> QED
    BY <2>1, <2>2
<1>13. Typed(t)
  BY <1>2, <1>3, <1>4, <1>7, <1>8, <1>9 DEF Typed
<1>14. IsPrefix(s.arrived, s.arrived \o new) /\ Len(s.arrived) <= Len(s.arrived \o new)
  BY <1>3, <1>5, ConcatPrefix
<1>15. CASE b = t /\ (s.closed \/ n = 0)
  <2>1. n = 0 => s.arrived \o new = s.arrived
    BY <1>3, <1>5, ConcatEmptySeq, EmptySeq
  <2>2. ~s.closed => s.read \o s.data = s.arrived
    BY <1>10 DEF Inv, Ordered
  <2>3. Ordered(b)
    BY <1>9, <1>10, <1>12, <1>14, <1>15, <2>1, <2>2 DEF Ordered
  <2>4. Waiting(b) /\ Drained(b)
    BY <1>9, <1>12, <1>15 DEF Inv, Waiting, Drained
  <2>5. ~b.closed => Len(b.read) >= b.before
    BY <1>3, <1>9, <1>12, <1>15
  <2> QED
    BY <1>9, <1>11, <1>13, <1>15, <2>3, <2>4, <2>5
<1>16. CASE /\ b = queue_event([t EXCEPT !.data = Stored(t.data, new), !.suspend = TRUE], "IN")
            /\ t.start + Len(t.data) + Len(new) <= BufSize
  <2> DEFINE d == [t EXCEPT !.data = Stored(t.data, new), !.suspend = TRUE]
  <2>1. /\ Stored(s.data, new) \in Seq(Bytes)
        /\ Len(Stored(s.data, new)) = Len(new) + Len(s.data)
        /\ s.data = <<>> => Stored(s.data, new) = new
    BY <1>3, <1>5, StoredBytes
  <2>2. d \in Context
    BY <1>8, <1>9, <2>1 DEF Context
  <2>3. /\ d.link = t.link /\ d.object = t.object /\ d.pending = t.pending
        /\ d.data = Stored(t.data, new) /\ d.start = t.start
        /\ d.awaited = t.awaited /\ d.read = t.read /\ d.arrived = t.arrived
        /\ d.closed = t.closed /\ d.before = t.before /\ d.packets = t.packets
        /\ d.events = <<>> /\ d.told = t.told
        /\ d.ended = t.ended /\ d.rsp = t.rsp /\ d.suspend = TRUE
    BY <1>8, <1>9 DEF Context
  <2>4. b = [d EXCEPT !.events = Append(@, "IN")]
    BY <1>16 DEF queue_event
  <2> HIDE DEF d
  <2>5. Append(d.events, "IN") = <<"IN">> /\ <<"IN">> \in Seq(Events)
    BY <2>3, EmptySeq, AppendProperties DEF Events
  <2>6. [d EXCEPT !.events = <<"IN">>] \in Context
    BY <2>2, <2>5 DEF Context
  <2>7. b = [d EXCEPT !.events = <<"IN">>]
    BY <2>4, <2>5
  <2>8. /\ b.link = t.link /\ b.object = t.object /\ b.pending = t.pending
        /\ b.data = Stored(t.data, new) /\ b.start = t.start
        /\ b.awaited = t.awaited /\ b.read = t.read /\ b.arrived = t.arrived
        /\ b.closed = t.closed /\ b.before = t.before /\ b.packets = t.packets
        /\ b.events = <<"IN">> /\ b.told = t.told
        /\ b.ended = t.ended /\ b.rsp = t.rsp /\ b.suspend = TRUE
    BY <2>2, <2>3, <2>7 DEF Context
  <2>9. Typed(b)
    <3>1. b.start + Len(b.data) <= BufSize
      BY <1>1, <1>3, <1>5, <1>9, <1>16, <2>1, <2>8, SMTT(20)
    <3> QED
      BY <1>13, <2>6, <2>7, <2>8, <3>1 DEF Typed
  <2>10. Ordered(b)
    BY <1>9, <1>10, <1>12, <1>14, <2>1, <2>8, ZenonT(30) DEF Ordered
  <2>11. Waiting(b)
    BY <1>9, <1>10, <2>8 DEF Inv, Waiting
  <2>12. ~b.closed => Len(b.read) >= b.before
    BY <1>3, <1>9, <1>12, <2>8
  <2> QED
    BY <1>9, <1>11, <2>8, <2>9, <2>10, <2>11, <2>12
<1>17. CASE n = 0
  BY <1>6, <1>15, <1>17
<1>18. CASE n # 0
  <2>1. t.start + Len(t.data) \in Nat
    BY <1>3, <1>9
  <2>2. CASE Len(new) > BufSize - (t.start + Len(t.data))
    <3>1. s.closed
      BY <1>1, <1>5, <1>9, <1>12, <2>2, EmptySeq
    <3> QED
      BY <1>6, <1>15, <1>18, <2>2, <3>1 DEF obex_readstream
  <2>3. CASE ~(Len(new) > BufSize - (t.start + Len(t.data)))
    <3>1. t.start + Len(t.data) + Len(new) <= BufSize
      BY <1>1, <1>3, <1>5, <1>9, <2>3
    <3>2. [t EXCEPT !.data = Stored(@, new), !.suspend = TRUE]
            = [t EXCEPT !.data = Stored(t.data, new), !.suspend = TRUE]
      OBVIOUS
    <3> QED
      BY <1>6, <1>16, <1>18, <2>3, <3>1, <3>2 DEF obex_readstream
  <2> QED
    BY <2>2, <2>3
<1> QED
  BY <1>17, <1>18

\* CONTINUE: with something in the buffer nothing is sent.
LEMMA ContinuedInv ==
  ASSUME NEW s, Typed(s), Waiting(s), Ordered(s), Telling(s), s.object # None,
         s.suspend \/ Drained(s), NEW u \in Continued(s)
  PROVE  Inv(u)
<1> DEFINE t == [s EXCEPT !.awaited = FALSE, !.continued = TRUE]
<1>1. s \in Context
  BY DEF Typed
<1>2. t \in Context
  BY <1>1 DEF Context
<1>3. /\ t.link = s.link /\ t.object = s.object /\ t.pending = s.pending
      /\ t.data = s.data /\ t.start = s.start /\ t.awaited = FALSE
      /\ t.read = s.read /\ t.arrived = s.arrived /\ t.closed = s.closed
      /\ t.before = s.before /\ t.packets = s.packets
      /\ t.events = s.events /\ t.told = s.told
      /\ t.ended = s.ended /\ t.rsp = s.rsp /\ t.suspend = s.suspend
  BY <1>1 DEF Context
<1>4. u \in IF t.suspend THEN {t} ELSE {[v EXCEPT !.continued = FALSE] : v \in Sends(t)}
  BY DEF Continued
<1> HIDE DEF t
<1>5. Typed(t) /\ Ordered(t) /\ HeldBack(t) /\ Waiting(t)
  BY <1>2, <1>3 DEF Typed, Ordered, HeldBack, Waiting
<1>6. Telling(t)
  BY <1>3 DEF Telling
<1>7. CASE u = t
  BY <1>5, <1>6, <1>7 DEF Inv
<1>8. CASE ~t.suspend
  <2>1. PICK v \in Sends(t) : u = [v EXCEPT !.continued = FALSE]
    BY <1>4, <1>8
  <2>2. Drained(t)
    BY <1>3, <1>8 DEF Drained
  <2>3. Inv(v)
    BY <1>3, <1>5, <1>6, <2>1, <2>2, SendsInv DEF Inv
  <2>4. v \in Context
    BY <2>3 DEF Inv, Typed
  <2>5. [v EXCEPT !.continued = FALSE] \in Context
    BY <2>4 DEF Context
  <2>6. /\ u.link = v.link /\ u.object = v.object /\ u.pending = v.pending
        /\ u.data = v.data /\ u.start = v.start /\ u.awaited = v.awaited
        /\ u.read = v.read /\ u.arrived = v.arrived /\ u.closed = v.closed
        /\ u.before = v.before /\ u.packets = v.packets
        /\ u.events = v.events /\ u.told = v.told
        /\ u.ended = v.ended /\ u.rsp = v.rsp
    BY <2>1, <2>4 DEF Context
  <2> QED
    BY <2>1, <2>3, <2>5, <2>6, OtherFields
<1> QED
  BY <1>4, <1>7, <1>8

\* Short sequences of events.
LEMMA AppendToOne ==
  ASSUME NEW S, NEW a \in S, NEW b \in S
  PROVE  Append(<<a>>, b) = <<a, b>>
<1>1. /\ <<a>> \in Seq(S) /\ <<a, b>> \in Seq(S)
      /\ Len(<<a>>) = 1 /\ Len(<<a, b>>) = 2
  OBVIOUS
<1>2. /\ Append(<<a>>, b) \in Seq(S) /\ Len(Append(<<a>>, b)) = 2
      /\ Append(<<a>>, b)[1] = a /\ Append(<<a>>, b)[2] = b
  BY <1>1, AppendProperties
<1>3. <<a, b>>[1] = a /\ <<a, b>>[2] = b /\ \A i \in 1..2 : i = 1 \/ i = 2
  OBVIOUS
<1>4. \A i \in 1..Len(<<a, b>>) : Append(<<a>>, b)[i] = <<a, b>>[i]
  BY <1>1, <1>2, <1>3
<1> QED
  BY <1>1, <1>2, <1>4, SeqEqual

LEMMA AppendToTwo ==
  ASSUME NEW S, NEW a \in S, NEW b \in S, NEW c \in S
  PROVE  Append(<<a, b>>, c) = <<a, b, c>>
<1>1. /\ <<a, b>> \in Seq(S) /\ <<a, b, c>> \in Seq(S)
      /\ Len(<<a, b>>) = 2 /\ Len(<<a, b, c>>) = 3
  OBVIOUS
<1>2. /\ Append(<<a, b>>, c) \in Seq(S) /\ Len(Append(<<a, b>>, c)) = 3
      /\ Append(<<a, b>>, c)[1] = a /\ Append(<<a, b>>, c)[2] = b
      /\ Append(<<a, b>>, c)[3] = c
  BY <1>1, AppendProperties
<1>3. /\ <<a, b, c>>[1] = a /\ <<a, b, c>>[2] = b /\ <<a, b, c>>[3] = c
      /\ \A i \in 1..3 : i = 1 \/ i = 2 \/ i = 3
  OBVIOUS
<1>4. \A i \in 1..Len(<<a, b, c>>) : Append(<<a, b>>, c)[i] = <<a, b, c>>[i]
  BY <1>1, <1>2, <1>3
<1> QED
  BY <1>1, <1>2, <1>4, SeqEqual

\* The sequences of events there are, and how they change.
LEMMA EventSequences ==
  /\ Append(<<>>, "IN") = <<"IN">> /\ Append(<<>>, "DONE") = <<"DONE">>
  /\ Append(<<"IN">>, "DONE") = <<"IN", "DONE">>
  /\ Append(<<"DONE">>, "OUT") = <<"DONE", "OUT">>
  /\ Append(<<"IN", "DONE">>, "OUT") = <<"IN", "DONE", "OUT">>
  /\ {<<"IN">>, <<"DONE">>, <<"IN", "DONE">>, <<"DONE", "OUT">>,
      <<"IN", "DONE", "OUT">>} \subseteq Seq(Events)
  /\ Tail(<<"IN">>) = <<>> /\ Tail(<<"OUT">>) = <<>> /\ Tail(<<"DONE">>) = <<>>
  /\ Tail(<<"DONE", "OUT">>) = <<"OUT">> /\ Tail(<<"IN", "DONE">>) = <<"DONE">>
  /\ Tail(<<"IN", "DONE", "OUT">>) = <<"DONE", "OUT">>
<1> DEFINE i == "IN" o == "OUT" d == "DONE"
<1>1. i \in Events /\ o \in Events /\ d \in Events
  BY DEF Events
<1> HIDE DEF i, o, d
<1>2. Append(<<>>, i) = <<i>> /\ Append(<<>>, d) = <<d>>
  BY <1>1, EmptySeq, AppendProperties
<1>3. Append(<<i>>, d) = <<i, d>> /\ Append(<<d>>, o) = <<d, o>>
  BY <1>1, AppendToOne
<1>4. Append(<<i, d>>, o) = <<i, d, o>>
  BY <1>1, AppendToTwo
<1>5. /\ <<i>> \in Seq(Events) /\ <<d>> \in Seq(Events) /\ <<i, d>> \in Seq(Events)
      /\ <<d, o>> \in Seq(Events) /\ <<i, d, o>> \in Seq(Events)
  BY <1>1
<1>6. Tail(<<i>>) = <<>> /\ Tail(<<o>>) = <<>> /\ Tail(<<d>>) = <<>>
  BY <1>1
<1>7. Tail(<<d, o>>) = <<o>> /\ Tail(<<i, d>>) = <<d>> /\ Tail(<<i, d, o>>) = <<d, o>>
  BY <1>1
<1> QED
  BY <1>2, <1>3, <1>4, <1>5, <1>6, <1>7 DEF i, o, d

\* The request that waited is made; "OUT" comes after "DONE".
LEMMA RequestPendingInv ==
  ASSUME NEW s, Typed(s), Ordered(s), Telling(s), s.object = None,
         s.events \in {<<"DONE">>, <<"IN", "DONE">>},
         s.pending # None /\ s.pending.op = "GET" => s.data = <<>> /\ s.start = 0,
         NEW u \in RequestPending(s)
  PROVE  Inv(u)
<1>1. s \in Context
  BY DEF Typed
<1>2. CASE s.pending = None /\ u = s
  <2>1. Waiting(s) /\ HeldBack(s)
    BY <1>2 DEF Waiting, HeldBack, Typed
  <2> QED
    BY <1>2, <2>1 DEF Inv
<1>3. CASE s.pending # None
  <2>1. PICK v \in OBEX_Request(s, s.pending) :
          LET t == [v EXCEPT !.pending = None]
          IN  u \in {t, queue_event(t, "OUT")}
    BY <1>3 DEF RequestPending
  <2> DEFINE t == [v EXCEPT !.pending = None]
  <2>2. s.pending \in Request
    BY <1>1, <1>3 DEF Context
  <2>3. Typed(v) /\ Ordered(v) /\ HeldBack(v) /\ Telling(v)
    BY <1>3, <2>1, <2>2, BegunInv
  <2>4. v.events = s.events
    <3> DEFINE w == Begun(s, s.pending)
    <3>1. w.events = s.events /\ w.events = [w EXCEPT !.awaited = TRUE].events
          /\ LinkError(w).events = w.events
      BY <1>1 DEF Begun, Context, LinkError
    <3> QED
      BY <2>1, <3>1 DEF OBEX_Request, Sends
  <2>5. v \in Context
    BY <2>3 DEF Typed
  <2>6. t \in Context
    BY <2>5, ZenonT(30) DEF Context
  <2>7. /\ t.link = v.link /\ t.object = v.object /\ t.pending = None
        /\ t.data = v.data /\ t.start = v.start /\ t.awaited = v.awaited
        /\ t.read = v.read /\ t.arrived = v.arrived /\ t.closed = v.closed
        /\ t.before = v.before /\ t.packets = v.packets
        /\ t.events = v.events /\ t.told = v.told
        /\ t.ended = v.ended /\ t.rsp = v.rsp
    BY <2>5 DEF Context
  <2>8. u = t \/ u = [t EXCEPT !.events = Append(@, "OUT")]
    BY <2>1 DEF queue_event
  <2> HIDE DEF t
  <2>9. Typed(t) /\ Ordered(t) /\ HeldBack(t) /\ Waiting(t)
    BY <2>3, <2>6, <2>7 DEF Typed, Ordered, HeldBack, Drained, Waiting
  <2>10. Telling(t)
    BY <2>3, <2>7 DEF Telling
  <2>11. CASE u = [t EXCEPT !.events = Append(@, "OUT")]
    <3>1. Append(t.events, "OUT") \in {<<"DONE", "OUT">>, <<"IN", "DONE", "OUT">>}
      <4>1. CASE t.events = <<"DONE">>
        BY <4>1, EventSequences
      <4>2. CASE t.events = <<"IN", "DONE">>
        BY <4>2, EventSequences
      <4> QED
        BY <2>4, <2>7, <4>1, <4>2
    <3>2. Append(t.events, "OUT") \in Seq(Events)
      BY <3>1, EventSequences
    <3>3. [t EXCEPT !.events = Append(t.events, "OUT")] \in Context
      BY <2>6, <3>2, ZenonT(30) DEF Context
    <3>4. /\ u.link = t.link /\ u.object = t.object /\ u.pending = t.pending
          /\ u.data = t.data /\ u.start = t.start /\ u.awaited = t.awaited
          /\ u.read = t.read /\ u.arrived = t.arrived /\ u.closed = t.closed
          /\ u.before = t.before /\ u.packets = t.packets
          /\ u.events = Append(t.events, "OUT") /\ u.told = t.told
          /\ u.ended = t.ended /\ u.rsp = t.rsp
      BY <2>6, <2>11 DEF Context
    <3>5. Typed(u) /\ Ordered(u) /\ HeldBack(u) /\ Waiting(u)
      BY <2>9, <2>11, <3>3, <3>4 DEF Typed, Ordered, HeldBack, Drained, Waiting
    <3>6. s.ended = Append(s.told, s.rsp) /\ t.ended = Append(t.told, t.rsp)
      <4>1. t.events \in {<<"DONE">>, <<"IN", "DONE">>}
        BY <2>4, <2>7
      <4>2. {<<"DONE">>, <<"IN", "DONE">>} \intersect Quiet = {}
        BY DEF Quiet
      <4> QED
        BY <2>10, <4>1, <4>2 DEF Telling
    <3>7. Telling(u)
      BY <3>1, <3>4, <3>6 DEF Telling
    <3> QED
      BY <3>5, <3>7 DEF Inv
  <2> QED
    BY <2>8, <2>9, <2>10, <2>11 DEF Inv
<1> QED
  BY <1>2, <1>3 DEF RequestPending

\* The end of a request: its answer is the one to be told, and what was not
\* read of a GET came in its last packet.
LEMMA ReqDoneInv ==
  ASSUME NEW s, Typed(s), Waiting(s), Ordered(s), s.told = s.ended,
         s.events \in {<<>>, <<"IN">>}, s.object # None, s.link = "up",
         ~s.closed => Len(s.read) >= s.before,
         NEW rsp \in Responses, NEW u \in ReqDone(s, rsp)
  PROVE  Inv(u)
<1> DEFINE t == [s EXCEPT !.object = None, !.awaited = FALSE, !.rsp = rsp,
                          !.ended = Append(@, rsp)]
           q == queue_event(t, "DONE")
<1>1. s \in Context
  BY DEF Typed
<1>2. PICK v \in RequestPending(q) : u = DoneWith(v, s.object.op, rsp)
  BY DEF ReqDone
<1>3. Append(s.ended, rsp) \in Seq(Responses)
  BY <1>1, AppendProperties DEF Context
<1>4. [s EXCEPT !.object = None, !.awaited = FALSE, !.rsp = rsp,
                !.ended = Append(s.ended, rsp)] \in Context
  BY <1>1, <1>3 DEF Context
<1>5. t \in Context
  BY <1>4
<1>6. /\ t.link = s.link /\ t.object = None /\ t.pending = s.pending
      /\ t.data = s.data /\ t.start = s.start /\ t.awaited = FALSE
      /\ t.read = s.read /\ t.arrived = s.arrived /\ t.closed = s.closed
      /\ t.before = s.before /\ t.packets = s.packets
      /\ t.events = s.events /\ t.told = s.told
      /\ t.ended = Append(s.ended, rsp) /\ t.rsp = rsp
  BY <1>1 DEF Context
<1>7. q = [t EXCEPT !.events = Append(@, "DONE")]
  BY DEF queue_event
<1> HIDE DEF t, q
<1>8. /\ Append(t.events, "DONE") \in {<<"DONE">>, <<"IN", "DONE">>}
      /\ Append(t.events, "DONE") \in Seq(Events)
  <2>1. CASE t.events = <<>>
    BY <2>1, EventSequences
  <2>2. CASE t.events = <<"IN">>
    BY <2>2, EventSequences
  <2> QED
    BY <1>6, <2>1, <2>2
<1>9. [t EXCEPT !.events = Append(t.events, "DONE")] \in Context
  BY <1>5, <1>8 DEF Context
<1>10. q = [t EXCEPT !.events = Append(t.events, "DONE")]
  BY <1>7
<1>11. /\ q.link = s.link /\ q.object = None /\ q.pending = s.pending
       /\ q.data = s.data /\ q.start = s.start /\ q.awaited = FALSE
       /\ q.read = s.read /\ q.arrived = s.arrived /\ q.closed = s.closed
       /\ q.before = s.before /\ q.packets = s.packets
       /\ q.events \in {<<"DONE">>, <<"IN", "DONE">>} /\ q.told = s.told
       /\ q.ended = Append(s.ended, rsp) /\ q.rsp = rsp
  BY <1>5, <1>6, <1>8, <1>10 DEF Context
<1>12. Command(q.object) # "GET"
  BY <1>11, NoneAssumption DEF Command, Ops
<1>13. Typed(q) /\ Ordered(q)
  BY <1>9, <1>10, <1>11, <1>12 DEF Typed, Ordered
<1>14. Telling(q)
  BY <1>11 DEF Telling
<1>15. q.pending # None /\ q.pending.op = "GET" => q.data = <<>> /\ q.start = 0
  BY <1>11 DEF Waiting
<1>16. Inv(v)
  BY <1>2, <1>11, <1>13, <1>14, <1>15, RequestPendingInv
<1>17. v \in Context
  BY <1>16 DEF Inv, Typed
<1>18. CASE u = [v EXCEPT !.state = "connected", !.connected = TRUE]
  <2>1. [v EXCEPT !.state = "connected", !.connected = TRUE] \in Context
    BY <1>17 DEF Context
  <2>2. /\ u.link = v.link /\ u.object = v.object /\ u.pending = v.pending
        /\ u.data = v.data /\ u.start = v.start /\ u.awaited = v.awaited
        /\ u.read = v.read /\ u.arrived = v.arrived /\ u.closed = v.closed
        /\ u.before = v.before /\ u.packets = v.packets
        /\ u.events = v.events /\ u.told = v.told
        /\ u.ended = v.ended /\ u.rsp = v.rsp
    BY <1>17, <1>18 DEF Context
  <2> QED
    BY <1>16, <1>18, <2>1, <2>2, OtherFields
<1>19. CASE u = [v EXCEPT !.state = "closed"]
  BY <1>16, <1>19, StateInv
<1>20. CASE u = v
  BY <1>16, <1>20
<1>21. \/ u = [v EXCEPT !.state = "connected", !.connected = TRUE]
       \/ u = [v EXCEPT !.state = "closed"]
       \/ u = v
  BY <1>2 DEF DoneWith
<1> QED
  BY <1>18, <1>19, <1>20, <1>21

\* The watch is told: the answer is forgotten when it has been given.
LEMMA DeliverInv ==
  ASSUME Inv(self), Deliver
  PROVE  Inv(self')
<1>1. self \in Context
  BY DEF Inv, Typed
<1>2. self.events # <<>> /\ Tail(self.events) \in Seq(Events)
  BY <1>1, HeadTailProperties DEF Deliver, Context
<1>3. CASE Head(self.events) = "DONE"
  <2>1. self.events \in {<<"DONE">>, <<"DONE", "OUT">>} /\ self.ended = Append(self.told, self.rsp)
    BY <1>2, <1>3 DEF Inv, Telling, Quiet
  <2>2. self' = [self EXCEPT !.events = Tail(self.events), !.rsp = "SUCCESS",
                             !.told = self.ended]
    BY <1>3, <2>1 DEF Deliver
  <2>3. [self EXCEPT !.events = Tail(self.events), !.rsp = "SUCCESS",
                     !.told = self.ended] \in Context
    BY <1>1, <1>2 DEF Context, Responses
  <2>4. /\ self'.link = self.link /\ self'.object = self.object
        /\ self'.pending = self.pending /\ self'.data = self.data
        /\ self'.start = self.start /\ self'.awaited = self.awaited
        /\ self'.read = self.read /\ self'.arrived = self.arrived
        /\ self'.closed = self.closed /\ self'.before = self.before
        /\ self'.packets = self.packets /\ self'.events = Tail(self.events)
        /\ self'.told = self.ended /\ self'.ended = self.ended
    BY <1>1, <2>2 DEF Context
  <2>5. Typed(self') /\ Ordered(self') /\ HeldBack(self') /\ Waiting(self')
    BY <2>2, <2>3, <2>4 DEF Inv, Typed, Ordered, HeldBack, Drained, Waiting
  <2>6. Tail(self.events) \in Quiet
    BY <2>1, EventSequences DEF Quiet
  <2>7. Telling(self')
    BY <2>4, <2>6 DEF Telling
  <2> QED
    BY <2>5, <2>7 DEF Inv
<1>4. CASE Head(self.events) # "DONE"
  <2>1. self' = [self EXCEPT !.events = Tail(self.events)]
    BY <1>4 DEF Deliver
  <2>2. [self EXCEPT !.events = Tail(self.events)] \in Context
    BY <1>1, <1>2 DEF Context
  <2>3. /\ self'.link = self.link /\ self'.object = self.object
        /\ self'.pending = self.pending /\ self'.data = self.data
        /\ self'.start = self.start /\ self'.awaited = self.awaited
        /\ self'.read = self.read /\ self'.arrived = self.arrived
        /\ self'.closed = self.closed /\ self'.before = self.before
        /\ self'.packets = self.packets /\ self'.events = Tail(self.events)
        /\ self'.told = self.told /\ self'.ended = self.ended
        /\ self'.rsp = self.rsp
    BY <1>1, <2>1 DEF Context
  <2>4. Typed(self') /\ Ordered(self') /\ HeldBack(self') /\ Waiting(self')
    BY <2>1, <2>2, <2>3 DEF Inv, Typed, Ordered, HeldBack, Drained, Waiting
  <2>5. CASE self.events \in Quiet /\ self.told = self.ended
    <3>1. Tail(self.events) \in Quiet
      BY <1>2, <2>5, EventSequences DEF Quiet
    <3> QED
      BY <2>3, <2>4, <2>5, <3>1 DEF Inv, Telling
  <2>6. CASE /\ self.events \in {<<"IN", "DONE">>, <<"IN", "DONE", "OUT">>}
             /\ self.ended = Append(self.told, self.rsp)
    <3>1. Tail(self.events) \in {<<"DONE">>, <<"DONE", "OUT">>}
      BY <2>6, EventSequences
    <3> QED
      BY <2>3, <2>4, <2>6, <3>1 DEF Inv, Telling
  <2> QED
    BY <1>4, <2>5, <2>6 DEF Inv, Telling
<1> QED
  BY <1>3, <1>4

-----------------------------------------------------------------------------
(* Transfers.                                                               *)

\* Reading takes bytes from the buffer to what was read, and empties it
\* before the next packet is asked for.
LEMMA ReadInv ==
  ASSUME NEW s, Inv(s), Command(s.object) = "GET", s.data # <<>>,
         NEW n \in Nat, n <= Len(s.data), NEW u \in obex_read(s, n)
  PROVE  Inv(u)
<1> DEFINE a == SubSeq(s.data, 1, n)
           b == SubSeq(s.data, n + 1, Len(s.data))
           t == [s EXCEPT !.read = @ \o a, !.data = b, !.start = @ + n]
<1>1. s \in Context
  BY DEF Inv, Typed
<1>2. /\ s.data \in Seq(Bytes) /\ Len(s.data) \in Nat /\ s.read \in Seq(Bytes)
      /\ s.start \in Nat /\ s.arrived \in Seq(Bytes) /\ BufSize \in Nat
  BY <1>1, LenProperties, BoundsAssumption DEF Context
<1>3. a \in Seq(Bytes) /\ b \in Seq(Bytes) /\ Len(b) = Len(s.data) - n
  BY <1>2, SubSeqProperties
<1>4. a \o b = s.data
  <2>1. SubSeq(s.data, 1, Len(s.data)) = s.data
    BY <1>2, SubSeqFull
  <2>2. CASE n = 0
    <3>1. a = <<>> /\ b = s.data
      BY <1>2, <2>1, <2>2, SubSeqEmpty
    <3> QED
      BY <1>2, <3>1, ConcatEmptySeq
  <2>3. CASE n = Len(s.data)
    <3>1. a = s.data /\ b = <<>>
      BY <1>2, <2>1, <2>3, SubSeqEmpty
    <3> QED
      BY <1>2, <3>1, ConcatEmptySeq
  <2>4. CASE n \in 1..Len(s.data) /\ n + 1 \in 1..Len(s.data)
    BY <1>2, <2>1, <2>4, ConcatAdjacentSubSeq
  <2>5. n = 0 \/ n = Len(s.data) \/ (n \in 1..Len(s.data) /\ n + 1 \in 1..Len(s.data))
    BY <1>2
  <2> QED
    BY <2>2, <2>3, <2>4, <2>5
<1>5. obex_read(s, n) = IF t.data # <<>> THEN {t} ELSE OBEX_ResumeRequest([t EXCEPT !.start = 0])
  <2>1. t = [s EXCEPT !.read = @ \o SubSeq(s.data, 1, n),
                      !.data = SubSeq(@, n + 1, Len(@)), !.start = @ + n]
    OBVIOUS
  <2> QED
    BY <2>1 DEF obex_read
<1> HIDE DEF a, b
<1>6. s.read \o a \in Seq(Bytes)
  BY <1>2, <1>3, ConcatProperties
<1>7. (s.read \o a) \o b = s.read \o s.data
  <2>1. \A x, y, z \in Seq(Bytes) : (x \o y) \o z = x \o (y \o z)
    BY ConcatAssociative
  <2>2. s.read \in Seq(Bytes) /\ a \in Seq(Bytes) /\ b \in Seq(Bytes)
    BY <1>2, <1>3
  <2>3. (s.read \o a) \o b = s.read \o (a \o b)
    BY <2>1, <2>2
  <2> QED
    BY <1>4, <2>3
<1>8. IsPrefix(s.read \o a, (s.read \o a) \o b)
  BY <1>3, <1>6, ConcatPrefix
<1>9. t \in Context
  <2>1. s.start + n \in Nat
    BY <1>2
  <2>2. [s EXCEPT !.read = s.read \o a, !.data = b, !.start = s.start + n] \in Context
    BY <1>1, <1>3, <1>6, <2>1 DEF Context
  <2> QED
    BY <2>2
<1>10. /\ t.link = s.link /\ t.object = s.object /\ t.pending = s.pending
       /\ t.data = b /\ t.start = s.start + n /\ t.awaited = s.awaited
       /\ t.read = s.read \o a /\ t.arrived = s.arrived /\ t.closed = s.closed
       /\ t.before = s.before /\ t.packets = s.packets
       /\ t.events = s.events /\ t.told = s.told
       /\ t.ended = s.ended /\ t.rsp = s.rsp
  BY <1>1 DEF Context
<1> HIDE DEF t
<1>11. /\ t.start + Len(t.data) <= BufSize
       /\ t.data = <<>> => 0 + Len(t.data) <= BufSize
  BY <1>2, <1>3, <1>10, EmptySeq DEF Inv, Typed
<1>12. ~s.closed => ~s.awaited /\ s.read \o s.data = s.arrived /\ s.before <= Len(s.arrived)
  BY DEF Inv, HeldBack, Drained, Ordered
<1>13. s.object # None
  BY NoneAssumption DEF Command, Ops
<1>14. Inv(t)
  <2>1. Typed(t)
    BY <1>9, <1>10, <1>11 DEF Inv, Typed
  <2>2. Ordered(t) /\ HeldBack(t)
    BY <1>7, <1>8, <1>10, <1>12 DEF Ordered, HeldBack, Drained
  <2>3. Waiting(t)
    BY <1>10 DEF Inv, Waiting
  <2>4. Telling(t)
    BY <1>10 DEF Inv, Telling
  <2> QED
    BY <2>1, <2>2, <2>3, <2>4 DEF Inv
<1>15. CASE t.data # <<>>
  BY <1>5, <1>14, <1>15
<1>16. CASE t.data = <<>>
  <2> DEFINE r == [t EXCEPT !.start = 0]
  <2>1. r \in Context
    BY <1>9 DEF Context
  <2>2. /\ r.link = t.link /\ r.object = t.object /\ r.pending = t.pending
        /\ r.data = t.data /\ r.start = 0 /\ r.awaited = t.awaited
        /\ r.read = t.read /\ r.arrived = t.arrived /\ r.closed = t.closed
        /\ r.before = t.before /\ r.packets = t.packets
        /\ r.events = t.events /\ r.told = t.told
        /\ r.ended = t.ended /\ r.rsp = t.rsp
    BY <1>9 DEF Context
  <2>3. u \in OBEX_ResumeRequest(r)
    BY <1>5, <1>16
  <2> HIDE DEF r
  <2>4. Typed(r)
    BY <1>11, <1>14, <1>16, <2>1, <2>2 DEF Inv, Typed
  <2>5. Ordered(r) /\ Drained(r) /\ HeldBack(r) /\ Waiting(r)
    BY <1>14, <1>16, <2>2 DEF Inv, Ordered, Drained, HeldBack, Waiting
  <2>6. Telling(r)
    BY <1>14, <2>2 DEF Inv, Telling
  <2> QED
    BY <1>10, <1>13, <2>2, <2>3, <2>4, <2>5, <2>6, ResumeInv DEF Inv
<1> QED
  BY <1>15, <1>16

\* Writing and flushing are for a PUT, of which nothing arrives.
LEMMA WriteInv ==
  ASSUME Inv(self), Write \/ Flush
  PROVE  Inv(self')
<1>1. self \in Context
  BY DEF Inv, Typed
<1>2. Command(self.object) = "PUT" /\ self.object # None
  BY NoneAssumption DEF Write, Flush, Command, Ops
<1>3. /\ self.data \in Seq(Bytes) /\ Len(self.data) \in Nat
      /\ self.start \in Nat /\ BufSize \in Nat /\ self.start + Len(self.data) <= BufSize
  BY <1>1, LenProperties, BoundsAssumption DEF Inv, Typed, Context
<1>4. CASE Flush
  <2>1. Drained(self)
    BY <1>2 DEF Drained
  <2> QED
    BY <1>2, <1>4, <2>1, ResumeInv DEF Flush
<1>5. CASE Write
  <2>1. PICK n \in Counts :
          LET m == IF n > Free(self) THEN Free(self) ELSE n
              t == [self EXCEPT !.data = @ \o [k \in 1..m |-> Junk]]
          IN  self' = t \/ self' \in OBEX_ResumeRequest(t)
    BY <1>5 DEF Write
  <2> DEFINE m == IF n > Free(self) THEN Free(self) ELSE n
             new == [k \in 1..m |-> Junk]
             t == [self EXCEPT !.data = @ \o new]
  <2>2. n \in Nat /\ Free(self) \in Nat
    BY <1>3, CountsAssumption DEF Free
  <2>3. m \in Nat /\ self.start + Len(self.data) + m <= BufSize
    <3>1. CASE n > Free(self)
      BY <1>3, <2>2, <3>1 DEF Free
    <3>2. CASE ~(n > Free(self))
      BY <1>3, <2>2, <3>2 DEF Free
    <3> QED
      BY <3>1, <3>2
  <2>4. self' = t \/ self' \in OBEX_ResumeRequest(t)
    BY <2>1
  <2> HIDE DEF m
  <2>5. new \in Seq(Bytes) /\ Len(new) = m
    BY <2>3 DEF Bytes
  <2> HIDE DEF new
  <2>6. self.data \o new \in Seq(Bytes) /\ Len(self.data \o new) = Len(self.data) + m
    BY <1>3, <2>5, ConcatProperties
  <2>7. t \in Context
    BY <1>1, <2>6 DEF Context
  <2>8. /\ t.link = self.link /\ t.object = self.object /\ t.pending = self.pending
        /\ t.data = self.data \o new /\ t.start = self.start
        /\ t.awaited = self.awaited /\ t.read = self.read
        /\ t.arrived = self.arrived /\ t.closed = self.closed
        /\ t.before = self.before /\ t.packets = self.packets
        /\ t.events = self.events /\ t.told = self.told
        /\ t.ended = self.ended /\ t.rsp = self.rsp
    BY <1>1 DEF Context
  <2> HIDE DEF t
  <2>9. t.start + Len(t.data) <= BufSize
    BY <1>3, <2>3, <2>6, <2>8
  <2>10. Typed(t)
    BY <2>7, <2>8, <2>9 DEF Inv, Typed
  <2>11. Ordered(t) /\ Drained(t) /\ HeldBack(t) /\ Waiting(t)
    BY <1>2, <2>8 DEF Inv, Ordered, Drained, HeldBack, Waiting
  <2>12. Telling(t)
    BY <2>8 DEF Inv, Telling
  <2>13. Inv(t)
    BY <2>10, <2>11, <2>12 DEF Inv
  <2> QED
    BY <1>2, <2>4, <2>8, <2>11, <2>13, ResumeInv
<1> QED
  BY <1>4, <1>5

\* After obex_client_close nothing is promised of the GET.
LEMMA CloseTransferInv ==
  ASSUME Inv(self), CloseTransfer
  PROVE  Inv(self')
<1> DEFINE t == [self EXCEPT !.closed = TRUE]
<1>1. self \in Context
  BY DEF Inv, Typed
<1>2. self.object # None /\ self' \in OBEX_ResumeRequest(t)
  BY NoneAssumption DEF CloseTransfer, Command, Ops
<1>3. t \in Context
  BY <1>1 DEF Context
<1>4. /\ t.link = self.link /\ t.object = self.object /\ t.pending = self.pending
      /\ t.data = self.data /\ t.start = self.start
      /\ t.awaited = self.awaited /\ t.arrived = self.arrived /\ t.closed = TRUE
      /\ t.packets = self.packets
      /\ t.events = self.events /\ t.told = self.told
      /\ t.ended = self.ended /\ t.rsp = self.rsp
  BY <1>1 DEF Context
<1> HIDE DEF t
<1>5. Typed(t) /\ Ordered(t) /\ Drained(t) /\ HeldBack(t) /\ Waiting(t)
  BY <1>3, <1>4 DEF Inv, Typed, Ordered, Drained, HeldBack, Waiting
<1>6. Telling(t)
  BY <1>4 DEF Inv, Telling
<1> QED
  BY <1>2, <1>4, <1>5, <1>6, ResumeInv DEF Inv

-----------------------------------------------------------------------------
(* The steps.                                                               *)

\* A packet arrives, with or without a body, and is the last or not.
LEMMA AnswerInv ==
  ASSUME Inv(self), AnswerGet \/ Answer
  PROVE  Inv(self')
<1>1. /\ self \in Context /\ self.awaited /\ self.object # None
      /\ self.events = <<>> /\ self.link = "up" /\ self.told = self.ended
  <2>1. self \in Context /\ self.awaited /\ self.events = <<>> /\ self.link = "up"
    BY DEF Inv, Typed, AnswerGet, Answer, Readable
  <2>2. self.object # None
    BY <2>1 DEF Inv, Typed
  <2>3. self.told = self.ended
    BY <2>1 DEF Inv, Telling
  <2> QED
    BY <2>1, <2>2, <2>3
<1>2. /\ Typed(self) /\ Waiting(self) /\ Ordered(self) /\ Drained(self)
  BY <1>1 DEF Inv, HeldBack
<1>3. CASE AnswerGet
  <2>1. PICK n \in Counts \union {0} :
          \/ self' \in Continued(Body(self, n))
          \/ \E rsp \in Responses : self' \in ReqDone(Body(self, n), rsp)
    BY <1>3 DEF AnswerGet
  <2>2. n \in 0..BufSize /\ self.object.op = "GET" /\ self.packets < MaxPackets
    BY <1>3, CountsAssumption, BoundsAssumption DEF AnswerGet
  <2> DEFINE b == Body(self, n)
  <2>3. /\ Typed(b) /\ Waiting(b) /\ Ordered(b)
        /\ b.events \in {<<>>, <<"IN">>} /\ b.told = b.ended
        /\ b.suspend \/ Drained(b)
        /\ ~b.closed => Len(b.read) >= b.before
        /\ b.object = self.object /\ b.link = self.link
    BY <1>1, <2>2, BodyInv
  <2>4. Telling(b)
    BY <2>3 DEF Telling, Quiet
  <2> HIDE DEF b
  <2>5. CASE self' \in Continued(b)
    BY <1>1, <2>3, <2>4, <2>5, ContinuedInv
  <2>6. CASE \E rsp \in Responses : self' \in ReqDone(b, rsp)
    BY <1>1, <2>3, <2>6, ReqDoneInv
  <2> QED
    BY <2>1, <2>5, <2>6 DEF b
<1>4. CASE Answer
  <2>1. PICK rsp \in Responses : self' \in ReqDone(self, rsp)
    BY <1>4 DEF Answer
  <2>2. ~self.closed => Len(self.read) >= self.before
    <3>1. CASE Command(self.object) = "GET" /\ ~self.closed
      <4>1. self.data = <<>> /\ self.read \o self.data = self.arrived /\ self.before <= Len(self.arrived)
        BY <1>2, <3>1 DEF Drained, Ordered
      <4>2. self.read \o <<>> = self.read /\ Len(self.read) \in Nat /\ self.before \in Nat
        BY <1>1, ConcatEmptySeq, LenProperties DEF Context
      <4> QED
        BY <4>1, <4>2
    <3>2. CASE Command(self.object) # "GET" \/ self.closed
      BY <1>1, <1>2, <3>2 DEF Ordered
    <3> QED
      BY <3>1, <3>2
  <2>3. self.events \in {<<>>, <<"IN">>}
    BY <1>1
  <2> QED
    BY <1>1, <1>2, <2>1, <2>2, <2>3, ReqDoneInv
<1> QED
  BY <1>3, <1>4

\* The link is lost, noticed by the handle or not.
LEMMA LinkLostInv ==
  ASSUME Inv(self), ParseError \/ LinkLost
  PROVE  Inv(self')
<1>1. CASE self' = LinkError(self)
  BY <1>1, LinkErrorInv DEF Inv
<1>2. CASE self' = [self EXCEPT !.link = "down"]
  <2>1. self \in Context
    BY DEF Inv, Typed
  <2>2. [self EXCEPT !.link = "down"] \in Context
    BY <2>1 DEF Context
  <2>3. /\ self'.link = "down" /\ self'.object = self.object
        /\ self'.pending = self.pending /\ self'.data = self.data
        /\ self'.start = self.start /\ self'.awaited = self.awaited
        /\ self'.read = self.read /\ self'.arrived = self.arrived
        /\ self'.closed = self.closed /\ self'.before = self.before
        /\ self'.packets = self.packets /\ self'.events = self.events
        /\ self'.told = self.told /\ self'.ended = self.ended
        /\ self'.rsp = self.rsp
    BY <1>2, <2>1 DEF Context
  <2>4. Typed(self') /\ Ordered(self') /\ HeldBack(self') /\ Waiting(self')
    BY <1>2, <2>2, <2>3 DEF Inv, Typed, Ordered, HeldBack, Drained, Waiting
  <2>5. Telling(self')
    BY <2>3 DEF Inv, Telling
  <2> QED
    BY <2>4, <2>5 DEF Inv
<1> QED
  BY <1>1, <1>2 DEF ParseError, LinkLost

\* The idle source has run.
LEMMA PutIdleInv ==
  ASSUME Inv(self), PutIdle
  PROVE  Inv(self')
<1>1. self \in Context /\ self' = [self EXCEPT !.idle = FALSE]
  BY DEF Inv, Typed, PutIdle
<1>2. [self EXCEPT !.idle = FALSE] \in Context
  BY <1>1 DEF Context
<1> DEFINE t == [self EXCEPT !.idle = FALSE]
<1>3. /\ t.link = self.link /\ t.object = self.object /\ t.pending = self.pending
      /\ t.data = self.data /\ t.start = self.start /\ t.awaited = self.awaited
      /\ t.read = self.read /\ t.arrived = self.arrived /\ t.closed = self.closed
      /\ t.before = self.before /\ t.packets = self.packets
      /\ t.events = self.events /\ t.told = self.told
      /\ t.ended = self.ended /\ t.rsp = self.rsp
  BY <1>1 DEF Context
<1>4. Inv(t)
  BY <1>2, <1>3, OtherFields
<1> QED
  BY <1>1, <1>4

\* obex_client_init and obex_open give a context without a request.
LEMMA InitInv == Init => IInv
<1> SUFFICES ASSUME NEW auto \in BOOLEAN, self = Opened(auto) PROVE Inv(self)
  BY DEF Init, IInv
<1>1. /\ <<>> \in Seq(Bytes) /\ <<>> \in Seq(Events) /\ <<>> \in Seq(Responses)
      /\ Len(<<>>) = 0 /\ <<>> \o <<>> = <<>>
      /\ 0 \in 0..MaxRequests + 1 /\ 0 \in 0..MaxPackets
      /\ BufSize \in Nat /\ BufSize * 0 = 0
  BY EmptySeq, BoundsAssumption
<1>2. Opened(auto) \in Context
  BY <1>1 DEF Opened, Context, Responses
<1>3. /\ self.link = "up" /\ self.object = None /\ self.pending = None
      /\ self.data = <<>> /\ self.start = 0 /\ self.awaited = FALSE
      /\ self.read = <<>> /\ self.arrived = <<>> /\ self.closed = FALSE
      /\ self.before = 0 /\ self.packets = 0 /\ self.events = <<>>
      /\ self.told = <<>> /\ self.ended = <<>>
  BY DEF Opened
<1>4. Command(self.object) # "GET"
  BY <1>3, NoneAssumption DEF Command, Ops
<1>5. IsPrefix(<<>>, <<>>)
  BY <1>1 DEF IsPrefix
<1>6. Typed(self)
  BY <1>1, <1>2, <1>3 DEF Typed
<1>7. Waiting(self) /\ Ordered(self) /\ HeldBack(self) /\ Telling(self)
  BY <1>1, <1>3, <1>4, <1>5 DEF Waiting, Ordered, HeldBack, Telling, Quiet
<1> QED
  BY <1>6, <1>7 DEF Inv

\* Every step keeps the invariant.
LEMMA NextInv == IInv /\ [Next]_vars => IInv'
<1> SUFFICES ASSUME Inv(self), [Next]_vars PROVE Inv(self')
  BY DEF IInv
<1>1. CASE Call
  BY <1>1, CallsInv DEF Call
<1>2. CASE AnswerGet \/ Answer
  BY <1>2, AnswerInv
<1>3. CASE Deliver
  BY <1>3, DeliverInv
<1>4. CASE PutIdle
  BY <1>4, PutIdleInv
<1>5. CASE ParseError \/ LinkLost
  BY <1>5, LinkLostInv
<1>6. CASE Read
  <2>1. PICK n \in Counts : n <= Len(self.data) /\ self' \in obex_read(self, n)
    BY <1>6 DEF Read
  <2>2. n \in Nat
    BY CountsAssumption, BoundsAssumption
  <2> QED
    BY <1>6, <2>1, <2>2, ReadInv DEF Read
<1>7. CASE Write \/ Flush
  BY <1>7, WriteInv
<1>8. CASE CloseTransfer
  BY <1>8, CloseTransferInv
<1>9. CASE UNCHANGED vars
  BY <1>9 DEF vars
<1> QED
  BY <1>1, <1>2, <1>3, <1>4, <1>5, <1>6, <1>7, <1>8, <1>9 DEF Next, MainLoop

LEMMA Invariance == Spec => []IInv
BY InitInv, NextInv, PTL DEF Spec

-----------------------------------------------------------------------------
(* The properties.                                                          *)

\* The fields of the context keep their types, and what obex_write and
\* obex_readstream store stays within the buffer.
THEOREM TypeCorrect == Spec => []TypeOK
<1>1. IInv => TypeOK
  <2> SUFFICES ASSUME Inv(self) PROVE TypeOK
    BY DEF IInv
  <2>1. self \in Context /\ BufSize \in Nat /\ self.start + Len(self.data) <= BufSize
    BY BoundsAssumption DEF Inv, Typed
  <2>2. self.start + Len(self.data) \in 0..BufSize
    BY <2>1, LenProperties DEF Context
  <2> QED
    BY <2>1, <2>2 DEF TypeOK, Context, Events
<1> QED
  BY <1>1, Invariance, PTL

\* What obex_client_read gives is what arrived, in order and without gaps,
\* whatever is requested and queued meanwhile (obex_readstream, obex_read).
THEOREM ReadsAreInOrder == Spec => []ReadsInOrder
<1>1. IInv => ReadsInOrder
  BY DEF IInv, Inv, Ordered, ReadsInOrder
<1> QED
  BY <1>1, Invariance, PTL

\* Each DONE the watch is called with gives the answer of its own request,
\* in the order of the requests (obex_event, obex_get_response).
THEOREM AnswersAreTold == Spec => []Told
<1>1. IInv => Told
  <2> SUFFICES ASSUME Inv(self) PROVE IsPrefix(self.told, self.ended)
    BY DEF IInv, Told
  <2>1. self.told \in Seq(Responses) /\ self.ended \in Seq(Responses) /\ self.rsp \in Responses
    BY DEF Inv, Typed, Context
  <2>2. CASE self.told = self.ended
    BY <2>1, <2>2, LenProperties DEF IsPrefix
  <2>3. CASE self.ended = Append(self.told, self.rsp)
    <3>1. /\ Len(self.told) \in Nat /\ Len(self.ended) = Len(self.told) + 1
          /\ SubSeq(self.ended, 1, Len(self.told)) = self.told
          /\ SubSeq(self.told, 1, Len(self.told)) = self.told
      BY <2>1, <2>3, AppendProperties, LenProperties, SubSeqFull
    <3> QED
      BY <3>1 DEF IsPrefix
  <2> QED
    BY <2>2, <2>3 DEF Inv, Telling
<1> QED
  BY <1>1, Invariance, PTL
=============================================================================
