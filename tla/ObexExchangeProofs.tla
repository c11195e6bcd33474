------------------------- MODULE ObexExchangeProofs -------------------------
(***************************************************************************)
(* Theorems about ObexSession: the exchange of requests and responses      *)
(* while nothing is cancelled and nothing fails, however often the         *)
(* transfers are suspended.                                                *)
(*                                                                         *)
(* It is the turn of one side at a time: the invariant says where the turn *)
(* is (a packet on its way, a server that is asked or held back, a client  *)
(* held back) and what the two objects know of each other there.           *)
(***************************************************************************)
EXTENDS ObexSessionProofs

(* Nothing is cancelled and nothing fails; a transfer is suspended while   *)
(* it has something to send, and resumed outside of callbacks; a response  *)
(* ends with a code that is not CONTINUE.                                  *)
Goes(q) == q # <<>> => q[Len(q)] # "suspend"
Unhindered ==
  /\ Suspenders = {}
  /\ \A q \in RequestQueues \cup ResponseQueues : Kind(q)
Calm ==
  /\ NiceCancellers = {} /\ HardCancellers = {}
  /\ ~SuspendsFirst /\ ~SuspendsLate /\ ~AddsLate
  /\ ~StreamFails /\ ~AllocFails /\ ~LinkFails
  /\ "CONTINUE" \notin Answers
  /\ \A q \in RequestQueues \cup ResponseQueues : Goes(q)
  /\ "resume" \in CallsBack => Unhindered

(* The objects of the two sides, and the callbacks they are in.            *)
O == obex[Cli].object
P == obex[Srv].object
At(h) == IF InCallback(h) THEN Top(h).at ELSE "none"

(* The request that was made last, and what the history has of it.         *)
Now == nextId - 1
Served == \E e \in seen[Srv] : e.ev = "REQ" /\ e.id = Now
EndedAt(h) == {e.id : e \in {d \in seen[h] : d.ev = "REQDONE"}}

(* The link is up, and what the applications are told in callbacks.        *)
Smooth ==
  /\ \A h \in Handles : link[h] = "up"
  /\ crashed = {}
  /\ \A i \in 1..Len(stack[Cli]) :
       /\ stack[Cli][i].ev \in {"PROGRESS", "REQDONE"}
       /\ i < Len(stack[Cli]) => stack[Cli][i].at = "done"
  /\ stack[Srv] # <<>> =>
       /\ Len(stack[Srv]) = 1
       /\ LET top == Top(Srv)
          IN  CASE top.at = "hint" -> top.ev = "REQHINT"
                [] top.at = "check" -> top.ev = "REQCHECK"
                [] top.at = "req" -> top.ev = "REQ"
                [] OTHER -> top.ev \in {"PROGRESS", "REQDONE"}

(* A queue that is suspended is not empty; nobody is suspended where        *)
(* resumes are made in callbacks.                                          *)
Queue(o) ==
  /\ Goes(o.tx) /\ (Unhindered => Kind(o.tx) /\ ~o.suspend)
  /\ o.suspend => o.tx # <<>>
  /\ ~o.abort /\ o.id = Now

ClientIs ==
  /\ At(Cli) \in {"none", "done", "start", "continue", "resume"}
  /\ At(Cli) \in {"start", "continue", "resume"} => O # NULL
  /\ At(Cli) = "start" => ~O.cont
  /\ At(Cli) = "resume" => Top(Cli).id = Now
  /\ O # NULL =>
       /\ Now # 0 /\ Queue(O) /\ O.sent /\ ~O.nonhdr
       /\ O.opcode = O.cmd /\ O.lastopcode = O.cmd /\ O.cmd \in Cmds
       /\ O.cmd = "CONNECT" => O.tx = <<>>
       /\ obex[Cli].mode = "CLI"
       /\ obex[Cli].state = IF At(Cli) = "start" THEN "START" ELSE "REC"

(* The server's object, before and after the application was given the     *)
(* request.                                                                *)
Asked ==
  /\ At(Srv) \in {"none", "hint", "check", "done"}
  /\ ~P.sent /\ ~P.cont /\ P.tx = <<>> /\ P.n = 0
  /\ obex[Srv].state = IF At(Srv) = "hint" THEN "IDLE" ELSE "REC"
Serving ==
  /\ At(Srv) \in {"none", "req", "sendprogress", "resume"}
  /\ obex[Srv].state \in {"REC", "SEND"}
  /\ At(Srv) = "none" => P.sent \/ P.cont
  /\ O.tx = <<>>
Codes(o) ==
  /\ \/ o.opcode = "CONTINUE" /\ o.lastopcode = "SUCCESS"
     \/ o.opcode = o.lastopcode /\ o.opcode \notin {"CONTINUE", "SUCCESS"} /\ o.tx = <<>>
  /\ o.lastopcode \in Rsps
ServerIs ==
  /\ obex[Srv].mode = "SRV"
  /\ P = NULL =>
       /\ At(Srv) \in {"none", "done", "resumedone"}
       /\ At(Srv) # "resumedone" => obex[Srv].state = "IDLE"
  /\ P # NULL =>
       /\ O # NULL /\ Queue(P) /\ Codes(P) /\ P.cmd = O.cmd
       /\ IF Served THEN Serving ELSE Asked
       /\ At(Srv) = "resume" => Top(Srv).id = Now
       /\ P.cmd = "CONNECT" =>
            At(Srv) \in {"hint", "req"} /\ P.tx = <<>> /\ (At(Srv) = "req" => P.nonhdr)

(* The packets of the request and of the response.                         *)
Carries(n) == IF n = 0 THEN 0 ELSE 1
Requests(p) ==
  /\ p.op = O.cmd /\ p.id = Now /\ (p.final <=> O.tx = <<>>)
  /\ p.n \in {0, O.n}
First(p) ==
  /\ O.n = Carries(p.n) /\ ~Served
  /\ O.cmd = "CONNECT" => p.mtu # 0
Arrived(rx, p, n) ==
  /\ p.n \in {0, n}
  /\ rx = Fragments(Now, n - Carries(p.n))

(* The server has all of the request that was sent; it is not its turn.    *)
Waits ==
  /\ At(Srv) \notin {"hint", "check", "req"}
  /\ P # NULL /\ At(Srv) = "none" => ~P.cont
Has == P # NULL /\ P.rx = Fragments(Now, O.n)

(* Where the turn is.                                                      *)
Ask(p) ==
  /\ Requests(p) /\ Waits
  /\ P = NULL => First(p) /\ O.rx = <<>> /\ Now \notin EndedAt(Srv)
  /\ P # NULL =>
       /\ Arrived(P.rx, p, O.n) /\ p.mtu = 0 /\ (Served => p.n = 0)
       /\ O.rx = Fragments(Now, P.n)
Think ==
  /\ P # NULL /\ O.rx = Fragments(Now, P.n)
  /\ \/ At(Srv) \in {"hint", "check", "req"}
     \/ At(Srv) = "none" /\ P.cont /\ P.suspend
  /\ At(Srv) = "hint" =>
       Requests(Top(Srv).pkt) /\ First(Top(Srv).pkt) /\ P.rx = <<>>
  /\ At(Srv) # "hint" => Has
  /\ At(Srv) \in {"check", "req"} => Top(Srv).pkt.op = O.cmd
Answer(p) ==
  /\ p.id = Now /\ Waits
  /\ IF p.op = "CONTINUE"
     THEN Has /\ Arrived(O.rx, p, P.n)
     ELSE /\ P = NULL
          /\ p.op \in Rsps
          /\ O.cmd = "CONNECT" /\ p.op = "SUCCESS" => p.mtu # 0
          /\ \E e \in seen[Srv] :
               /\ e.ev = "REQDONE" /\ e.id = Now /\ e.rsp = p.op
               /\ Arrived(O.rx, p, e.n)
Hold ==
  /\ Has /\ Waits /\ O.rx = Fragments(Now, P.n)
  /\ O.cont /\ O.suspend /\ At(Cli) = "none"

(* A client that is not held back has used up its CONTINUE, but for one    *)
(* that was resumed with the last packet.                                  *)
Free == At(Cli) \in {"none", "done"} /\ O.cont => O.tx = <<>> /\ ~Unhindered

Turn ==
  /\ O = NULL => Quiet /\ P = NULL
  /\ O # NULL =>
       \/ chan[Cli] = <<>> /\ Len(chan[Srv]) = 1 /\ Ask(chan[Srv][1]) /\ Free
       \/ Quiet /\ Think /\ Free
       \/ chan[Srv] = <<>> /\ Len(chan[Cli]) = 1 /\ Answer(chan[Cli][1]) /\ Free
       \/ Quiet /\ Hold

(* What the applications were told.                                        *)
Distinct(events) ==
  \A e, f \in events : e.ev = "REQDONE" /\ f.ev = "REQDONE" /\ e.id = f.id => e = f
Told ==
  /\ \A h \in Handles : \A e \in seen[h] : e.id \in 1..Now
  /\ \A e \in seen[Srv] : e.ev = "REQ" => e.rx = Fragments(e.id, Len(e.rx))
  /\ NoEarlyAnswer /\ AnswerAgrees
  /\ EndedAt(Cli) = 1..(IF O = NULL THEN Now ELSE Now - 1)
  /\ P # NULL => Now \notin EndedAt(Srv)
  /\ \A h \in Handles : \A e \in seen[h] : e.ev \in {"REQ", "REQDONE"}
  /\ \A h \in Handles : Distinct(seen[h])

InTurn == Smooth /\ ClientIs /\ ServerIs /\ Turn /\ Told

(* A step keeps all of this, and is one of the exchange as the applications *)
(* see it.                                                                 *)
Given == {e.id : e \in {d \in seen[Srv] : d.ev = "REQ"}}
Seems == <<Now, Given, AnswersSeen(Srv), AnswersSeen(Cli)>>
Advances == Exchange!Next \/ UNCHANGED Seems
Retold == Told' /\ Advances
Turns == InTurn' /\ Advances
-----------------------------------------------------------------------------
(* The packet an object fills, and the object after it.                    *)
Sends(o, p, n) ==
  /\ p.id = o.id /\ p.cmd = o.cmd /\ p.opcode = o.opcode /\ p.lastopcode = o.lastopcode
  /\ p.rx = o.rx /\ p.abort = o.abort /\ p.checked = o.checked
  /\ p.cont = o.cont /\ p.sent = o.sent /\ ~p.nonhdr
  /\ p.n = o.n + Carries(n) /\ n \in {0, p.n}
  /\ o.tx = <<>> => n = 0 /\ p.tx = <<>> /\ ~p.suspend
  /\ Goes(p.tx) /\ (p.suspend => p.tx # <<>>)
  /\ (Unhindered /\ Kind(o.tx) => Kind(p.tx) /\ ~p.suspend)

LEMMA QueueTail ==
  ASSUME NEW q \in Seq(Kinds), q # <<>>
  PROVE  /\ Tail(q) \in Seq(Kinds) /\ Head(q) \in Kinds
         /\ Goes(q) => Goes(Tail(q)) /\ (Head(q) = "suspend" => Tail(q) # <<>>)
         /\ Kind(q) => Kind(Tail(q)) /\ Head(q) # "suspend"
<1>1. /\ Len(q) \in Nat \ {0} /\ Tail(q) \in Seq(Kinds) /\ Len(Tail(q)) = Len(q) - 1
      /\ Head(q) = q[1] /\ \A i \in 1..Len(q) - 1 : Tail(q)[i] = q[i + 1]
      /\ q[1] \in Kinds
  BY LenProperties, EmptySeq, HeadTailProperties, ElementOfSeq
<1>2. ASSUME Goes(q)
      PROVE  Goes(Tail(q)) /\ (Head(q) = "suspend" => Tail(q) # <<>>)
  <2>1. q[Len(q)] # "suspend"
    BY <1>2 DEF Goes
  <2>2. CASE Len(q) = 1
    <3>1. Tail(q) = <<>>
      <4>1. Len(Tail(q)) = 0
        BY <1>1, <2>2
      <4>2. QED
        BY <1>1, <4>1, EmptySeq
    <3>2. QED
      BY <1>1, <2>1, <2>2, <3>1 DEF Goes
  <2>3. CASE Len(q) # 1
    <3>1. Len(q) - 1 \in 1..Len(q) - 1 /\ (Len(q) - 1) + 1 = Len(q)
      BY <1>1, <2>3
    <3>2. Tail(q)[Len(Tail(q))] = q[Len(q)]
      BY <1>1, <3>1
    <3>3. Tail(q) # <<>>
      BY <1>1, <2>3, EmptySeq
    <3>4. QED
      BY <2>1, <3>2, <3>3 DEF Goes
  <2>4. QED
    BY <2>2, <2>3
<1>3. Kind(q) => Kind(Tail(q)) /\ Head(q) # "suspend"
  BY KindTail
<1>4. QED
  BY <1>1, <1>2, <1>3

LEMMA FillsIs ==
  ASSUME Calm, NEW h \in Handles, NEW o \in Object, Goes(o.tx), ~o.suspend,
         NEW f \in Fills(h, o)
  PROVE  /\ f.ok /\ f.obj \in Object /\ f.n \in Nat
         /\ Sends(o, [f.obj EXCEPT !.nonhdr = FALSE], f.n)
         /\ [f.obj EXCEPT !.nonhdr = FALSE] \in Object
         /\ f.obj.nonhdr = o.nonhdr
<1>1. o.n \in Nat /\ o.n + 1 \in Nat \ {0} /\ o.tx \in Seq(Kinds)
  BY DEF Object
<1>2. f.obj \in Object /\ f.n \in Nat /\ [f.obj EXCEPT !.nonhdr = FALSE] \in Object
  BY FillsObject DEF Object
<1> DEFINE take(tx, suspend) == [o EXCEPT !.tx = tx, !.n = @ + 1, !.suspend = suspend]
<1>3. CASE o.tx = <<>> /\ f = [ok |-> TRUE, cost |-> 0, n |-> 0, obj |-> o]
  <2>1. Sends(o, [o EXCEPT !.nonhdr = FALSE], 0)
    BY <1>1, <1>3 DEF Sends, Object, Goes, Kind, Carries
  <2>2. QED
    BY <1>2, <1>3, <2>1
<1>4. CASE /\ h \in Suspenders /\ o.tx # <<>>
           /\ f = [ok |-> TRUE, cost |-> 1, n |-> 0, obj |-> [o EXCEPT !.suspend = TRUE]]
  <2>1. ~Unhindered
    BY <1>4 DEF Unhindered
  <2>2. Sends(o, [[o EXCEPT !.suspend = TRUE] EXCEPT !.nonhdr = FALSE], 0)
    BY <1>1, <1>4, <2>1 DEF Sends, Object, Carries
  <2>3. f.obj.nonhdr = o.nonhdr
    BY <1>4 DEF Object
  <2>4. QED
    BY <1>2, <1>4, <2>2, <2>3
<1>5. ASSUME NEW tx \in Seq(Kinds), NEW suspend \in BOOLEAN, o.tx # <<>>,
             Goes(tx), suspend => tx # <<>>,
             Unhindered /\ Kind(o.tx) => Kind(tx) /\ ~suspend,
             f = [ok |-> TRUE, cost |-> 0, n |-> o.n + 1, obj |-> take(tx, suspend)]
      PROVE  f.ok /\ Sends(o, [f.obj EXCEPT !.nonhdr = FALSE], f.n) /\ f.obj.nonhdr = o.nonhdr
  <2> DEFINE p == [take(tx, suspend) EXCEPT !.nonhdr = FALSE]
  <2>1. /\ p.id = o.id /\ p.cmd = o.cmd /\ p.opcode = o.opcode
        /\ p.lastopcode = o.lastopcode
        /\ p.rx = o.rx /\ p.abort = o.abort /\ p.checked = o.checked
        /\ p.cont = o.cont /\ p.sent = o.sent /\ ~p.nonhdr
        /\ p.n = o.n + 1 /\ p.tx = tx /\ p.suspend = suspend
        /\ take(tx, suspend).nonhdr = o.nonhdr
    BY DEF Object
  <2> HIDE DEF p
  <2>2. Carries(o.n + 1) = 1
    BY <1>1 DEF Carries
  <2>3. Sends(o, p, o.n + 1)
    BY <1>5, <2>1, <2>2 DEF Sends
  <2>4. QED
    BY <1>5, <2>1, <2>3 DEF p
<1>6. CASE /\ o.tx # <<>>
           /\ f = [ok |-> TRUE, cost |-> 0, n |-> o.n + 1,
                   obj |-> take(Tail(o.tx), Head(o.tx) = "suspend")]
  <2>1. /\ Tail(o.tx) \in Seq(Kinds) /\ (Head(o.tx) = "suspend") \in BOOLEAN
        /\ Goes(Tail(o.tx)) /\ (Head(o.tx) = "suspend" => Tail(o.tx) # <<>>)
        /\ (Unhindered /\ Kind(o.tx) => Kind(Tail(o.tx)) /\ Head(o.tx) # "suspend")
    BY <1>1, <1>6, QueueTail
  <2>2. QED
    BY <1>2, <1>5, <1>6, <2>1
<1>7. CASE o.tx # <<>>
           /\ f = [ok |-> TRUE, cost |-> 0, n |-> o.n + 1, obj |-> take(o.tx, FALSE)]
  BY <1>1, <1>2, <1>5, <1>7
<1>8. \/ o.tx = <<>> /\ f = [ok |-> TRUE, cost |-> 0, n |-> 0, obj |-> o]
      \/ /\ h \in Suspenders /\ o.tx # <<>>
         /\ f = [ok |-> TRUE, cost |-> 1, n |-> 0, obj |-> [o EXCEPT !.suspend = TRUE]]
      \/ /\ o.tx # <<>>
         /\ f = [ok |-> TRUE, cost |-> 0, n |-> o.n + 1,
                 obj |-> take(Tail(o.tx), Head(o.tx) = "suspend")]
      \/ /\ o.tx # <<>>
         /\ f = [ok |-> TRUE, cost |-> 0, n |-> o.n + 1, obj |-> take(o.tx, FALSE)]
  BY DEF Fills, Calm
<1>9. QED
  BY <1>2, <1>3, <1>4, <1>6, <1>7, <1>8

(* Nothing fails, so a packet of the object is on its way.                 *)
LEMMA ObjectSendIs ==
  ASSUME Calm, NEW h \in Handles, link[h] = "up", NEW c \in CtxOf(h),
         c.self.object \in Object, Goes(c.self.object.tx), ~c.self.object.suspend,
         NEW allowfinalcmd \in BOOLEAN, NEW forcefinalbit \in BOOLEAN,
         NEW r \in ObjectSend(h, c, allowfinalcmd, forcefinalbit)
  PROVE  \E p \in Object, n \in Nat, pkt \in PacketFrom(h) :
           /\ Sends(c.self.object, p, n)
           /\ r.ret = IF p.tx = <<>> /\ allowfinalcmd THEN 1 ELSE 0
           /\ pkt.op = IF p.tx = <<>> /\ allowfinalcmd THEN c.self.object.lastopcode
                       ELSE c.self.object.opcode
           /\ pkt.final <=> forcefinalbit \/ p.tx = <<>>
           /\ pkt.id = c.self.object.id /\ pkt.n = n
           /\ pkt.mtu = IF c.self.object.nonhdr THEN MtuRx[h] ELSE 0
           /\ r.ctx \in CtxOf(h)
           /\ Is(r.ctx, c.self.mode, c.self.state, p, c.frames, c.input,
                 Append(c.out, pkt), c.seen)
<1> DEFINE o == c.self.object
           done(f) == Finished(f.obj, allowfinalcmd)
           pkt(f)  == Packed(h, f, IF done(f) THEN o.lastopcode ELSE o.opcode,
                             forcefinalbit)
           obj(f)  == [f.obj EXCEPT !.nonhdr = FALSE]
           left(f) == [SetObject(c, obj(f)) EXCEPT !.faults = @ + f.cost]
<1>1. PICK f \in Fills(h, o) :
        /\ c.faults + f.cost <= MaxFaults
        /\ r \in IF f.ok
                 THEN {[ret |-> IF ~w.ok THEN -1 ELSE IF done(f) THEN 1 ELSE 0,
                        ctx |-> w.ctx] : w \in Writes(h, left(f), pkt(f))}
                 ELSE {[ret |-> -1, ctx |-> left(f)]}
  BY DEF ObjectSend
<1>2. /\ f.ok /\ f.obj \in Object /\ f.n \in Nat /\ Sends(o, obj(f), f.n)
      /\ obj(f) \in Object /\ f.obj.nonhdr = o.nonhdr
  BY FillsIs
<1>3. f.obj.tx = obj(f).tx /\ f.obj.id = obj(f).id /\ obj(f).id = o.id
  BY <1>2 DEF Object, Sends
<1>4. pkt(f) \in PacketFrom(h)
  <2>1. (IF done(f) THEN o.lastopcode ELSE o.opcode) \in Ops
    BY DEF Object
  <2>2. QED
    BY <1>2, <2>1, PackedFrom
<1>5. /\ pkt(f).op = IF obj(f).tx = <<>> /\ allowfinalcmd THEN o.lastopcode ELSE o.opcode
      /\ pkt(f).final <=> forcefinalbit \/ obj(f).tx = <<>>
      /\ pkt(f).id = o.id /\ pkt(f).n = f.n
      /\ pkt(f).mtu = IF o.nonhdr THEN MtuRx[h] ELSE 0
  BY <1>2, <1>3 DEF Packed, Finished
<1>6. Writes(h, left(f), pkt(f)) =
        {[ok |-> TRUE, ctx |-> [left(f) EXCEPT !.out = Append(@, pkt(f))]]}
  BY DEF Writes
<1>7. r.ret = (IF obj(f).tx = <<>> /\ allowfinalcmd THEN 1 ELSE 0)
      /\ r.ctx = [left(f) EXCEPT !.out = Append(@, pkt(f))]
  <2> DEFINE last == [left(f) EXCEPT !.out = Append(@, pkt(f))]
  <2>1. PICK w \in Writes(h, left(f), pkt(f)) :
          r = [ret |-> IF ~w.ok THEN -1 ELSE IF done(f) THEN 1 ELSE 0, ctx |-> w.ctx]
    BY <1>1, <1>2, Zenon
  <2>2. w = [ok |-> TRUE, ctx |-> last]
    BY <1>6, <2>1
  <2>3. done(f) <=> obj(f).tx = <<>> /\ allowfinalcmd
    BY <1>3 DEF Finished
  <2> HIDE DEF last, done, left, pkt, obj
  <2>4. w.ok /\ w.ctx = last
    BY <2>2
  <2>5. r.ctx = w.ctx /\ r.ret = IF ~w.ok THEN -1 ELSE IF done(f) THEN 1 ELSE 0
    BY <2>1
  <2>6. QED
    BY <2>3, <2>4, <2>5 DEF last
<1>8. /\ SetObject(c, obj(f)) \in CtxOf(h)
      /\ Is(SetObject(c, obj(f)), c.self.mode, c.self.state, obj(f), c.frames, c.input,
            c.out, c.seen)
  BY <1>2, SetObjectIs
<1>9. r.ctx \in CtxOf(h)
  BY ObjectSendCtx DEF Linked
<1> HIDE DEF obj, pkt
<1>10. Is(r.ctx, c.self.mode, c.self.state, obj(f), c.frames, c.input,
          Append(c.out, pkt(f)), c.seen)
  BY <1>7, <1>8 DEF Is, CtxOf
<1>11. QED
  BY <1>2, <1>4, <1>5, <1>7, <1>9, <1>10

LEMMA ObjectReceiveIs ==
  ASSUME Calm, NEW h \in Handles, NEW c \in CtxOf(h), c.self.object \in Object,
         NEW pkt \in PacketFrom(Peer(h)), NEW r \in ObjectReceive(c, pkt)
  PROVE  /\ r.ok /\ r.ctx \in CtxOf(h)
         /\ \E o \in Object :
              /\ o = [c.self.object EXCEPT !.rx =
                        IF pkt.n = 0 THEN @ ELSE Append(@, <<pkt.id, pkt.n>>)]
              /\ Is(r.ctx, c.self.mode, c.self.state, o, c.frames, c.input, c.out, c.seen)
<1> DEFINE o  == c.self.object
           rx == IF pkt.n = 0 THEN o.rx ELSE Append(o.rx, <<pkt.id, pkt.n>>)
           p  == [o EXCEPT !.rx = rx]
<1>1. rx \in Seq(Ids \X Nat)
  <2>1. <<pkt.id, pkt.n>> \in Ids \X Nat
    BY DEF PacketFrom
  <2>2. o.rx \in Seq(Ids \X Nat)
    BY DEF Object
  <2>3. QED
    BY <2>1, <2>2, AppendProperties
<1>2. p \in Object
  BY <1>1 DEF Object
<1>3. r = [ok |-> TRUE, ctx |-> SetObject(c, p)]
  BY DEF ObjectReceive, Calm
<1>4. p = [c.self.object EXCEPT !.rx =
             IF pkt.n = 0 THEN @ ELSE Append(@, <<pkt.id, pkt.n>>)]
  BY DEF Object
<1> HIDE DEF p
<1>5. /\ SetObject(c, p) \in CtxOf(h)
      /\ Is(SetObject(c, p), c.self.mode, c.self.state, p, c.frames, c.input, c.out, c.seen)
  BY <1>2, SetObjectIs
<1>6. QED
  BY <1>2, <1>3, <1>4, <1>5

(* The fragments of a request.                                             *)
LEMMA FragmentsLen ==
  ASSUME NEW id, NEW n \in Nat
  PROVE  Len(Fragments(id, n)) = n /\ Fragments(id, 0) = <<>>
         /\ Fragments(id, n) \in Seq({id} \X Nat)
BY EmptySeq DEF Fragments

LEMMA FragmentsAppend ==
  ASSUME NEW id \in Nat, NEW n \in Nat
  PROVE  Append(Fragments(id, n), <<id, n + 1>>) = Fragments(id, n + 1)
<1> DEFINE s == Fragments(id, n)
           t == Append(s, <<id, n + 1>>)
<1>1. /\ s \in Seq(Nat \X Nat) /\ Len(s) = n
      /\ \A i \in 1..n : s[i] = <<id, i>>
  BY DEF Fragments
<1>2. /\ t \in Seq(Nat \X Nat) /\ Len(t) = n + 1 /\ t[n + 1] = <<id, n + 1>>
      /\ \A i \in 1..n : t[i] = s[i]
  BY <1>1, AppendProperties
<1>3. /\ Fragments(id, n + 1) \in Seq(Nat \X Nat) /\ Len(Fragments(id, n + 1)) = n + 1
      /\ \A i \in 1..n + 1 : Fragments(id, n + 1)[i] = <<id, i>>
  BY DEF Fragments
<1> HIDE DEF s, t
<1>4. \A i \in 1..n + 1 : t[i] = Fragments(id, n + 1)[i]
  <2>1. \A i \in 1..n + 1 : i \in 1..n \/ i = n + 1
    OBVIOUS
  <2>2. \A i \in 1..n : i \in 1..n + 1 /\ t[i] = <<id, i>>
    BY <1>1, <1>2
  <2>3. \A i \in 1..n + 1 : t[i] = <<id, i>>
    BY <1>2, <2>1, <2>2, Zenon
  <2>4. QED
    BY <1>3, <2>3, Zenon
<1>5. t = Fragments(id, n + 1)
  BY <1>2, <1>3, <1>4, SeqEqual
<1>6. QED
  BY <1>5 DEF s, t

(* What a packet brings is the next of the fragments.                      *)
LEMMA ReceivesNext ==
  ASSUME NEW rx, NEW p, NEW n \in Nat, Now \in Nat, Arrived(rx, p, n), p.id = Now
  PROVE  (IF p.n = 0 THEN rx ELSE Append(rx, <<p.id, p.n>>)) = Fragments(Now, n)
<1>1. CASE p.n = 0
  BY <1>1 DEF Arrived, Carries
<1>2. CASE p.n # 0
  <2>1. p.n = n /\ n - 1 \in Nat /\ (n - 1) + 1 = n /\ rx = Fragments(Now, n - 1)
    BY <1>2 DEF Arrived, Carries
  <2>2. QED
    BY <1>2, <2>1, FragmentsAppend
<1>3. QED
  BY <1>1, <1>2
-----------------------------------------------------------------------------
(* What a step of one side leaves of the invariant.                         *)

SrvDoes(state, o, frames, input, out, events) ==
  /\ obex'[Srv].mode = "SRV" /\ obex'[Srv].state = state /\ P' = o
  /\ obex'[Cli] = obex[Cli] /\ O' = O
  /\ stack'[Srv] = frames /\ stack'[Cli] = stack[Cli]
  /\ chan'[Srv] = input /\ chan'[Cli] = chan[Cli] \o out
  /\ seen'[Srv] = seen[Srv] \cup events /\ seen'[Cli] = seen[Cli]
  /\ UNCHANGED <<crashed, link, nextId>>

CliDoes(mode, state, o, frames, input, out, events) ==
  /\ obex'[Cli].mode = mode /\ obex'[Cli].state = state /\ O' = o
  /\ obex'[Srv] = obex[Srv] /\ P' = P
  /\ stack'[Cli] = frames /\ stack'[Srv] = stack[Srv]
  /\ chan'[Cli] = input /\ chan'[Srv] = chan[Srv] \o out
  /\ seen'[Cli] = seen[Cli] \cup events /\ seen'[Srv] = seen[Srv]
  /\ UNCHANGED <<crashed, link>>

LEMMA SrvCommits ==
  ASSUME IInv, UNCHANGED <<link, nextId>>, NEW c \in CtxOf(Srv),
         NEW state, NEW o, NEW frames, NEW input, NEW out, NEW events,
         Is(c, "SRV", state, o, frames, input, out, events), Commit(Srv, c)
  PROVE  SrvDoes(state, o, frames, input, out, events)
BY HandlesDiffer DEF IInv, TypeOK, Commit, Is, SrvDoes, Handles, O, P

LEMMA CliCommits ==
  ASSUME IInv, UNCHANGED link, NEW c \in CtxOf(Cli),
         NEW mode, NEW state, NEW o, NEW frames, NEW input, NEW out, NEW events,
         Is(c, mode, state, o, frames, input, out, events), Commit(Cli, c)
  PROVE  CliDoes(mode, state, o, frames, input, out, events)
BY HandlesDiffer DEF IInv, TypeOK, Commit, Is, CliDoes, Handles, O, P

(* The types of what the invariant is about.                               *)
LEMMA Types ==
  ASSUME IInv
  PROVE  /\ O \in Object \cup {NULL} /\ P \in Object \cup {NULL}
         /\ Now \in Nat /\ nextId = Now + 1 /\ Now \in Ids
         /\ \A h \in Handles : stack[h] \in Seq(FrameOf(h)) /\ seen[h] \in SUBSET Seen
         /\ chan[Cli] \in Seq(PacketFrom(Srv)) /\ chan[Srv] \in Seq(PacketFrom(Cli))
         /\ Cli \in Handles /\ Srv \in Handles /\ Peer(Cli) = Srv /\ Peer(Srv) = Cli
<1>1. Cli \in Handles /\ Srv \in Handles /\ Peer(Cli) = Srv /\ Peer(Srv) = Cli
  BY HandlesDiffer DEF Handles, Peer
<1>2. /\ obex[Cli] \in SelfOf(Cli) /\ obex[Srv] \in SelfOf(Srv)
      /\ \A h \in Handles : stack[h] \in Seq(FrameOf(h))
      /\ chan[Cli] \in Seq(PacketFrom(Srv)) /\ chan[Srv] \in Seq(PacketFrom(Cli))
  BY <1>1, CtxFields DEF IInv
<1>3. O \in Object \cup {NULL} /\ P \in Object \cup {NULL}
  BY <1>2 DEF SelfOf, O, P
<1>4. nextId \in 1..MaxRequests + 1 /\ MaxRequests \in Nat
  BY BoundsAssumption DEF IInv, TypeOK
<1>5. Now \in Nat /\ nextId = Now + 1 /\ Now \in Ids
  BY <1>4 DEF Now, Ids
<1>6. \A h \in Handles : seen[h] \in SUBSET Seen
  BY DEF IInv, TypeOK
<1>7. QED
  BY <1>1, <1>2, <1>3, <1>5, <1>6

(* A callback on top of others, and the one that is left.                  *)
LEMMA AtTop ==
  ASSUME NEW h \in Handles, NEW S, stack[h] \in Seq(S)
  PROVE  /\ stack[h] = <<>> => At(h) = "none"
         /\ stack[h] # <<>> => At(h) = Top(h).at /\ Len(stack[h]) \in 1..Len(stack[h])
         /\ Len(stack[h]) = 1 => Top(h) = stack[h][1]
BY EmptySeq DEF At, InCallback, Top

(* The requests answered, and those of which the applications were told.   *)
LEMMA IdsAnswered ==
  ASSUME NEW h
  PROVE  Exchange!IdsOf(AnswersSeen(h)) = EndedAt(h)
<1> DEFINE ends == {d \in seen[h] : d.ev = "REQDONE"}
<1>1. Exchange!IdsOf(AnswersSeen(h)) = {a.id : a \in {[id |-> e.id, rsp |-> e.rsp] : e \in ends}}
  BY DEF Exchange!IdsOf, AnswersSeen
<1>2. EndedAt(h) = {e.id : e \in ends}
  BY DEF EndedAt
<1> HIDE DEF ends
<1>3. ASSUME NEW i
      PROVE  i \in {a.id : a \in {[id |-> e.id, rsp |-> e.rsp] : e \in ends}}
               <=> i \in {e.id : e \in ends}
  <2>1. ASSUME NEW e \in ends, i = e.id
        PROVE  i \in {a.id : a \in {[id |-> d.id, rsp |-> d.rsp] : d \in ends}}
    <3>1. [id |-> e.id, rsp |-> e.rsp].id = i
      BY <2>1
    <3>2. [id |-> e.id, rsp |-> e.rsp] \in {[id |-> d.id, rsp |-> d.rsp] : d \in ends}
      OBVIOUS
    <3>3. QED
      BY <3>1, <3>2
  <2>2. ASSUME NEW a \in {[id |-> d.id, rsp |-> d.rsp] : d \in ends}, i = a.id
        PROVE  i \in {e.id : e \in ends}
    <3>1. PICK d \in ends : a = [id |-> d.id, rsp |-> d.rsp]
      OBVIOUS
    <3>2. i = d.id
      BY <2>2, <3>1
    <3>3. QED
      BY <3>2
  <2>3. QED
    BY <2>1, <2>2
<1>4. QED
  BY <1>1, <1>2, <1>3

(* Nothing that the exchange is about changes.                             *)
LEMMA SeemsSame ==
  ASSUME Now' = Now, seen'[Cli] = seen[Cli], seen'[Srv] = seen[Srv]
  PROVE  Advances
BY DEF Advances, Seems, Given, AnswersSeen

(* What is told of the end of a request is told once.                      *)
LEMMA StaysDistinct ==
  ASSUME NEW events, Distinct(events), NEW e,
         \A d \in events : d.ev = "REQDONE" => d.id # e.id
  PROVE  Distinct(events \cup {e})
BY DEF Distinct

(* The history of a step that tells nothing of the end of a request.       *)
LEMMA ToldSame ==
  ASSUME IInv, Told, Now' = Now, O # NULL, O' # NULL,
         seen'[Cli] = seen[Cli], seen'[Srv] = seen[Srv],
         P' = NULL \/ P # NULL \/ Now \notin EndedAt(Srv)
  PROVE  Retold
<1>1. EndedAt(Cli)' = EndedAt(Cli) /\ EndedAt(Srv)' = EndedAt(Srv)
  BY DEF EndedAt
<1>2. \A h \in Handles : seen'[h] = seen[h]
  BY DEF Handles
<1>3. P' # NULL => Now \notin EndedAt(Srv)
  BY DEF Told
<1>4. NoEarlyAnswer' /\ AnswerAgrees'
  BY DEF Told, NoEarlyAnswer, AnswerAgrees
<1>5. Told'
  BY <1>1, <1>2, <1>3, <1>4 DEF Told
<1>6. QED
  BY <1>5, SeemsSame DEF Retold

(* The serving application is given the request.                           *)
LEMMA ToldRequest ==
  ASSUME IInv, Told, Now' = Now, O # NULL, O' # NULL, Now # 0, P # NULL,
         NEW rsp, NEW q, NEW n \in Nat, q # NULL, q.id = Now, q.rx = Fragments(Now, n),
         seen'[Cli] = seen[Cli], seen'[Srv] = seen[Srv] \cup Notes("REQ", rsp, q)
  PROVE  Retold /\ Served'
<1> DEFINE e == Note("REQ", rsp, q)
<1>1. e.ev = "REQ" /\ e.id = Now /\ e.rx = Fragments(Now, n)
  BY DEF Note
<1>2. seen'[Srv] = seen[Srv] \cup {e}
  BY DEF Notes
<1> HIDE DEF e
<1>3. EndedAt(Cli)' = EndedAt(Cli) /\ EndedAt(Srv)' = EndedAt(Srv)
  BY <1>1, <1>2 DEF EndedAt
<1>4. e.rx = Fragments(e.id, Len(e.rx)) /\ e.id \in 1..Now
  <2>1. Len(Fragments(Now, n)) = n
    BY FragmentsLen
  <2>2. Now \in 1..Now
    BY Types
  <2>3. QED
    BY <1>1, <2>1, <2>2
<1>5. \A h \in Handles : \A d \in seen'[h] : d.id \in 1..Now
  BY <1>2, <1>4 DEF Told, Handles
<1>6. NoEarlyAnswer'
  BY <1>1, <1>2 DEF Told, NoEarlyAnswer
<1>7. AnswerAgrees'
  BY <1>1, <1>2 DEF Told, AnswerAgrees
<1>8. Served'
  BY <1>1, <1>2 DEF Served
<1>9. \A h \in Handles : (\A d \in seen'[h] : d.ev \in {"REQ", "REQDONE"})
                         /\ Distinct(seen'[h])
  BY <1>1, <1>2 DEF Told, Handles, Distinct
<1>10. Told'
  BY <1>1, <1>2, <1>3, <1>4, <1>5, <1>6, <1>7, <1>9 DEF Told
<1>11. Advances
  <2>1. Given' = Given \cup {Now}
    BY <1>1, <1>2 DEF Given
  <2>2. AnswersSeen(Srv)' = AnswersSeen(Srv) /\ AnswersSeen(Cli)' = AnswersSeen(Cli)
    BY <1>1, <1>2 DEF AnswersSeen
  <2>3. CASE Now \in Given
    BY <2>1, <2>2, <2>3 DEF Advances, Seems
  <2>4. CASE Now \notin Given
    <3>1. Now \notin EndedAt(Srv)
      BY DEF Told
    <3>2. Exchange!Serve
      BY <2>1, <2>2, <2>4, <3>1, IdsAnswered DEF Exchange!Serve, Given, Now
    <3>3. QED
      BY <3>2 DEF Advances, Exchange!Next
  <2>5. QED
    BY <2>3, <2>4
<1>12. QED
  BY <1>8, <1>10, <1>11 DEF Retold

(* The server's answer is complete.                                        *)
LEMMA ToldAnswer ==
  ASSUME IInv, Told, Now' = Now, O # NULL, O' # NULL, Now # 0, P' = NULL,
         NEW rsp \in Rsps, NEW q, q # NULL, q.id = Now, rsp = "SUCCESS" => Served,
         Now \notin EndedAt(Srv),
         seen'[Cli] = seen[Cli], seen'[Srv] = seen[Srv] \cup Notes("REQDONE", rsp, q)
  PROVE  /\ Retold /\ (Served' <=> Served)
         /\ \E e \in seen'[Srv] :
              e.ev = "REQDONE" /\ e.id = Now /\ e.rsp = rsp /\ e.n = q.n
<1> DEFINE e == Note("REQDONE", rsp, q)
<1>1. e.ev = "REQDONE" /\ e.id = Now /\ e.rsp = rsp /\ e.n = q.n
  BY DEF Note
<1>2. seen'[Srv] = seen[Srv] \cup {e}
  BY DEF Notes, Ends
<1> HIDE DEF e
<1>3. EndedAt(Cli)' = EndedAt(Cli)
  BY DEF EndedAt
<1>4. \A h \in Handles : \A d \in seen'[h] : d.id \in 1..Now
  BY <1>1, <1>2, Types DEF Told, Handles
<1>5. Served' <=> Served
  BY <1>1, <1>2 DEF Served
<1>6. NoEarlyAnswer'
  <2>1. e.rsp = "SUCCESS" => \E f \in seen[Srv] : f.ev = "REQ" /\ f.id = e.id
    BY <1>1 DEF Served
  <2>2. QED
    BY <1>1, <1>2, <2>1 DEF Told, NoEarlyAnswer
<1>7. AnswerAgrees'
  BY <1>1, <1>2 DEF Told, AnswerAgrees
<1>8. \A d \in seen'[Srv] : d.ev = "REQ" => d.rx = Fragments(d.id, Len(d.rx))
  BY <1>1, <1>2 DEF Told
<1>9. \A h \in Handles : (\A d \in seen'[h] : d.ev \in {"REQ", "REQDONE"})
                         /\ Distinct(seen'[h])
  <2>1. \A d \in seen[Srv] : d.ev = "REQDONE" => d.id # e.id
    BY <1>1 DEF EndedAt
  <2>2. Distinct(seen[Srv]) /\ Distinct(seen[Cli])
    BY DEF Told, Handles
  <2>3. Distinct(seen'[Srv])
    BY <1>2, <2>1, <2>2, StaysDistinct
  <2>4. QED
    BY <1>1, <1>2, <2>2, <2>3 DEF Told, Handles
<1>10. Told'
  BY <1>1, <1>2, <1>3, <1>4, <1>5, <1>6, <1>7, <1>8, <1>9 DEF Told
<1>11. Advances
  <2>1. AnswersSeen(Srv)' = AnswersSeen(Srv) \cup {[id |-> Now, rsp |-> rsp]}
    BY <1>1, <1>2 DEF AnswersSeen
  <2>2. Given' = Given /\ AnswersSeen(Cli)' = AnswersSeen(Cli)
    BY <1>1, <1>2 DEF AnswersSeen, Given
  <2>3. rsp = "SUCCESS" => Now \in Given
    BY DEF Given, Served
  <2>4. Exchange!Reply(rsp)
    BY <2>1, <2>2, <2>3, IdsAnswered DEF Exchange!Reply, Given, Now
  <2>5. QED
    BY <2>4 DEF Advances, Exchange!Next
<1>12. QED
  BY <1>1, <1>2, <1>5, <1>10, <1>11 DEF Retold

(* The requesting application is told the answer.                          *)
LEMMA ToldEnd ==
  ASSUME IInv, Told, Now' = Now, O # NULL, O' = NULL, Now # 0, P = NULL, P' = NULL,
         NEW rsp, NEW q, q # NULL, q.id = Now,
         seen'[Srv] = seen[Srv], seen'[Cli] = seen[Cli] \cup Notes("REQDONE", rsp, q),
         \E f \in seen[Srv] : /\ f.ev = "REQDONE" /\ f.id = Now /\ f.rsp = rsp
                              /\ q.rx = Fragments(Now, f.n)
  PROVE  Retold
<1> DEFINE e == Note("REQDONE", rsp, q)
<1>1. e.ev = "REQDONE" /\ e.id = Now /\ e.rsp = rsp /\ e.rx = q.rx
  BY DEF Note
<1>2. seen'[Cli] = seen[Cli] \cup {e}
  BY DEF Notes, Ends
<1> HIDE DEF e
<1>3. EndedAt(Cli)' = EndedAt(Cli) \cup {Now}
  BY <1>1, <1>2 DEF EndedAt
<1>4. EndedAt(Cli)' = 1..Now
  <2>1. EndedAt(Cli) = 1..(Now - 1)
    BY DEF Told
  <2>2. 1..Now = 1..(Now - 1) \cup {Now}
    BY Types
  <2>3. QED
    BY <1>3, <2>1, <2>2
<1>5. \A h \in Handles : \A d \in seen'[h] : d.id \in 1..Now
  BY <1>1, <1>2, Types DEF Told, Handles
<1>6. NoEarlyAnswer'
  BY DEF Told, NoEarlyAnswer
<1>7. AnswerAgrees'
  <2>1. \E f \in seen[Srv] : /\ f.ev = "REQDONE" /\ f.id = e.id /\ f.rsp = e.rsp
                             /\ e.rx = Fragments(e.id, f.n)
    BY <1>1
  <2>2. QED
    BY <1>2, <2>1 DEF Told, AnswerAgrees
<1>8. \A d \in seen'[Srv] : d.ev = "REQ" => d.rx = Fragments(d.id, Len(d.rx))
  BY DEF Told
<1>9. Now \notin EndedAt(Cli)
  BY Types DEF Told
<1>10. \A h \in Handles : (\A d \in seen'[h] : d.ev \in {"REQ", "REQDONE"})
                          /\ Distinct(seen'[h])
  <2>1. \A d \in seen[Cli] : d.ev = "REQDONE" => d.id # e.id
    BY <1>1, <1>9 DEF EndedAt
  <2>2. Distinct(seen[Srv]) /\ Distinct(seen[Cli])
    BY DEF Told, Handles
  <2>3. Distinct(seen'[Cli])
    BY <1>2, <2>1, <2>2, StaysDistinct
  <2>4. QED
    BY <1>1, <1>2, <2>2, <2>3 DEF Told, Handles
<1>11. Told'
  BY <1>4, <1>5, <1>6, <1>7, <1>8, <1>10 DEF Told
<1>12. Advances
  <2> DEFINE a == [id |-> Now, rsp |-> rsp]
  <2>1. AnswersSeen(Cli)' = AnswersSeen(Cli) \cup {a}
    BY <1>1, <1>2 DEF AnswersSeen
  <2>2. Given' = Given /\ AnswersSeen(Srv)' = AnswersSeen(Srv)
    BY DEF AnswersSeen, Given
  <2>3. a \in AnswersSeen(Srv)
    BY DEF AnswersSeen
  <2>4. a \notin AnswersSeen(Cli)
    BY <1>9 DEF AnswersSeen, EndedAt
  <2> HIDE DEF a
  <2>5. Exchange!Finish
    BY <2>1, <2>2, <2>3, <2>4 DEF Exchange!Finish, Given, Now
  <2>6. QED
    BY <2>5 DEF Advances, Exchange!Next
<1>13. QED
  BY <1>11, <1>12 DEF Retold

(* A new request.                                                          *)
LEMMA ToldNew ==
  ASSUME IInv, Told, Now' = Now + 1, Now < MaxRequests, O = NULL, O' # NULL, P' = NULL,
         seen'[Cli] = seen[Cli], seen'[Srv] = seen[Srv]
  PROVE  Retold /\ ~Served' /\ Now' \notin EndedAt(Srv)'
<1>1. EndedAt(Cli)' = EndedAt(Cli) /\ EndedAt(Srv)' = EndedAt(Srv)
  BY DEF EndedAt
<1>2. \A h \in Handles : seen'[h] = seen[h]
  BY DEF Handles
<1>3. Now \in Nat
  BY Types
<1>4. \A h \in Handles : \A d \in seen[h] : d.id \in 1..Now
  BY DEF Told
<1>5. \A h \in Handles : \A d \in seen'[h] : d.id \in 1..Now' /\ d.id # Now'
  BY <1>2, <1>3, <1>4
<1>6. ~Served' /\ Now' \notin EndedAt(Srv)'
  BY <1>5, Types DEF Served, EndedAt
<1>7. EndedAt(Cli)' = 1..(Now' - 1)
  BY <1>1, <1>3 DEF Told
<1>8. NoEarlyAnswer' /\ AnswerAgrees'
  BY DEF Told, NoEarlyAnswer, AnswerAgrees
<1>9. \A d \in seen'[Srv] : d.ev = "REQ" => d.rx = Fragments(d.id, Len(d.rx))
  BY DEF Told
<1>10. Told'
  BY <1>2, <1>5, <1>6, <1>7, <1>8, <1>9 DEF Told
<1>11. Advances
  <2>1. EndedAt(Cli) = 1..Now
    BY DEF Told
  <2>2. UNCHANGED <<Given, AnswersSeen(Srv), AnswersSeen(Cli)>>
    BY DEF Given, AnswersSeen
  <2>3. Exchange!Issue
    BY <2>1, <2>2, IdsAnswered DEF Exchange!Issue, Given, Now
  <2>4. QED
    BY <2>3 DEF Advances, Exchange!Next
<1>12. QED
  BY <1>6, <1>10, <1>11 DEF Retold

(* The callbacks after a step of the server, and the client it does not    *)
(* touch.                                                                  *)
Fits(top) ==
  CASE top.at = "hint" -> top.ev = "REQHINT"
    [] top.at = "check" -> top.ev = "REQCHECK"
    [] top.at = "req" -> top.ev = "REQ"
    [] OTHER -> top.ev \in {"PROGRESS", "REQDONE"}

LEMMA SrvSteps ==
  ASSUME IInv, Smooth, ClientIs, NEW state, NEW o, NEW frames, NEW input, NEW out,
         NEW events, SrvDoes(state, o, frames, input, out, events),
         frames = <<>> \/ \E top \in FrameOf(Srv) : frames = <<top>> /\ Fits(top)
  PROVE  /\ Smooth' /\ ClientIs' /\ Now' = Now /\ At(Cli)' = At(Cli) /\ O' = O
         /\ Free' <=> Free
         /\ frames = <<>> => At(Srv)' = "none"
         /\ \A top : frames = <<top>> => At(Srv)' = top.at /\ Top(Srv)' = top
<1>1. /\ obex'[Cli] = obex[Cli] /\ O' = O /\ stack'[Srv] = frames
      /\ stack'[Cli] = stack[Cli] /\ UNCHANGED <<crashed, link, nextId>>
  BY DEF SrvDoes
<1>2. Now' = Now
  BY <1>1 DEF Now
<1>3. InCallback(Cli)' = InCallback(Cli) /\ Top(Cli)' = Top(Cli)
  BY <1>1 DEF InCallback, Top
<1>4. At(Cli)' = At(Cli)
  BY <1>3 DEF At
<1>5. ClientIs'
  BY <1>1, <1>2, <1>3, <1>4 DEF ClientIs, Queue
<1>6. frames = <<>> => At(Srv)' = "none"
  BY <1>1 DEF At, InCallback
<1>7. \A top : frames = <<top>> =>
        stack'[Srv] # <<>> /\ Len(stack'[Srv]) = 1 /\ At(Srv)' = top.at /\ Top(Srv)' = top
  BY <1>1 DEF At, InCallback, Top
<1>8. stack'[Srv] # <<>> =>
        Len(stack'[Srv]) = 1 /\ Fits(Top(Srv)')
  BY <1>1, <1>7
<1>9. Smooth'
  BY <1>1, <1>8 DEF Smooth, Fits
<1>10. QED
  BY <1>1, <1>2, <1>4, <1>5, <1>6, <1>7, <1>9 DEF Free

(* The server has sent a part of its answer.                               *)
LEMMA SrvAnswers ==
  ASSUME IInv, InTurn, O # NULL, NEW state, NEW q \in Object, NEW top \in FrameOf(Srv),
         NEW pkt, chan[Cli] = <<>>, Free, Now \notin EndedAt(Srv),
         SrvDoes(state, q, <<top>>, <<>>, <<pkt>>, {}), top.ev = "PROGRESS",
         q # NULL, Queue(q), Codes(q), q.cmd = O.cmd, O.cmd # "CONNECT",
         q.rx = Fragments(Now, O.n), pkt.op = "CONTINUE", pkt.id = Now,
         Arrived(O.rx, pkt, q.n),
         \/ /\ Served /\ O.tx = <<>> /\ state \in {"REC", "SEND"}
            /\ top.at = "sendprogress" \/ (top.at = "resume" /\ top.id = Now)
         \/ /\ ~Served /\ state = "REC" /\ top.at = "done"
            /\ ~q.sent /\ ~q.cont /\ q.tx = <<>> /\ q.n = 0
  PROVE  Turns
<1>1. /\ Smooth' /\ ClientIs' /\ Now' = Now /\ At(Cli)' = At(Cli) /\ O' = O
      /\ Free' /\ At(Srv)' = top.at /\ Top(Srv)' = top
  BY SrvSteps DEF InTurn, Fits
<1>2. /\ P' = q /\ chan'[Srv] = <<>> /\ chan'[Cli] = <<>> \o <<pkt>>
      /\ seen'[Cli] = seen[Cli] /\ seen'[Srv] = seen[Srv]
      /\ obex'[Srv].mode = "SRV" /\ obex'[Srv].state = state
  BY DEF SrvDoes
<1>3. chan'[Cli] = <<pkt>> /\ Len(chan'[Cli]) = 1 /\ chan'[Cli][1] = pkt
  BY <1>2
<1>4. Served' <=> Served
  BY <1>1, <1>2 DEF Served
<1>5. Retold
  BY <1>1, <1>2, ToldSame DEF InTurn
<1>6. ServerIs'
  BY <1>1, <1>2, <1>4 DEF ServerIs, Serving, Asked, Queue
<1>7. Answer(pkt)'
  BY <1>1, <1>2 DEF Answer, Waits, Has, Arrived
<1>8. Turn'
  BY <1>1, <1>2, <1>3, <1>7 DEF Turn
<1>9. QED
  BY <1>1, <1>5, <1>6, <1>8 DEF InTurn, Turns, Retold

(* The server has sent the last of its answer.                             *)
LEMMA SrvEnds ==
  ASSUME IInv, InTurn, O # NULL, NEW state, NEW q \in Object, NEW top \in FrameOf(Srv),
         NEW pkt, chan[Cli] = <<>>, Free, Now \notin EndedAt(Srv),
         SrvDoes(state, NULL, <<top>>, <<>>, <<pkt>>, Notes("REQDONE", pkt.op, q)),
         top.ev = "REQDONE", (top.at = "done" /\ state = "IDLE") \/ top.at = "resumedone",
         q # NULL, q.id = Now, pkt.id = Now, pkt.op # "CONTINUE", pkt.op \in Rsps,
         O.cmd = "CONNECT" /\ pkt.op = "SUCCESS" => pkt.mtu # 0,
         Arrived(O.rx, pkt, q.n), pkt.op = "SUCCESS" => Served
  PROVE  Turns
<1>1. /\ Smooth' /\ ClientIs' /\ Now' = Now /\ At(Cli)' = At(Cli) /\ O' = O
      /\ Free' /\ At(Srv)' = top.at /\ Top(Srv)' = top
  BY SrvSteps DEF InTurn, Fits
<1>2. /\ P' = NULL /\ chan'[Srv] = <<>> /\ chan'[Cli] = <<>> \o <<pkt>>
      /\ seen'[Cli] = seen[Cli] /\ seen'[Srv] = seen[Srv] \cup Notes("REQDONE", pkt.op, q)
      /\ obex'[Srv].mode = "SRV" /\ obex'[Srv].state = state
  BY DEF SrvDoes
<1>3. chan'[Cli] = <<pkt>> /\ Len(chan'[Cli]) = 1 /\ chan'[Cli][1] = pkt
  BY <1>2
<1>4. Now # 0
  BY DEF InTurn, ClientIs
<1>5. /\ Retold /\ (Served' <=> Served)
      /\ \E e \in seen'[Srv] :
           e.ev = "REQDONE" /\ e.id = Now /\ e.rsp = pkt.op /\ e.n = q.n
  BY <1>1, <1>2, <1>4, ToldAnswer DEF InTurn
<1>6. ServerIs'
  BY <1>1, <1>2 DEF ServerIs
<1>7. Answer(pkt)'
  BY <1>1, <1>2, <1>5 DEF Answer, Waits, Arrived
<1>8. Turn'
  BY <1>1, <1>2, <1>3, <1>7 DEF Turn
<1>9. QED
  BY <1>1, <1>5, <1>6, <1>8 DEF InTurn, Turns, Retold

(* The server asks its application, or is held back.                       *)
LEMMA SrvThinks ==
  ASSUME IInv, InTurn, O # NULL, NEW state, NEW q \in Object, NEW frames,
         NEW events, chan[Cli] = <<>>, Free,
         SrvDoes(state, q, frames, <<>>, <<>>, events),
         frames = <<>> \/ \E top \in FrameOf(Srv) : frames = <<top>> /\ Fits(top),
         q # NULL, ServerIs', Think', Retold
  PROVE  Turns
<1>1. /\ Smooth' /\ ClientIs' /\ Now' = Now /\ At(Cli)' = At(Cli) /\ O' = O /\ Free'
  BY SrvSteps DEF InTurn
<1>2. chan'[Srv] = <<>> /\ chan'[Cli] = <<>> \o <<>>
  BY DEF SrvDoes
<1>3. Turn'
  BY <1>1, <1>2 DEF Turn, Quiet
<1>4. QED
  BY <1>1, <1>3 DEF InTurn, Turns, Retold
-----------------------------------------------------------------------------
(* obex_server.                                                             *)

LEMMA CalledFrame ==
  ASSUME NEW h \in Handles, NEW ev \in Events, NEW at \in Labels,
         NEW pkt \in PacketFrom(Peer(h)), NEW o \in Object \cup {NULL}
  PROVE  /\ Called(ev, at, pkt, o) \in FrameOf(h)
         /\ Called(ev, at, pkt, o).ev = ev /\ Called(ev, at, pkt, o).at = at
         /\ Called(ev, at, pkt, o).pkt = pkt
         /\ o # NULL => Called(ev, at, pkt, o).id = o.id
         /\ Append(<<>>, Called(ev, at, pkt, o)) = <<Called(ev, at, pkt, o)>>
<1>1. IdOf(o) \in Ids
  BY IdOfObject
<1>2. o # NULL => IdOf(o) = o.id
  BY DEF IdOf
<1>3. QED
  BY <1>1, <1>2 DEF Called, FrameOf

LEMMA Tells ==
  ASSUME NEW h \in Handles, NEW c \in CtxOf(h), NEW ev \in Events, NEW rsp \in Ops,
         NEW at \in Labels, NEW pkt \in PacketFrom(Peer(h)),
         NEW mode, NEW state, NEW o \in Object, NEW input, NEW out,
         Is(c, mode, state, o, <<>>, input, out, {})
  PROVE  /\ Deliver(c, ev, rsp, at, pkt) \in CtxOf(h)
         /\ Is(Deliver(c, ev, rsp, at, pkt), mode, state, o, <<Called(ev, at, pkt, o)>>,
               input, out, Notes(ev, rsp, o))
         /\ Called(ev, at, pkt, o) \in FrameOf(h)
         /\ Called(ev, at, pkt, o).ev = ev /\ Called(ev, at, pkt, o).at = at
         /\ Called(ev, at, pkt, o).pkt = pkt /\ Called(ev, at, pkt, o).id = o.id
<1>1. o # NULL
  BY NullAssumption
<1>2. {} \cup Notes(ev, rsp, o) = Notes(ev, rsp, o)
  OBVIOUS
<1>3. /\ Called(ev, at, pkt, o) \in FrameOf(h)
      /\ Called(ev, at, pkt, o).ev = ev /\ Called(ev, at, pkt, o).at = at
      /\ Called(ev, at, pkt, o).pkt = pkt /\ Called(ev, at, pkt, o).id = o.id
      /\ Append(<<>>, Called(ev, at, pkt, o)) = <<Called(ev, at, pkt, o)>>
  BY <1>1, CalledFrame
<1>4. /\ c.self.mode = mode /\ c.self.state = state /\ c.self.object = o
      /\ c.frames = <<>> /\ c.input = input /\ c.out = out /\ c.seen = {}
  BY DEF Is
<1>5. /\ Deliver(c, ev, rsp, at, pkt) \in CtxOf(h)
      /\ Is(Deliver(c, ev, rsp, at, pkt), c.self.mode, c.self.state, c.self.object,
            Append(c.frames, Called(ev, at, pkt, c.self.object)), c.input, c.out,
            c.seen \cup Notes(ev, rsp, c.self.object))
  BY DeliverIs
<1>6. QED
  BY <1>2, <1>3, <1>4, <1>5

LEMMA TellsLast ==
  ASSUME NEW h \in Handles, NEW c \in CtxOf(h), NEW ev \in Events, NEW rsp \in Ops,
         NEW at \in Labels,
         NEW mode, NEW state, NEW o \in Object, NEW input, NEW out,
         Is(c, mode, state, o, <<>>, input, out, {})
  PROVE  /\ DeliverLast(c, ev, rsp, at) \in CtxOf(h)
         /\ Is(DeliverLast(c, ev, rsp, at), mode, state, NULL,
               <<Called(ev, at, NoPacket, o)>>, input, out, Notes(ev, rsp, o))
         /\ Called(ev, at, NoPacket, o) \in FrameOf(h)
         /\ Called(ev, at, NoPacket, o).ev = ev /\ Called(ev, at, NoPacket, o).at = at
<1>1. o # NULL /\ NoPacket \in PacketFrom(Peer(h))
  BY NullAssumption, NoPacketFrom, PeerOfPeer
<1>2. {} \cup Notes(ev, rsp, o) = Notes(ev, rsp, o)
  OBVIOUS
<1>3. /\ Called(ev, at, NoPacket, o) \in FrameOf(h)
      /\ Called(ev, at, NoPacket, o).ev = ev /\ Called(ev, at, NoPacket, o).at = at
      /\ Append(<<>>, Called(ev, at, NoPacket, o)) = <<Called(ev, at, NoPacket, o)>>
  BY <1>1, CalledFrame
<1>4. /\ c.self.mode = mode /\ c.self.state = state /\ c.self.object = o
      /\ c.frames = <<>> /\ c.input = input /\ c.out = out /\ c.seen = {}
  BY DEF Is
<1>5. /\ DeliverLast(c, ev, rsp, at) \in CtxOf(h)
      /\ Is(DeliverLast(c, ev, rsp, at), c.self.mode, c.self.state, NULL,
            Append(c.frames, Called(ev, at, NoPacket, c.self.object)), c.input, c.out,
            c.seen \cup Notes(ev, rsp, c.self.object))
  BY DeliverLastIs
<1>6. QED
  BY <1>2, <1>3, <1>4, <1>5

(* A server in the middle of its handler: it has taken the packet.         *)
Mid(c, p) ==
  /\ c \in CtxOf(Srv) /\ p \in Object /\ p # NULL
  /\ Is(c, "SRV", c.self.state, p, <<>>, <<>>, <<>>, {})
  /\ O # NULL /\ Queue(p) /\ Codes(p) /\ p.cmd = O.cmd
  /\ chan[Cli] = <<>> /\ O.rx = Fragments(Now, p.n) /\ Free
  /\ Now \notin EndedAt(Srv)

LEMMA ArrivesNext ==
  ASSUME NEW o, NEW p, NEW n \in Nat, NEW pkt, o.n \in Nat,
         Sends(o, p, n), pkt.n = n, O.rx = Fragments(Now, o.n)
  PROVE  Arrived(O.rx, pkt, p.n)
<1>1. p.n - Carries(n) = o.n
  BY DEF Sends, Carries
<1>2. QED
  BY <1>1 DEF Sends, Arrived

LEMMA ReplyTurn ==
  ASSUME IInv, InTurn, Calm, NEW c, NEW p, Mid(c, p), NEW cmd \in Ops,
         c.self.state \in {"REC", "SEND"}, p.rx = Fragments(Now, O.n),
         p.cmd = "CONNECT" => p.tx = <<>> /\ (p.lastopcode = "SUCCESS" => p.nonhdr),
         \/ Served /\ O.tx = <<>>
         \/ ~Served /\ p.tx = <<>> /\ p.lastopcode # "SUCCESS",
         ServerReply(Srv, c, cmd), UNCHANGED <<link, nextId>>
  PROVE  Turns
<1> DEFINE o  == SetContinue(p)
           c1 == SetObject(c, o)
           f  == c.self.state
<1>1. /\ Srv \in Handles /\ Peer(Srv) = Cli /\ link[Srv] = "up" /\ Now \in Nat
      /\ MtuRx[Srv] # 0
  BY Types, MtuAssumption DEF InTurn, Smooth
<1>2. /\ o \in Object /\ o.id = p.id /\ o.cmd = p.cmd /\ o.opcode = p.opcode
      /\ o.lastopcode = p.lastopcode /\ o.tx = p.tx /\ o.n = p.n /\ o.rx = p.rx
      /\ o.suspend = p.suspend /\ o.abort = p.abort /\ o.sent = p.sent /\ o.cont
      /\ o.nonhdr = p.nonhdr /\ p.n \in Nat /\ o.lastopcode \in Ops
  BY DEF SetContinue, Object, Mid
<1> HIDE DEF o
<1>3. c1 \in CtxOf(Srv) /\ Is(c1, "SRV", f, o, <<>>, <<>>, <<>>, {})
  BY <1>1, <1>2, SetObjectIs DEF Mid, Is
<1> HIDE DEF c1
<1>4. o # NULL /\ O # NULL /\ chan[Cli] = <<>> /\ Free /\ Now \notin EndedAt(Srv)
  BY <1>2, NullAssumption DEF Mid
<1>5. Queue(o) /\ Codes(o) /\ o.cmd = O.cmd /\ O.rx = Fragments(Now, o.n)
  BY <1>2 DEF Mid, Queue, Codes
<1>6. CASE o.suspend /\ Commit(Srv, c1)
  <2>1. SrvDoes(f, o, <<>>, <<>>, <<>>, {})
    BY <1>3, <1>6, SrvCommits
  <2>2. o.tx # <<>> /\ Served /\ O.tx = <<>> /\ o.cmd # "CONNECT"
    BY <1>2, <1>5, <1>6 DEF Queue
  <2>3. /\ Now' = Now /\ O' = O /\ At(Srv)' = "none" /\ P' = o
        /\ seen'[Cli] = seen[Cli] /\ seen'[Srv] = seen[Srv]
        /\ obex'[Srv].mode = "SRV" /\ obex'[Srv].state = f
    <3>1. Now' = Now /\ O' = O /\ At(Srv)' = "none"
      BY <2>1, SrvSteps DEF InTurn
    <3>2. QED
      BY <2>1, <3>1 DEF SrvDoes
  <2>4. Served'
    BY <2>2, <2>3 DEF Served
  <2>5. ServerIs'
    BY <1>2, <1>4, <1>5, <2>2, <2>3, <2>4 DEF ServerIs, Serving, Queue
  <2>6. Think'
    BY <1>2, <1>4, <1>5, <1>6, <2>3 DEF Think, Has
  <2>7. Retold
    BY <1>4, <2>3, ToldSame DEF InTurn
  <2>8. QED
    BY <1>2, <1>4, <2>1, <2>5, <2>6, <2>7, SrvThinks
<1>7. ASSUME ~o.suspend, NEW r \in ObjectSend(Srv, c1, TRUE, TRUE),
        \/ r.ret = 0 /\ Commit(Srv, Deliver(r.ctx, "PROGRESS", cmd, "sendprogress", NoPacket))
        \/ r.ret < 0
        \/ /\ r.ret = 1
           /\ LET c2 == IF cmd = "DISCONNECT" THEN SetMtu(r.ctx, MinimumMtu) ELSE r.ctx
              IN  Commit(Srv, DeliverLast(SetState(c2, "SRV", "IDLE"), "REQDONE",
                                          o.lastopcode, "done"))
      PROVE  Turns
  <2>1. PICK q \in Object, n \in Nat, pkt \in PacketFrom(Srv) :
          /\ Sends(o, q, n)
          /\ r.ret = IF q.tx = <<>> THEN 1 ELSE 0
          /\ pkt.op = IF q.tx = <<>> THEN o.lastopcode ELSE o.opcode
          /\ pkt.id = o.id /\ pkt.n = n
          /\ pkt.mtu = IF o.nonhdr THEN MtuRx[Srv] ELSE 0
          /\ r.ctx \in CtxOf(Srv)
          /\ Is(r.ctx, "SRV", f, q, <<>>, <<>>, <<pkt>>, {})
    <3>1. c1.self.object = o /\ Goes(o.tx) /\ ~o.suspend
      BY <1>3, <1>5, <1>7 DEF Is, Queue
    <3>2. o.lastopcode \in Ops /\ c1.self.object \in Object
      BY <1>2, <3>1
    <3>3. PICK q \in Object, n \in Nat, pkt \in PacketFrom(Srv) :
            /\ Sends(o, q, n)
            /\ r.ret = IF q.tx = <<>> THEN 1 ELSE 0
            /\ pkt.op = IF q.tx = <<>> THEN o.lastopcode ELSE o.opcode
            /\ pkt.id = o.id /\ pkt.n = n
            /\ pkt.mtu = IF o.nonhdr THEN MtuRx[Srv] ELSE 0
            /\ r.ctx \in CtxOf(Srv)
            /\ Is(r.ctx, c1.self.mode, c1.self.state, q, c1.frames, c1.input,
                  Append(c1.out, pkt), c1.seen)
      BY <1>1, <1>3, <1>7, <3>1, <3>2, ObjectSendIs, ZenonT(30)
    <3>4. Append(c1.out, pkt) = <<pkt>>
      BY <1>3 DEF Is
    <3>5. QED
      BY <1>3, <3>3, <3>4 DEF Is
  <2>2. q # NULL /\ Queue(q) /\ q.cmd = O.cmd /\ q.rx = Fragments(Now, O.n) /\ q.id = Now
    <3>1. q # NULL
      BY NullAssumption
    <3>2. QED
      BY <1>2, <1>5, <2>1, <3>1 DEF Sends, Queue, Mid
  <2>3. pkt.id = Now /\ Arrived(O.rx, pkt, q.n)
    BY <1>2, <1>5, <2>1, ArrivesNext DEF Queue
  <2>4. CASE q.tx # <<>> /\ Commit(Srv, Deliver(r.ctx, "PROGRESS", cmd, "sendprogress", NoPacket))
    <3>1. o.tx # <<>> /\ Served /\ O.tx = <<>> /\ o.opcode = "CONTINUE" /\ O.cmd # "CONNECT"
      BY <1>2, <1>5, <2>1, <2>4 DEF Sends, Codes
    <3>2. Codes(q) /\ pkt.op = "CONTINUE"
      BY <1>5, <2>1, <2>4, <3>1 DEF Codes, Sends
    <3> DEFINE top == Called("PROGRESS", "sendprogress", NoPacket, q)
    <3>3. /\ NoPacket \in PacketFrom(Peer(Srv))
          /\ "PROGRESS" \in Events /\ "sendprogress" \in Labels
      BY <1>1, NoPacketFrom, PeerOfPeer DEF Events, Labels
    <3>4. /\ Deliver(r.ctx, "PROGRESS", cmd, "sendprogress", NoPacket) \in CtxOf(Srv)
          /\ Is(Deliver(r.ctx, "PROGRESS", cmd, "sendprogress", NoPacket), "SRV", f, q,
                <<top>>, <<>>, <<pkt>>, Notes("PROGRESS", cmd, q))
          /\ top \in FrameOf(Srv) /\ top.ev = "PROGRESS" /\ top.at = "sendprogress"
      <4>1. r.ctx \in CtxOf(Srv) /\ Is(r.ctx, "SRV", f, q, <<>>, <<>>, <<pkt>>, {})
        BY <2>1
      <4>2. QED
        BY <1>1, <3>3, <4>1, Tells
    <3> HIDE DEF top
    <3>5. SrvDoes(f, q, <<top>>, <<>>, <<pkt>>, {})
      <4>1. Notes("PROGRESS", cmd, q) = {}
        BY DEF Notes, Ends
      <4>2. QED
        BY <2>4, <3>4, <4>1, SrvCommits
    <3>6. /\ Served /\ O.tx = <<>> /\ f \in {"REC", "SEND"}
          /\ top.at = "sendprogress" \/ (top.at = "resume" /\ top.id = Now)
      BY <3>1, <3>4
    <3>7. QED
      BY <1>4, <2>2, <2>3, <3>1, <3>2, <3>4, <3>5, <3>6, SrvAnswers, ZenonT(30)
  <2>5. CASE q.tx = <<>> /\ r.ret = 1
    <3> DEFINE c2 == IF cmd = "DISCONNECT" THEN SetMtu(r.ctx, MinimumMtu) ELSE r.ctx
               c3 == SetState(c2, "SRV", "IDLE")
               top == Called("REQDONE", "done", NoPacket, q)
    <3>1. Commit(Srv, DeliverLast(c3, "REQDONE", o.lastopcode, "done"))
      BY <1>7, <2>5
    <3>2. c2 \in CtxOf(Srv) /\ Is(c2, "SRV", f, q, <<>>, <<>>, <<pkt>>, {})
      BY <1>1, <2>1, MinimumIs DEF Is
    <3> HIDE DEF c2
    <3>3. c3 \in CtxOf(Srv) /\ Is(c3, "SRV", "IDLE", q, <<>>, <<>>, <<pkt>>, {})
      BY <1>1, <3>2, SetStateIs DEF Is
    <3> HIDE DEF c3
    <3>4. "REQDONE" \in Events /\ "done" \in Labels
      BY DEF Events, Labels
    <3>5. /\ DeliverLast(c3, "REQDONE", o.lastopcode, "done") \in CtxOf(Srv)
          /\ Is(DeliverLast(c3, "REQDONE", o.lastopcode, "done"), "SRV", "IDLE", NULL,
                <<top>>, <<>>, <<pkt>>, Notes("REQDONE", o.lastopcode, q))
          /\ top \in FrameOf(Srv) /\ top.ev = "REQDONE" /\ top.at = "done"
      BY <1>1, <1>2, <3>3, <3>4, TellsLast
    <3> HIDE DEF top
    <3>6. pkt.op = o.lastopcode
      BY <2>1, <2>5
    <3>7. SrvDoes("IDLE", NULL, <<top>>, <<>>, <<pkt>>, Notes("REQDONE", pkt.op, q))
      BY <3>1, <3>5, <3>6, SrvCommits
    <3>8. pkt.op # "CONTINUE" /\ pkt.op \in Rsps
      BY <1>5, <3>6 DEF Codes
    <3>9. O.cmd = "CONNECT" /\ pkt.op = "SUCCESS" => pkt.mtu # 0
      BY <1>1, <1>2, <1>5, <2>1, <3>6
    <3>10. pkt.op = "SUCCESS" => Served
      BY <1>2, <3>6
    <3>11. QED
      BY <1>4, <2>2, <2>3, <3>5, <3>7, <3>8, <3>9, <3>10, SrvEnds
  <2>6. QED
    BY <1>7, <2>1, <2>4, <2>5
<1>8. QED
  BY <1>6, <1>7 DEF ServerReply, o, c1, Mid, Is

(* The whole request is there: ask the application, or send the answer.    *)
LEMMA FinalTurn ==
  ASSUME IInv, InTurn, Calm, NEW c, NEW p, Mid(c, p), NEW pkt \in PacketFrom(Cli),
         NEW deny \in BOOLEAN,
         c.self.state = "REC", P # NULL, p.rx = Fragments(Now, O.n), pkt.op = O.cmd,
         p.sent <=> Served,
         p.cmd = "CONNECT" => ~Served /\ p.tx = <<>>,
         deny => ~Served /\ p.tx = <<>> /\ p.lastopcode # "SUCCESS",
         ~deny => O.tx = <<>> /\ (Served => ~HasData(pkt)),
         ServerFinal(Srv, c, pkt, deny), UNCHANGED <<link, nextId>>
  PROVE  Turns
<1> DEFINE q  == [p EXCEPT !.nonhdr = @ \/ pkt.op = "CONNECT"]
           c1 == SetObject(c, q)
           c2 == SetState(c1, "SRV", "SEND")
<1>1. /\ Srv \in Handles /\ Peer(Srv) = Cli /\ Now \in Nat /\ Now # 0
      /\ pkt.op # "ABORT" /\ pkt.op \in Ops /\ pkt.op \in Cmds
  BY Types DEF InTurn, ClientIs, Mid, Ops, Cmds
<1>2. /\ q \in Object /\ q.id = p.id /\ q.cmd = p.cmd /\ q.opcode = p.opcode
      /\ q.lastopcode = p.lastopcode /\ q.tx = p.tx /\ q.n = p.n /\ q.rx = p.rx
      /\ q.suspend = p.suspend /\ q.abort = p.abort /\ q.sent = p.sent /\ q.cont = p.cont
      /\ (pkt.op = "CONNECT" => q.nonhdr) /\ p.n \in Nat /\ O.n \in Nat
  BY Types DEF Object, Mid
<1>3. q # NULL /\ c.self.object = p
  BY <1>2, NullAssumption DEF Mid, Is
<1>4. /\ q.nonhdr = (p.nonhdr \/ pkt.op = "CONNECT")
      /\ [pkt EXCEPT !.n = 0].op = pkt.op
  BY DEF Mid, Object, PacketFrom
<1>5. \/ p.sent /\ ServerSend(Srv, c, [pkt EXCEPT !.n = 0], HasData(pkt))
      \/ /\ ~p.sent /\ ~deny
         /\ Commit(Srv, Deliver(c1, "REQ", pkt.op, "req", pkt))
      \/ ~p.sent /\ deny /\ ServerSend(Srv, c2, pkt, FALSE)
  BY <1>3 DEF ServerFinal
<1> HIDE DEF q
<1>6. c1 \in CtxOf(Srv) /\ Is(c1, "SRV", "REC", q, <<>>, <<>>, <<>>, {})
  BY <1>1, <1>2, SetObjectIs DEF Mid, Is
<1> HIDE DEF c1
<1>7. CASE p.sent /\ ServerSend(Srv, c, [pkt EXCEPT !.n = 0], HasData(pkt))
  <2>1. Served /\ ~deny /\ ~HasData(pkt) /\ O.tx = <<>> /\ p.cmd # "CONNECT"
    BY <1>7
  <2>2. ServerReply(Srv, c, pkt.op)
    BY <1>1, <1>4, <1>7, <2>1 DEF ServerSend
  <2>3. QED
    BY <1>1, <2>1, <2>2, ReplyTurn
<1>8. CASE ~p.sent /\ ~deny /\ Commit(Srv, Deliver(c1, "REQ", pkt.op, "req", pkt))
  <2> DEFINE top == Called("REQ", "req", pkt, q)
  <2>1. "REQ" \in Events /\ "req" \in Labels
    BY DEF Events, Labels
  <2>2. /\ Deliver(c1, "REQ", pkt.op, "req", pkt) \in CtxOf(Srv)
        /\ Is(Deliver(c1, "REQ", pkt.op, "req", pkt), "SRV", "REC", q, <<top>>, <<>>,
              <<>>, Notes("REQ", pkt.op, q))
        /\ top \in FrameOf(Srv) /\ top.ev = "REQ" /\ top.at = "req" /\ top.pkt = pkt
    <3>1. Srv \in Handles /\ pkt \in PacketFrom(Peer(Srv)) /\ q \in Object /\ pkt.op \in Ops
      BY <1>1, <1>2
    <3>2. \A rsp \in Ops :
            /\ Deliver(c1, "REQ", rsp, "req", pkt) \in CtxOf(Srv)
            /\ Is(Deliver(c1, "REQ", rsp, "req", pkt), "SRV", "REC", q, <<top>>, <<>>,
                  <<>>, Notes("REQ", rsp, q))
      BY <1>6, <2>1, <3>1, Tells
    <3>3. top \in FrameOf(Srv) /\ top.ev = "REQ" /\ top.at = "req" /\ top.pkt = pkt
      BY <2>1, <3>1, CalledFrame
    <3>4. QED
      BY <3>1, <3>2, <3>3
  <2> HIDE DEF top
  <2>3. SrvDoes("REC", q, <<top>>, <<>>, <<>>, Notes("REQ", pkt.op, q))
    BY <1>8, <2>2, SrvCommits
  <2>4. Fits(top)
    BY <2>2 DEF Fits
  <2>5. /\ Now' = Now /\ O' = O /\ At(Srv)' = "req" /\ Top(Srv)' = top
    BY <2>2, <2>3, <2>4, SrvSteps DEF InTurn
  <2>6. /\ P' = q /\ seen'[Cli] = seen[Cli]
        /\ seen'[Srv] = seen[Srv] \cup Notes("REQ", pkt.op, q)
        /\ obex'[Srv].mode = "SRV" /\ obex'[Srv].state = "REC"
    BY <2>3 DEF SrvDoes
  <2>7. Queue(q) /\ Codes(q) /\ q.cmd = O.cmd /\ q.id = Now /\ O # NULL
    BY <1>2 DEF Mid, Queue, Codes
  <2>8. Retold /\ Served'
    <3>1. O' # NULL /\ q.rx = Fragments(Now, O.n)
      BY <1>2, <2>5, <2>7
    <3>2. QED
      BY <1>1, <1>2, <1>3, <2>5, <2>6, <2>7, <3>1, ToldRequest DEF InTurn
  <2>9. ServerIs'
    BY <1>1, <1>2, <1>3, <1>8, <2>2, <2>5, <2>6, <2>7, <2>8 DEF ServerIs, Serving, Queue
  <2>10. Think'
    BY <1>2, <1>3, <2>2, <2>5, <2>6, <2>7 DEF Think, Has, Mid
  <2>11. QED
    BY <1>2, <1>3, <2>2, <2>3, <2>4, <2>7, <2>8, <2>9, <2>10, SrvThinks DEF Mid
<1>9. CASE ~p.sent /\ deny /\ ServerSend(Srv, c2, pkt, FALSE)
  <2>1. ServerReply(Srv, c2, pkt.op)
    BY <1>1, <1>9 DEF ServerSend
  <2>2. c2 \in CtxOf(Srv) /\ Is(c2, "SRV", "SEND", q, <<>>, <<>>, <<>>, {})
    BY <1>1, <1>6, SetStateIs DEF Is
  <2> HIDE DEF c2
  <2>3. Mid(c2, q) /\ c2.self.state = "SEND"
    BY <1>2, <1>3, <2>2 DEF Mid, Queue, Codes, Is
  <2>4. QED
    BY <1>1, <1>2, <1>9, <2>1, <2>3, ReplyTurn
<1>10. QED
  BY <1>5, <1>7, <1>8, <1>9

(* The application has seen a first part of the request: ask for more of   *)
(* it, or refuse it.                                                       *)
LEMMA DecideTurn ==
  ASSUME IInv, InTurn, Calm, NEW c, NEW p, Mid(c, p), NEW pkt \in PacketFrom(Cli),
         c.self.state = "REC", P # NULL, p.rx = Fragments(Now, O.n), pkt.op = O.cmd,
         ~Served, ~p.sent, ~p.cont, p.tx = <<>>, p.n = 0, p.cmd # "CONNECT",
         ServerDecide(Srv, c, pkt), UNCHANGED <<link, nextId>>
  PROVE  Turns
<1>1. /\ Srv \in Handles /\ Peer(Srv) = Cli /\ link[Srv] = "up" /\ pkt.op \in Ops
      /\ c.self.object = p /\ p.n \in Nat
  BY Types DEF InTurn, Smooth, Mid, Is, PacketFrom, Object
<1>2. CASE p.opcode \notin {"CONTINUE", "SUCCESS"} /\ ServerFinal(Srv, c, pkt, TRUE)
  <2>1. p.lastopcode # "SUCCESS"
    BY <1>2 DEF Mid, Codes
  <2>2. QED
    BY <1>1, <1>2, <2>1, FinalTurn
<1>3. ASSUME p.opcode \in {"CONTINUE", "SUCCESS"}, NEW r \in ObjectSend(Srv, c, FALSE, TRUE),
             r.ret < 0 \/ Commit(Srv, Deliver(r.ctx, "PROGRESS", pkt.op, "done", NoPacket))
      PROVE  Turns
  <2>1. /\ p.opcode = "CONTINUE" /\ Goes(p.tx) /\ ~p.suspend /\ p \in Object
        /\ c \in CtxOf(Srv) /\ Is(c, "SRV", "REC", p, <<>>, <<>>, <<>>, {})
    BY <1>3 DEF Mid, Codes, Queue
  <2>2. PICK q \in Object, n \in Nat, out \in PacketFrom(Srv) :
          /\ Sends(p, q, n)
          /\ r.ret = 0 /\ out.op = p.opcode /\ out.id = p.id /\ out.n = n
          /\ r.ctx \in CtxOf(Srv)
          /\ Is(r.ctx, "SRV", "REC", q, <<>>, <<>>, <<out>>, {})
    <3>1. PICK q \in Object, n \in Nat, out \in PacketFrom(Srv) :
            /\ Sends(p, q, n)
            /\ r.ret = 0 /\ out.op = p.opcode /\ out.id = p.id /\ out.n = n
            /\ r.ctx \in CtxOf(Srv)
            /\ Is(r.ctx, c.self.mode, c.self.state, q, c.frames, c.input,
                  Append(c.out, out), c.seen)
      BY <1>1, <1>3, <2>1, ObjectSendIs, ZenonT(30)
    <3>2. Append(c.out, out) = <<out>>
      BY <2>1 DEF Is
    <3>3. QED
      BY <2>1, <3>1, <3>2 DEF Is
  <2> DEFINE top == Called("PROGRESS", "done", NoPacket, q)
  <2>3. /\ Deliver(r.ctx, "PROGRESS", pkt.op, "done", NoPacket) \in CtxOf(Srv)
        /\ Is(Deliver(r.ctx, "PROGRESS", pkt.op, "done", NoPacket), "SRV", "REC", q,
              <<top>>, <<>>, <<out>>, Notes("PROGRESS", pkt.op, q))
        /\ top \in FrameOf(Srv) /\ top.ev = "PROGRESS" /\ top.at = "done"
    <3>1. /\ NoPacket \in PacketFrom(Peer(Srv))
          /\ "PROGRESS" \in Events /\ "done" \in Labels
      BY <1>1, NoPacketFrom, PeerOfPeer DEF Events, Labels
    <3>2. r.ctx \in CtxOf(Srv) /\ Is(r.ctx, "SRV", "REC", q, <<>>, <<>>, <<out>>, {})
      BY <2>2
    <3>3. \A rsp \in Ops :
            /\ Deliver(r.ctx, "PROGRESS", rsp, "done", NoPacket) \in CtxOf(Srv)
            /\ Is(Deliver(r.ctx, "PROGRESS", rsp, "done", NoPacket), "SRV", "REC", q,
                  <<top>>, <<>>, <<out>>, Notes("PROGRESS", rsp, q))
      BY <1>1, <3>1, <3>2, Tells
    <3>4. top \in FrameOf(Srv) /\ top.ev = "PROGRESS" /\ top.at = "done"
      BY <1>1, <3>1, CalledFrame
    <3>5. QED
      BY <1>1, <3>3, <3>4
  <2> HIDE DEF top
  <2>4. SrvDoes("REC", q, <<top>>, <<>>, <<out>>, {})
    <3>1. Notes("PROGRESS", pkt.op, q) = {}
      BY DEF Notes, Ends
    <3>2. ~(r.ret < 0)
      BY <2>2
    <3>3. Commit(Srv, Deliver(r.ctx, "PROGRESS", pkt.op, "done", NoPacket))
      BY <1>3, <3>2
    <3>4. QED
      BY <2>3, <3>1, <3>3, SrvCommits
  <2>5. /\ q # NULL /\ Queue(q) /\ q.cmd = O.cmd /\ q.rx = Fragments(Now, O.n)
        /\ Codes(q) /\ out.op = "CONTINUE" /\ out.id = Now
        /\ ~q.sent /\ ~q.cont /\ q.tx = <<>> /\ q.n = 0
    <3>1. q # NULL
      BY NullAssumption
    <3>2. q.tx = <<>> /\ q.n = 0
      BY <1>1, <2>2 DEF Sends, Carries
    <3>3. QED
      BY <1>1, <2>1, <2>2, <3>1, <3>2 DEF Sends, Queue, Mid, Codes
  <2>6. Arrived(O.rx, out, q.n)
    BY <1>1, <2>2, ArrivesNext DEF Mid
  <2>7. O # NULL /\ chan[Cli] = <<>> /\ Free /\ Now \notin EndedAt(Srv) /\ O.cmd # "CONNECT"
    BY DEF Mid
  <2>8. QED
    BY <2>3, <2>4, <2>5, <2>6, <2>7, SrvAnswers, ZenonT(30)
<1>4. QED
  BY <1>1, <1>2, <1>3 DEF ServerDecide

(* A packet of the request is taken in.                                    *)
LEMMA RecTurn ==
  ASSUME IInv, InTurn, Calm, NEW c, NEW p, Mid(c, p), NEW pkt \in PacketFrom(Cli),
         c.self.state = "REC", P # NULL, Requests(pkt), Arrived(p.rx, pkt, O.n),
         Served => ~HasData(pkt) /\ p.sent /\ p.cmd # "CONNECT" /\ O.tx = <<>>,
         ~Served => ~p.sent /\ ~p.cont /\ p.tx = <<>> /\ p.n = 0,
         ServerRec(Srv, c, pkt), UNCHANGED <<link, nextId>>
  PROVE  Turns
<1>1. /\ Srv \in Handles /\ Peer(Srv) = Cli /\ c \in CtxOf(Srv) /\ c.self.object = p
      /\ p \in Object /\ p # NULL /\ O \in Object /\ O # NULL /\ Now \in Nat
      /\ Is(c, "SRV", "REC", p, <<>>, <<>>, <<>>, {})
  BY Types DEF Mid, Is
<1>2. /\ pkt.op = O.cmd /\ O.cmd = p.cmd /\ pkt.id = Now /\ (pkt.final <=> O.tx = <<>>)
      /\ O.cmd # "ABORT" /\ O.cmd \in Ops /\ (O.cmd = "CONNECT" => O.tx = <<>>)
      /\ O.n \in Nat
  BY <1>1 DEF Requests, Mid, InTurn, ClientIs, Cmds, Ops, Object
<1>3. PICK r \in ObjectReceive(c, pkt) :
        \/ ~r.ok
        \/ r.ok /\ pkt.final /\ ServerFinal(Srv, r.ctx, pkt, FALSE)
        \/ /\ r.ok /\ ~pkt.final /\ ~p.checked
           /\ Commit(Srv, Deliver(r.ctx, "REQCHECK", pkt.op, "check", pkt))
        \/ r.ok /\ ~pkt.final /\ p.checked /\ ServerDecide(Srv, r.ctx, pkt)
  <2>1. /\ pkt.op # "ABORT" /\ pkt.op = c.self.object.cmd
    BY <1>1, <1>2
  <2>2. \E r \in ObjectReceive(c, pkt) :
        \/ /\ ~r.ok
           /\ ServerBail(Srv, r.ctx, "BAD_REQUEST", "PARSEERR", "BAD_REQUEST")
        \/ r.ok /\ pkt.final /\ ServerFinal(Srv, r.ctx, pkt, FALSE)
        \/ /\ r.ok /\ ~pkt.final /\ ~c.self.object.checked
           /\ Commit(Srv, Deliver(r.ctx, "REQCHECK", pkt.op, "check", pkt))
        \/ r.ok /\ ~pkt.final /\ c.self.object.checked /\ ServerDecide(Srv, r.ctx, pkt)
    BY <2>1 DEF ServerRec
  <2>3. QED
    BY <1>1, <2>2
<1> DEFINE d == r.ctx
<1>4. PICK q \in Object :
        /\ q = [p EXCEPT !.rx = IF pkt.n = 0 THEN @ ELSE Append(@, <<pkt.id, pkt.n>>)]
        /\ r.ok /\ d \in CtxOf(Srv) /\ Is(d, "SRV", "REC", q, <<>>, <<>>, <<>>, {})
  <2>1. r.ok /\ d \in CtxOf(Srv)
    BY <1>1, ObjectReceiveIs
  <2>2. PICK q \in Object :
        /\ q = [c.self.object EXCEPT !.rx =
                  IF pkt.n = 0 THEN @ ELSE Append(@, <<pkt.id, pkt.n>>)]
        /\ Is(d, c.self.mode, c.self.state, q, c.frames, c.input, c.out, c.seen)
    BY <1>1, ObjectReceiveIs
  <2>3. QED
    BY <1>1, <2>1, <2>2 DEF Is
<1> HIDE DEF d
<1>5. /\ q.id = p.id /\ q.cmd = p.cmd /\ q.opcode = p.opcode /\ q.lastopcode = p.lastopcode
      /\ q.tx = p.tx /\ q.n = p.n /\ q.suspend = p.suspend /\ q.abort = p.abort
      /\ q.sent = p.sent /\ q.cont = p.cont /\ q.nonhdr = p.nonhdr
      /\ q.checked = p.checked
      /\ q.rx = IF pkt.n = 0 THEN p.rx ELSE Append(p.rx, <<pkt.id, pkt.n>>)
  BY <1>1, <1>4 DEF Object
<1>6. q.rx = Fragments(Now, O.n) /\ q # NULL
  <2>1. (IF pkt.n = 0 THEN p.rx ELSE Append(p.rx, <<pkt.id, pkt.n>>)) = Fragments(Now, O.n)
    BY <1>1, <1>2, ReceivesNext
  <2>2. QED
    BY <1>5, <2>1, NullAssumption
<1>7. Mid(d, q) /\ d.self.state = "REC" /\ d.self.object = q
  BY <1>4, <1>5, <1>6 DEF Mid, Is, Queue, Codes
<1>8. CASE pkt.final /\ ServerFinal(Srv, d, pkt, FALSE)
  BY <1>2, <1>5, <1>6, <1>7, <1>8, FinalTurn
<1>9. CASE ~pkt.final /\ ~p.checked /\ Commit(Srv, Deliver(d, "REQCHECK", pkt.op, "check", pkt))
  <2> DEFINE top == Called("REQCHECK", "check", pkt, q)
  <2>1. ~Served /\ O.cmd # "CONNECT"
    BY <1>2, <1>9
  <2>2. /\ Deliver(d, "REQCHECK", pkt.op, "check", pkt) \in CtxOf(Srv)
        /\ Is(Deliver(d, "REQCHECK", pkt.op, "check", pkt), "SRV", "REC", q, <<top>>,
              <<>>, <<>>, {})
        /\ top \in FrameOf(Srv) /\ top.ev = "REQCHECK" /\ top.at = "check" /\ top.pkt = pkt
    <3>1. /\ "REQCHECK" \in Events /\ "check" \in Labels /\ pkt \in PacketFrom(Peer(Srv))
          /\ q \in Object /\ pkt.op \in Ops /\ Srv \in Handles
          /\ d \in CtxOf(Srv) /\ Is(d, "SRV", "REC", q, <<>>, <<>>, <<>>, {})
      BY <1>1, <1>2, <1>4 DEF Events, Labels
    <3>2. \A rsp \in Ops :
            /\ Deliver(d, "REQCHECK", rsp, "check", pkt) \in CtxOf(Srv)
            /\ Is(Deliver(d, "REQCHECK", rsp, "check", pkt), "SRV", "REC", q, <<top>>,
                  <<>>, <<>>, Notes("REQCHECK", rsp, q))
      BY <3>1, Tells
    <3>3. top \in FrameOf(Srv) /\ top.ev = "REQCHECK" /\ top.at = "check" /\ top.pkt = pkt
      BY <1>1, <3>1, CalledFrame
    <3>4. Notes("REQCHECK", pkt.op, q) = {}
      BY DEF Notes, Ends
    <3>5. QED
      BY <3>1, <3>2, <3>3, <3>4
  <2> HIDE DEF top
  <2>3. SrvDoes("REC", q, <<top>>, <<>>, <<>>, {})
    BY <1>9, <2>2, SrvCommits
  <2>4. Fits(top)
    BY <2>2 DEF Fits
  <2>5. Now' = Now /\ O' = O /\ At(Srv)' = "check" /\ Top(Srv)' = top
    BY <2>2, <2>3, <2>4, SrvSteps DEF InTurn
  <2>6. /\ P' = q /\ seen'[Cli] = seen[Cli] /\ seen'[Srv] = seen[Srv]
        /\ obex'[Srv].mode = "SRV" /\ obex'[Srv].state = "REC"
    BY <2>3 DEF SrvDoes
  <2>7. Retold /\ ~Served'
    BY <1>1, <2>1, <2>5, <2>6, ToldSame DEF InTurn, Served
  <2>8. Queue(q) /\ Codes(q) /\ q.cmd = O.cmd /\ O.rx = Fragments(Now, q.n)
    BY <1>7 DEF Mid
  <2>9. ServerIs'
    <3>1. Asked'
      BY <1>5, <2>1, <2>2, <2>5, <2>6 DEF Asked
    <3>2. Queue(q)'
      BY <2>5, <2>8 DEF Queue
    <3>3. QED
      BY <1>1, <1>6, <2>1, <2>5, <2>6, <2>7, <2>8, <3>1, <3>2 DEF ServerIs, Codes
  <2>10. Think'
    BY <1>2, <1>6, <2>2, <2>5, <2>6, <2>8 DEF Think, Has
  <2>11. QED
    BY <1>1, <1>6, <2>2, <2>3, <2>4, <2>7, <2>9, <2>10, SrvThinks DEF Mid
<1>10. CASE ~pkt.final /\ p.checked /\ ServerDecide(Srv, d, pkt)
  <2>1. ~Served /\ O.cmd # "CONNECT"
    BY <1>2, <1>10
  <2>2. QED
    BY <1>2, <1>5, <1>6, <1>7, <1>10, <2>1, DecideTurn
<1>11. QED
  BY <1>3, <1>4, <1>8, <1>9, <1>10 DEF d

(* A new request arrives.                                                  *)
LEMMA IdleTurn ==
  ASSUME IInv, InTurn, Calm, NEW c \in CtxOf(Srv), NEW pkt \in PacketFrom(Cli),
         Is(c, "SRV", "IDLE", NULL, <<>>, <<>>, <<>>, {}), P = NULL, O # NULL,
         chan[Cli] = <<>>, Free, Requests(pkt), First(pkt), O.rx = <<>>,
         Now \notin EndedAt(Srv),
         ServerIdle(Srv, c, pkt), UNCHANGED <<link, nextId>>
  PROVE  Turns
<1> DEFINE q   == NewObject(pkt.id, pkt.op)
           d   == SetObject(c, q)
           top == Called("REQHINT", "hint", pkt, q)
<1>1. /\ Srv \in Handles /\ Peer(Srv) = Cli /\ c.self.object = NULL /\ Now \in Nat
      /\ pkt.op = O.cmd /\ pkt.id = Now /\ O.cmd \in Cmds /\ pkt.op \in Ops /\ pkt.id \in Ids
  BY Types DEF Is, Requests, PacketFrom, InTurn, ClientIs
<1>2. Commit(Srv, Deliver(d, "REQHINT", pkt.op, "hint", pkt))
  BY <1>1 DEF ServerIdle, Calm
<1>3. /\ q \in Object /\ q # NULL /\ q.id = Now /\ q.cmd = O.cmd /\ q.tx = <<>> /\ q.n = 0
      /\ q.opcode = "NOT_IMPLEMENTED" /\ q.lastopcode = "NOT_IMPLEMENTED"
      /\ q.rx = <<>> /\ ~q.abort /\ ~q.suspend /\ ~q.cont /\ ~q.sent
  BY <1>1, NewObjectIsObject, NullAssumption DEF NewObject
<1> HIDE DEF q
<1>4. d \in CtxOf(Srv) /\ Is(d, "SRV", "IDLE", q, <<>>, <<>>, <<>>, {})
  BY <1>1, <1>3, SetObjectIs DEF Is
<1> HIDE DEF d
<1>5. /\ Deliver(d, "REQHINT", pkt.op, "hint", pkt) \in CtxOf(Srv)
      /\ Is(Deliver(d, "REQHINT", pkt.op, "hint", pkt), "SRV", "IDLE", q, <<top>>,
            <<>>, <<>>, {})
      /\ top \in FrameOf(Srv) /\ top.ev = "REQHINT" /\ top.at = "hint" /\ top.pkt = pkt
  <2>1. /\ "REQHINT" \in Events /\ "hint" \in Labels /\ pkt \in PacketFrom(Peer(Srv))
        /\ q \in Object /\ pkt.op \in Ops /\ Srv \in Handles
        /\ d \in CtxOf(Srv) /\ Is(d, "SRV", "IDLE", q, <<>>, <<>>, <<>>, {})
    BY <1>1, <1>3, <1>4 DEF Events, Labels
  <2>2. \A rsp \in Ops :
          /\ Deliver(d, "REQHINT", rsp, "hint", pkt) \in CtxOf(Srv)
          /\ Is(Deliver(d, "REQHINT", rsp, "hint", pkt), "SRV", "IDLE", q, <<top>>,
                <<>>, <<>>, Notes("REQHINT", rsp, q))
    BY <2>1, Tells
  <2>3. top \in FrameOf(Srv) /\ top.ev = "REQHINT" /\ top.at = "hint" /\ top.pkt = pkt
    BY <2>1, CalledFrame
  <2>4. Notes("REQHINT", pkt.op, q) = {}
    BY DEF Notes, Ends
  <2>5. QED
    BY <2>1, <2>2, <2>3, <2>4
<1> HIDE DEF top
<1>6. SrvDoes("IDLE", q, <<top>>, <<>>, <<>>, {})
  BY <1>2, <1>5, SrvCommits
<1>7. Fits(top)
  BY <1>5 DEF Fits
<1>8. Now' = Now /\ O' = O /\ At(Srv)' = "hint" /\ Top(Srv)' = top
  BY <1>5, <1>6, <1>7, SrvSteps DEF InTurn
<1>9. /\ P' = q /\ seen'[Cli] = seen[Cli] /\ seen'[Srv] = seen[Srv]
      /\ obex'[Srv].mode = "SRV" /\ obex'[Srv].state = "IDLE"
  BY <1>6 DEF SrvDoes
<1>10. ~Served' /\ ~Served
  BY <1>8, <1>9 DEF Served, First
<1>11. Retold
  BY <1>8, <1>9, ToldSame DEF InTurn
<1>12. ServerIs'
  <2>1. Asked'
    BY <1>3, <1>8, <1>9 DEF Asked
  <2>2. Queue(q)' /\ Codes(q)'
    BY <1>3, <1>8, EmptySeq DEF Queue, Goes, Kind, Codes, Rsps
  <2>3. QED
    BY <1>3, <1>8, <1>9, <1>10, <2>1, <2>2 DEF ServerIs
<1>13. Think'
  <2>1. O.rx = Fragments(Now, 0)
    BY <1>1, FragmentsLen
  <2>2. Requests(pkt)' /\ First(pkt)'
    BY <1>8, <1>10 DEF Requests, First
  <2>3. QED
    BY <1>3, <1>5, <1>8, <1>9, <2>1, <2>2 DEF Think
<1>14. QED
  BY <1>3, <1>5, <1>6, <1>7, <1>11, <1>12, <1>13, SrvThinks

LEMMA SrvCtx ==
  ASSUME IInv, InTurn
  PROVE  /\ Ctx(Srv) \in CtxOf(Srv) /\ Srv \in Handles
         /\ Is(Ctx(Srv), "SRV", obex[Srv].state, P, stack[Srv], chan[Srv], <<>>, {})
BY Types DEF IInv, Ctx, Is, P, InTurn, ServerIs

(* OBEX_HandleInput of the server, with a packet.                          *)
LEMMA SrvInput ==
  ASSUME IInv, InTurn, Calm, HandleInput(Srv)
  PROVE  Turns
<1> DEFINE pkt == chan[Srv][1]
           c   == [Ctx(Srv) EXCEPT !.input = Tail(@)]
           f   == obex[Srv].state
<1>1. /\ chan[Srv] # <<>> /\ stack[Srv] = <<>> /\ At(Srv) = "none"
      /\ UNCHANGED <<link, nextId>>
  BY DEF HandleInput, InCallback, At
<1>2. /\ O # NULL /\ chan[Cli] = <<>> /\ Len(chan[Srv]) = 1 /\ Ask(pkt) /\ Free
  BY <1>1 DEF InTurn, Turn, Quiet
<1>3. /\ pkt \in PacketFrom(Cli) /\ Head(chan[Srv]) = pkt /\ Tail(chan[Srv]) = <<>>
      /\ chan[Srv] \in Seq(PacketFrom(Cli))
  <2>1. chan[Srv] \in Seq(PacketFrom(Cli))
    BY Types
  <2>2. /\ Tail(chan[Srv]) \in Seq(PacketFrom(Cli)) /\ Len(Tail(chan[Srv])) = 0
        /\ Head(chan[Srv]) = pkt /\ pkt \in PacketFrom(Cli)
    BY <1>1, <1>2, <2>1, HeadTailProperties, ElementOfSeq
  <2>3. QED
    BY <2>1, <2>2, EmptySeq
<1>4. c \in CtxOf(Srv) /\ Is(c, "SRV", f, P, <<>>, <<>>, <<>>, {})
  <2>1. /\ Ctx(Srv) \in CtxOf(Srv)
        /\ Is(Ctx(Srv), "SRV", f, P, <<>>, chan[Srv], <<>>, {})
    BY <1>1, SrvCtx
  <2>2. Tail(Ctx(Srv).input) = <<>>
    BY <1>3, <2>1 DEF Is
  <2>3. <<>> \in Seq(PacketFrom(Peer(Srv)))
    BY EmptySeq
  <2>4. QED
    BY <2>1, <2>2, <2>3 DEF CtxOf, Is
<1>5. Server(Srv, c, pkt)
  BY <1>3, <1>4 DEF HandleInput, Is
<1> HIDE DEF c, pkt
<1>6. /\ c.self.state = f /\ c.self.object = P
      /\ Is(c, "SRV", c.self.state, P, <<>>, <<>>, <<>>, {})
  BY <1>4 DEF Is
<1>7. CASE P = NULL
  <2>1. f = "IDLE"
    BY <1>1, <1>7 DEF InTurn, ServerIs
  <2>2. ServerIdle(Srv, c, pkt)
    BY <1>5, <1>6, <2>1 DEF Server
  <2>3. Requests(pkt) /\ First(pkt) /\ O.rx = <<>> /\ Now \notin EndedAt(Srv)
    BY <1>2, <1>7 DEF Ask
  <2>4. QED
    BY <1>1, <1>2, <1>3, <1>4, <1>7, <2>1, <2>2, <2>3, IdleTurn
<1>8. CASE P # NULL
  <2>1. /\ P \in Object /\ Requests(pkt) /\ Arrived(P.rx, pkt, O.n) /\ pkt.mtu = 0
        /\ (Served => pkt.n = 0) /\ O.rx = Fragments(Now, P.n) /\ ~P.cont
        /\ Now \notin EndedAt(Srv)
    BY <1>1, <1>2, <1>8, Types DEF Ask, Waits, InTurn, Told
  <2>2. /\ Queue(P) /\ Codes(P) /\ P.cmd = O.cmd /\ P.cmd # "CONNECT"
        /\ (IF Served THEN Serving ELSE Asked)
    BY <1>1, <1>8 DEF InTurn, ServerIs
  <2>3. Served => P.sent /\ O.tx = <<>> /\ f \in {"REC", "SEND"} /\ ~HasData(pkt)
    BY <1>1, <2>1, <2>2 DEF Serving, HasData
  <2>4. ~Served => ~P.sent /\ ~P.cont /\ P.tx = <<>> /\ P.n = 0 /\ f = "REC"
    BY <1>1, <2>2 DEF Asked
  <2>5. Mid(c, P)
    BY <1>2, <1>4, <1>6, <1>8, <2>1, <2>2 DEF Mid
  <2>6. CASE f = "REC"
    <3>1. ServerRec(Srv, c, pkt)
      BY <1>5, <1>6, <1>8, <2>6 DEF Server
    <3>2. QED
      BY <1>1, <1>3, <1>6, <1>8, <2>1, <2>2, <2>3, <2>4, <2>5, <2>6, <3>1, RecTurn
  <2>7. CASE f = "SEND"
    <3>1. /\ Served /\ ServerSend(Srv, c, pkt, HasData(pkt)) /\ pkt.op # "ABORT"
          /\ pkt.op \in Ops
      <4>1. ServerSend(Srv, c, pkt, HasData(pkt))
        BY <1>5, <1>6, <1>8, <2>7 DEF Server
      <4>2. pkt.op \in Cmds
        BY <1>2, <2>1 DEF Requests, InTurn, ClientIs
      <4>3. QED
        BY <2>4, <2>7, <4>1, <4>2 DEF Cmds, Ops
    <3>2. ServerReply(Srv, c, pkt.op)
      BY <2>3, <3>1 DEF ServerSend
    <3>3. P.rx = Fragments(Now, O.n)
      <4>1. O.n - Carries(pkt.n) = O.n
        BY <1>2, <2>1, <3>1, Types DEF Carries, Object
      <4>2. QED
        BY <2>1, <4>1 DEF Arrived
    <3>4. QED
      BY <1>1, <1>6, <2>2, <2>3, <2>5, <2>7, <3>1, <3>2, <3>3, ReplyTurn
  <2>8. QED
    BY <2>3, <2>4, <2>6, <2>7
<1>9. QED
  BY <1>7, <1>8

(* The callbacks of the server return.                                     *)
LEMMA SrvPopped ==
  ASSUME IInv, InTurn, NEW at \in Labels, Returning(Srv, at)
  PROVE  /\ Popped(Srv) \in CtxOf(Srv) /\ Top(Srv).pkt \in PacketFrom(Cli)
         /\ Is(Popped(Srv), "SRV", obex[Srv].state, P, <<>>, chan[Srv], <<>>, {})
         /\ At(Srv) = at /\ UNCHANGED <<link, nextId>>
<1>1. /\ Popped(Srv) \in CtxOf(Srv) /\ Top(Srv).pkt \in PacketFrom(Cli)
      /\ Srv \in Handles /\ stack[Srv] \in Seq(FrameOf(Srv))
      /\ Popped(Srv).self = obex[Srv]
  BY Types, PoppedCtx
<1>2. stack[Srv] # <<>> /\ Len(stack[Srv]) = 1
  BY DEF Returning, InCallback, InTurn, Smooth
<1>3. SubSeq(stack[Srv], 1, Len(stack[Srv]) - 1) = <<>>
  BY <1>1, <1>2
<1>4. /\ Ctx(Srv) \in CtxOf(Srv)
      /\ Is(Ctx(Srv), "SRV", obex[Srv].state, P, stack[Srv], chan[Srv], <<>>, {})
  BY SrvCtx
<1>5. Popped(Srv) = [Ctx(Srv) EXCEPT !.frames = <<>>]
  BY <1>3 DEF Popped, Ctx
<1>6. Is(Popped(Srv), "SRV", obex[Srv].state, P, <<>>, chan[Srv], <<>>, {})
  BY <1>4, <1>5 DEF CtxOf, Is
<1>7. At(Srv) = at /\ UNCHANGED <<link, nextId>>
  BY DEF Returning, At
<1>8. QED
  BY <1>1, <1>6, <1>7

LEMMA SrvThinking ==
  ASSUME IInv, InTurn, At(Srv) \in {"hint", "check", "req"}
  PROVE  /\ P \in Object /\ P # NULL /\ O \in Object /\ O # NULL
         /\ chan[Cli] = <<>> /\ chan[Srv] = <<>> /\ Think /\ Free
         /\ Queue(P) /\ Codes(P) /\ P.cmd = O.cmd /\ Now \notin EndedAt(Srv)
         /\ At(Srv) = "req" => Served /\ Serving
         /\ At(Srv) # "req" => ~Served /\ Asked
<1>1. P # NULL
  BY DEF InTurn, ServerIs
<1>2. O # NULL /\ Queue(P) /\ Codes(P) /\ P.cmd = O.cmd /\ (IF Served THEN Serving ELSE Asked)
  BY <1>1 DEF InTurn, ServerIs
<1>3. ~Waits
  BY DEF Waits
<1>4. Quiet /\ Think /\ Free
  BY <1>2, <1>3 DEF InTurn, Turn, Ask, Answer, Hold
<1>5. Now \notin EndedAt(Srv)
  BY <1>1 DEF InTurn, Told
<1>6. QED
  BY <1>1, <1>2, <1>4, <1>5, Types DEF Quiet, Serving, Asked

LEMMA HintTurn ==
  ASSUME IInv, InTurn, Calm, ReturnHint(Srv)
  PROVE  Turns
<1> DEFINE pkt == Top(Srv).pkt
           c   == Popped(Srv)
           d   == IF pkt.op = "CONNECT" THEN ParseConnect(Srv, c, pkt) ELSE c
           e   == SetState(d, "SRV", "REC")
<1>1. Returning(Srv, "hint")
  BY DEF ReturnHint
<1>2. /\ c \in CtxOf(Srv) /\ pkt \in PacketFrom(Cli) /\ At(Srv) = "hint"
      /\ Is(c, "SRV", obex[Srv].state, P, <<>>, chan[Srv], <<>>, {})
      /\ UNCHANGED <<link, nextId>>
  BY <1>1, SrvPopped DEF Labels
<1>3. /\ P \in Object /\ P # NULL /\ O \in Object /\ O # NULL
      /\ chan[Cli] = <<>> /\ chan[Srv] = <<>> /\ Think /\ Free
      /\ Queue(P) /\ Codes(P) /\ P.cmd = O.cmd /\ Now \notin EndedAt(Srv)
      /\ ~Served /\ Asked
  BY <1>2, SrvThinking
<1>4. Requests(pkt) /\ First(pkt) /\ P.rx = <<>> /\ O.rx = Fragments(Now, P.n)
  BY <1>2, <1>3 DEF Think
<1>5. pkt.op = O.cmd /\ O.cmd \in Cmds /\ ~MalformedConnect(pkt)
  BY <1>3, <1>4 DEF Requests, First, InTurn, ClientIs, MalformedConnect, Cmds
<1>6. ServerRec(Srv, e, pkt)
  BY <1>3, <1>5 DEF ReturnHint, HasObject, P
<1> HIDE DEF pkt, c
<1>7. Srv \in Handles /\ Peer(Srv) = Cli /\ Now \in Nat
  BY Types
<1>8. d \in CtxOf(Srv) /\ Is(d, "SRV", obex[Srv].state, P, <<>>, <<>>, <<>>, {})
  BY <1>2, <1>3, <1>7, ParseConnectIs DEF Is
<1> HIDE DEF d
<1>9. e \in CtxOf(Srv) /\ Is(e, "SRV", "REC", P, <<>>, <<>>, <<>>, {})
  BY <1>7, <1>8, SetStateIs DEF Is
<1> HIDE DEF e
<1>10. Arrived(P.rx, pkt, O.n)
  <2>1. O.n - Carries(pkt.n) = 0 /\ pkt.n \in {0, O.n}
    BY <1>3, <1>4 DEF First, Requests, Carries, Object
  <2>2. QED
    BY <1>4, <1>7, <2>1, FragmentsLen DEF Arrived
<1>11. Mid(e, P) /\ e.self.state = "REC"
  BY <1>3, <1>4, <1>9 DEF Mid, Is
<1>12. ~P.sent /\ ~P.cont /\ P.tx = <<>> /\ P.n = 0
  BY <1>3 DEF Asked
<1>13. QED
  BY <1>2, <1>3, <1>4, <1>6, <1>10, <1>11, <1>12, RecTurn

LEMMA CheckTurn ==
  ASSUME IInv, InTurn, Calm, ReturnCheck(Srv)
  PROVE  Turns
<1> DEFINE pkt == Top(Srv).pkt
           c   == Popped(Srv)
           q   == [P EXCEPT !.checked = TRUE]
           d   == SetObject(c, q)
<1>1. Returning(Srv, "check")
  BY DEF ReturnCheck
<1>2. /\ c \in CtxOf(Srv) /\ pkt \in PacketFrom(Cli) /\ At(Srv) = "check"
      /\ Is(c, "SRV", obex[Srv].state, P, <<>>, chan[Srv], <<>>, {})
      /\ UNCHANGED <<link, nextId>>
  BY <1>1, SrvPopped DEF Labels
<1>3. /\ P \in Object /\ P # NULL /\ O \in Object /\ O # NULL
      /\ chan[Cli] = <<>> /\ chan[Srv] = <<>> /\ Think /\ Free
      /\ Queue(P) /\ Codes(P) /\ P.cmd = O.cmd /\ Now \notin EndedAt(Srv)
      /\ ~Served /\ Asked
  BY <1>2, SrvThinking
<1>4. ServerDecide(Srv, d, pkt)
  BY <1>3 DEF ReturnCheck, HasObject, P
<1>5. /\ P.rx = Fragments(Now, O.n) /\ O.rx = Fragments(Now, P.n) /\ pkt.op = O.cmd
      /\ P.cmd # "CONNECT" /\ obex[Srv].state = "REC"
      /\ ~P.sent /\ ~P.cont /\ P.tx = <<>> /\ P.n = 0
  BY <1>2, <1>3 DEF Think, Has, InTurn, ServerIs, Asked
<1>6. /\ q \in Object /\ q.id = P.id /\ q.cmd = P.cmd /\ q.opcode = P.opcode
      /\ q.lastopcode = P.lastopcode /\ q.tx = P.tx /\ q.n = P.n /\ q.rx = P.rx
      /\ q.suspend = P.suspend /\ q.abort = P.abort /\ q.sent = P.sent /\ q.cont = P.cont
  BY <1>3 DEF Object
<1> HIDE DEF pkt, c, q
<1>7. d \in CtxOf(Srv) /\ Is(d, "SRV", "REC", q, <<>>, <<>>, <<>>, {})
  BY <1>2, <1>3, <1>5, <1>6, SetObjectIs, Types DEF Is
<1> HIDE DEF d
<1>8. Mid(d, q) /\ d.self.state = "REC"
  BY <1>3, <1>5, <1>6, <1>7, NullAssumption DEF Mid, Is, Queue, Codes
<1>9. QED
  BY <1>2, <1>3, <1>4, <1>5, <1>6, <1>8, DecideTurn

LEMMA ReqTurn ==
  ASSUME IInv, InTurn, Calm, ReturnReq(Srv)
  PROVE  Turns
<1> DEFINE pkt == Top(Srv).pkt
           c   == Popped(Srv)
           d   == SetState(c, "SRV", "SEND")
<1>1. Returning(Srv, "req")
  BY DEF ReturnReq
<1>2. /\ c \in CtxOf(Srv) /\ pkt \in PacketFrom(Cli) /\ At(Srv) = "req"
      /\ Is(c, "SRV", obex[Srv].state, P, <<>>, chan[Srv], <<>>, {})
      /\ UNCHANGED <<link, nextId>>
  BY <1>1, SrvPopped DEF Labels
<1>3. /\ P \in Object /\ P # NULL /\ O \in Object /\ O # NULL
      /\ chan[Cli] = <<>> /\ chan[Srv] = <<>> /\ Think /\ Free
      /\ Queue(P) /\ Codes(P) /\ P.cmd = O.cmd /\ Now \notin EndedAt(Srv)
      /\ Served /\ Serving
  BY <1>2, SrvThinking
<1>4. /\ P.rx = Fragments(Now, O.n) /\ O.rx = Fragments(Now, P.n) /\ pkt.op = O.cmd
      /\ (P.cmd = "CONNECT" => P.tx = <<>> /\ P.nonhdr) /\ O.tx = <<>>
      /\ pkt.op \in Cmds
  BY <1>2, <1>3 DEF Think, Has, InTurn, ServerIs, ClientIs, Serving
<1>5. pkt.op # "ABORT" /\ pkt.op \in Ops
  BY <1>4 DEF Cmds, Ops
<1>6. ServerReply(Srv, d, pkt.op)
  BY <1>3, <1>5 DEF ReturnReq, HasObject, P, ServerSend
<1> HIDE DEF pkt, c
<1>7. d \in CtxOf(Srv) /\ Is(d, "SRV", "SEND", P, <<>>, <<>>, <<>>, {})
  BY <1>2, <1>3, SetStateIs, Types DEF Is
<1> HIDE DEF d
<1>8. Mid(d, P) /\ d.self.state = "SEND"
  BY <1>3, <1>4, <1>7 DEF Mid, Is
<1>9. QED
  BY <1>2, <1>3, <1>4, <1>5, <1>6, <1>8, ReplyTurn

(* The history of a step that tells nothing at all.                        *)
LEMMA ToldKept ==
  ASSUME Told, Now' = Now, O' = NULL <=> O = NULL, P' # NULL => P # NULL,
         seen'[Cli] = seen[Cli], seen'[Srv] = seen[Srv]
  PROVE  Retold /\ (Served' <=> Served)
<1>1. EndedAt(Cli)' = EndedAt(Cli) /\ EndedAt(Srv)' = EndedAt(Srv)
  BY DEF EndedAt
<1>2. \A h \in Handles : seen'[h] = seen[h]
  BY DEF Handles
<1>3. P' # NULL => Now \notin EndedAt(Srv)
  BY DEF Told
<1>4. NoEarlyAnswer' /\ AnswerAgrees' /\ (Served' <=> Served)
  BY DEF Told, NoEarlyAnswer, AnswerAgrees, Served
<1>5. Told'
  BY <1>1, <1>2, <1>3, <1>4 DEF Told
<1>6. QED
  BY <1>4, <1>5, SeemsSame DEF Retold

(* The server is out of its callbacks.                                     *)
LEMMA SrvIdles ==
  ASSUME IInv, InTurn, NEW state, NEW q \in Object \cup {NULL},
         At(Srv) \in {"done", "sendprogress", "resume", "resumedone"},
         SrvDoes(state, q, <<>>, chan[Srv], <<>>, {}),
         q = NULL <=> P = NULL, q = NULL => state = "IDLE",
         q # NULL =>
           /\ q.id = P.id /\ q.cmd = P.cmd /\ q.opcode = P.opcode
           /\ q.lastopcode = P.lastopcode /\ q.tx = P.tx /\ q.n = P.n /\ q.rx = P.rx
           /\ q.suspend = P.suspend /\ q.abort = P.abort /\ ~q.cont
           /\ IF Served THEN q.sent /\ state \in {"REC", "SEND"}
              ELSE ~q.sent /\ state = "REC"
  PROVE  Turns
<1>1. /\ Smooth' /\ ClientIs' /\ Now' = Now /\ At(Cli)' = At(Cli) /\ O' = O
      /\ (Free' <=> Free) /\ At(Srv)' = "none"
  BY SrvSteps DEF InTurn
<1>2. /\ P' = q /\ chan'[Srv] = chan[Srv] /\ chan'[Cli] = chan[Cli] \o <<>>
      /\ seen'[Cli] = seen[Cli] /\ seen'[Srv] = seen[Srv]
      /\ obex'[Srv].mode = "SRV" /\ obex'[Srv].state = state
  BY DEF SrvDoes
<1>3. chan'[Cli] = chan[Cli]
  BY <1>2, Types
<1>4. Retold /\ (Served' <=> Served)
  BY <1>1, <1>2, ToldKept DEF InTurn
<1>5. ServerIs'
  <2>1. CASE q = NULL
    BY <1>1, <1>2, <2>1 DEF ServerIs
  <2>2. CASE q # NULL
    <3>1. /\ P # NULL /\ O # NULL /\ Queue(P) /\ Codes(P) /\ P.cmd = O.cmd
          /\ (IF Served THEN Serving ELSE Asked) /\ P.cmd # "CONNECT"
      BY <2>2 DEF InTurn, ServerIs
    <3>2. Queue(q)' /\ Codes(q)
      BY <1>1, <2>2, <3>1 DEF Queue, Codes
    <3>3. Served => Serving'
      BY <1>1, <1>2, <2>2, <3>1 DEF Serving
    <3>4. ~Served => Asked'
      BY <1>1, <1>2, <2>2, <3>1 DEF Asked
    <3>5. QED
      BY <1>1, <1>2, <1>4, <2>2, <3>1, <3>2, <3>3, <3>4 DEF ServerIs
  <2>3. QED
    BY <2>1, <2>2
<1>6. Waits' /\ (Has' <=> Has)
  BY <1>1, <1>2 DEF Waits, Has
<1>7. ASSUME NEW p
      PROVE  /\ (Requests(p)' <=> Requests(p)) /\ (First(p)' <=> First(p))
             /\ Arrived(O.rx, p, P.n)' <=> Arrived(O'.rx, p, P'.n)
             /\ Arrived(P.rx, p, O.n)' <=> Arrived(P'.rx, p, O'.n)
             /\ EndedAt(Srv)' = EndedAt(Srv)
  BY <1>1, <1>2, <1>4 DEF Requests, First, Arrived, EndedAt
<1>8. ASSUME NEW p, Ask(p)
      PROVE  Ask(p)'
  BY <1>1, <1>2, <1>4, <1>6, <1>7, <1>8 DEF Ask, Arrived
<1>9. ~Think
  BY DEF Think
<1>10. ASSUME NEW p, Answer(p)
       PROVE  Answer(p)'
  BY <1>1, <1>2, <1>6, <1>10 DEF Answer, Arrived
<1>11. Hold => Hold'
  BY <1>1, <1>2, <1>6 DEF Hold, Has
<1>12. Turn'
  BY <1>1, <1>2, <1>3, <1>8, <1>9, <1>10, <1>11 DEF Turn, Quiet, InTurn
<1>13. QED
  BY <1>1, <1>4, <1>5, <1>12 DEF InTurn, Turns, Retold

LEMMA SrvReturns ==
  ASSUME IInv, InTurn, Calm, Return(Srv)
  PROVE  Turns
<1> DEFINE c == Popped(Srv)
           f == obex[Srv].state
<1>1. /\ Srv \in Handles /\ P \in Object \cup {NULL}
      /\ stack[Srv] # <<>> => At(Srv) = Top(Srv).at
  BY Types, AtTop
<1>2. ASSUME NEW at \in Labels, Returning(Srv, at)
      PROVE  /\ c \in CtxOf(Srv) /\ Is(c, "SRV", f, P, <<>>, chan[Srv], <<>>, {})
             /\ At(Srv) = at /\ UNCHANGED <<link, nextId>>
  BY <1>2, SrvPopped
<1>3. P # NULL => (IF Served THEN Serving ELSE Asked)
  BY DEF InTurn, ServerIs
<1> HIDE DEF c
<1>4. CASE ReturnDone(Srv)
  <2>1. /\ c \in CtxOf(Srv) /\ Is(c, "SRV", f, P, <<>>, chan[Srv], <<>>, {})
        /\ At(Srv) = "done" /\ UNCHANGED <<link, nextId>>
    BY <1>2, <1>4 DEF ReturnDone, Labels
  <2>2. SrvDoes(f, P, <<>>, chan[Srv], <<>>, {})
    BY <1>4, <2>1, SrvCommits DEF ReturnDone, c
  <2>3. P = NULL => f = "IDLE"
    BY <2>1 DEF InTurn, ServerIs
  <2>4. P # NULL => ~Served /\ ~P.cont /\ ~P.sent /\ f = "REC"
    BY <1>3, <2>1 DEF Serving, Asked
  <2>5. QED
    BY <1>1, <2>1, <2>2, <2>3, <2>4, SrvIdles
<1>5. CASE ReturnResumeDone(Srv)
  <2> DEFINE d == SetState(c, "SRV", "IDLE")
  <2>1. /\ c \in CtxOf(Srv) /\ Is(c, "SRV", f, P, <<>>, chan[Srv], <<>>, {})
        /\ At(Srv) = "resumedone" /\ UNCHANGED <<link, nextId>>
    BY <1>2, <1>5 DEF ReturnResumeDone, Labels
  <2>2. P = NULL
    BY <1>3, <2>1 DEF Serving, Asked
  <2>3. d \in CtxOf(Srv) /\ Is(d, "SRV", "IDLE", P, <<>>, chan[Srv], <<>>, {})
    BY <1>1, <2>1, SetStateIs DEF Is
  <2>4. SrvDoes("IDLE", P, <<>>, chan[Srv], <<>>, {})
    BY <1>5, <2>1, <2>3, SrvCommits DEF ReturnResumeDone, c
  <2>5. QED
    BY <1>1, <2>1, <2>2, <2>4, SrvIdles
<1> DEFINE q == [P EXCEPT !.sent = TRUE, !.cont = FALSE]
           s == SetObject(c, q)
<1>6. ASSUME P # NULL, c \in CtxOf(Srv), Is(c, "SRV", f, P, <<>>, chan[Srv], <<>>, {})
      PROVE  /\ q \in Object /\ q # NULL
             /\ q.id = P.id /\ q.cmd = P.cmd /\ q.opcode = P.opcode
             /\ q.lastopcode = P.lastopcode /\ q.tx = P.tx /\ q.n = P.n /\ q.rx = P.rx
             /\ q.suspend = P.suspend /\ q.abort = P.abort /\ ~q.cont /\ q.sent
             /\ s \in CtxOf(Srv) /\ Is(s, "SRV", f, q, <<>>, chan[Srv], <<>>, {})
  <2>1. /\ q \in Object /\ q # NULL
        /\ q.id = P.id /\ q.cmd = P.cmd /\ q.opcode = P.opcode
        /\ q.lastopcode = P.lastopcode /\ q.tx = P.tx /\ q.n = P.n /\ q.rx = P.rx
        /\ q.suspend = P.suspend /\ q.abort = P.abort /\ ~q.cont /\ q.sent
    BY <1>1, <1>6, NullAssumption DEF Object
  <2> HIDE DEF q
  <2>2. s \in CtxOf(Srv) /\ Is(s, "SRV", f, q, <<>>, chan[Srv], <<>>, {})
    BY <1>1, <1>6, <2>1, SetObjectIs DEF Is
  <2>3. QED
    BY <2>1, <2>2
<1>7. CASE ReturnSendProgress(Srv)
  <2>1. /\ c \in CtxOf(Srv) /\ Is(c, "SRV", f, P, <<>>, chan[Srv], <<>>, {})
        /\ At(Srv) = "sendprogress" /\ UNCHANGED <<link, nextId>>
    BY <1>2, <1>7 DEF ReturnSendProgress, Labels
  <2>2. P # NULL
    BY <2>1 DEF InTurn, ServerIs
  <2>3. Served /\ f \in {"REC", "SEND"}
    BY <1>3, <2>1, <2>2 DEF Serving, Asked
  <2>4. Commit(Srv, s)
    BY <1>7, <2>2 DEF ReturnSendProgress, HasObject, P, c
  <2> HIDE DEF q, s
  <2>5. SrvDoes(f, q, <<>>, chan[Srv], <<>>, {})
    BY <1>6, <2>1, <2>2, <2>4, SrvCommits
  <2>6. QED
    BY <1>6, <2>1, <2>2, <2>3, <2>5, SrvIdles
<1>8. CASE ReturnResume(Srv)
  <2> DEFINE d == SetState(s, "SRV", "REC")
  <2>1. /\ c \in CtxOf(Srv) /\ Is(c, "SRV", f, P, <<>>, chan[Srv], <<>>, {})
        /\ At(Srv) = "resume" /\ UNCHANGED <<link, nextId>>
    BY <1>2, <1>8 DEF ReturnResume, Labels
  <2>2. P # NULL /\ Top(Srv).id = Now /\ P.id = Now
    BY <2>1 DEF InTurn, ServerIs, Queue
  <2>3. Served
    BY <1>3, <2>1, <2>2 DEF Asked
  <2>4. Commit(Srv, d)
    <3>1. obex[Srv].mode = "SRV" /\ IdOf(P) = P.id
      BY <2>2 DEF InTurn, ServerIs, IdOf
    <3>2. QED
      BY <1>8, <2>2, <3>1 DEF ReturnResume, HasObject, P, c
  <2> HIDE DEF q, s
  <2>5. d \in CtxOf(Srv) /\ Is(d, "SRV", "REC", q, <<>>, chan[Srv], <<>>, {})
    BY <1>1, <1>6, <2>1, <2>2, SetStateIs DEF Is
  <2> HIDE DEF d
  <2>6. SrvDoes("REC", q, <<>>, chan[Srv], <<>>, {})
    BY <2>1, <2>4, <2>5, SrvCommits
  <2>7. QED
    BY <1>6, <2>1, <2>2, <2>3, <2>6, SrvIdles
<1>9. ASSUME NEW at \in {"start", "continue", "unexpected", "cancel"}, Returning(Srv, at)
      PROVE  FALSE
  <2>1. At(Srv) = at
    BY <1>2, <1>9 DEF Labels
  <2>2. QED
    BY <1>3, <2>1 DEF InTurn, ServerIs, Serving, Asked
<1>10. ~(ReturnStart(Srv) \/ ReturnContinue(Srv) \/ ReturnUnexpected(Srv) \/ ReturnCancel(Srv))
  BY <1>9 DEF ReturnStart, ReturnContinue, ReturnUnexpected, ReturnCancel
<1>11. QED
  BY <1>4, <1>5, <1>7, <1>8, <1>10, HintTurn, CheckTurn, ReqTurn DEF Return
-----------------------------------------------------------------------------
(* The calls of the serving application.                                    *)

LEMMA SrvFrames ==
  ASSUME IInv, Smooth
  PROVE  /\ stack[Srv] = <<>> \/ \E top \in FrameOf(Srv) : stack[Srv] = <<top>> /\ Fits(top)
         /\ At(Srv) # "none" => stack[Srv] = <<Top(Srv)>> /\ Fits(Top(Srv))
<1>1. stack[Srv] \in Seq(FrameOf(Srv))
  BY Types
<1>2. CASE stack[Srv] # <<>>
  <2>1. /\ Len(stack[Srv]) = 1 /\ Top(Srv) = stack[Srv][1] /\ stack[Srv][1] \in FrameOf(Srv)
    <3>1. Len(stack[Srv]) = 1
      BY <1>2 DEF Smooth
    <3>2. Top(Srv) = stack[Srv][1]
      BY <3>1 DEF Top
    <3>3. QED
      BY <1>1, <3>1, <3>2, ElementOfSeq
  <2>2. stack[Srv] = <<Top(Srv)>>
    BY <1>1, <2>1
  <2>3. Fits(Top(Srv))
    BY <1>2 DEF Smooth, Fits
  <2>4. QED
    BY <2>1, <2>2, <2>3
<1>3. CASE stack[Srv] = <<>>
  BY <1>3 DEF At, InCallback
<1>4. QED
  BY <1>2, <1>3

LEMMA SrvChanges ==
  ASSUME IInv, InTurn, NEW q \in Object,
         SrvDoes(obex[Srv].state, q, stack[Srv], chan[Srv], <<>>, {}),
         P # NULL, q # NULL, q.cmd = P.cmd, q.n = P.n, q.rx = P.rx, q.cont = P.cont,
         q.sent = P.sent, q.nonhdr = P.nonhdr, Queue(q), Codes(q),
         ~Served \/ P.cmd = "CONNECT" => q.tx = <<>>,
         P.cont /\ P.suspend => q.suspend
  PROVE  Turns
<1>1. /\ Smooth' /\ ClientIs' /\ Now' = Now /\ O' = O /\ (Free' <=> Free)
  BY SrvFrames, SrvSteps DEF InTurn
<1>2. At(Srv)' = At(Srv) /\ Top(Srv)' = Top(Srv)
  BY DEF SrvDoes, At, Top, InCallback
<1>3. /\ P' = q /\ chan'[Srv] = chan[Srv] /\ chan'[Cli] = chan[Cli] \o <<>>
      /\ seen'[Cli] = seen[Cli] /\ seen'[Srv] = seen[Srv]
      /\ obex'[Srv].mode = "SRV" /\ obex'[Srv].state = obex[Srv].state
  BY DEF SrvDoes, InTurn, ServerIs
<1>4. chan'[Cli] = chan[Cli]
  BY <1>3, Types
<1>5. Retold /\ (Served' <=> Served)
  BY <1>1, <1>3, ToldKept DEF InTurn
<1>6. ServerIs'
  <2>1. /\ O # NULL /\ P.cmd = O.cmd /\ (IF Served THEN Serving ELSE Asked)
        /\ (At(Srv) = "resume" => Top(Srv).id = Now)
        /\ (P.cmd = "CONNECT" => At(Srv) \in {"hint", "req"} /\ (At(Srv) = "req" => P.nonhdr))
    BY DEF InTurn, ServerIs
  <2>2. Queue(q)' /\ Codes(q)'
    BY <1>1 DEF Queue, Codes
  <2>3. Served => Serving'
    BY <1>1, <1>2, <1>3, <2>1 DEF Serving
  <2>4. ~Served => Asked'
    BY <1>1, <1>2, <1>3, <2>1 DEF Asked
  <2>5. QED
    BY <1>1, <1>2, <1>3, <1>5, <2>1, <2>2, <2>3, <2>4 DEF ServerIs
<1>7. (Waits' <=> Waits) /\ (Has' <=> Has)
  BY <1>1, <1>2, <1>3 DEF Waits, Has
<1>8. ASSUME NEW p
      PROVE  (Requests(p)' <=> Requests(p)) /\ (First(p)' <=> First(p))
  BY <1>1, <1>3, <1>5 DEF Requests, First
<1>9. ASSUME NEW p, Ask(p)
      PROVE  Ask(p)'
  BY <1>1, <1>2, <1>3, <1>5, <1>7, <1>8, <1>9 DEF Ask, Arrived
<1>10. Think => Think'
  BY <1>1, <1>2, <1>3, <1>7, <1>8 DEF Think
<1>11. ASSUME NEW p, Answer(p)
       PROVE  Answer(p)'
  BY <1>1, <1>3, <1>7, <1>11 DEF Answer, Arrived
<1>12. Hold => Hold'
  <2>1. At(Cli)' = At(Cli)
    BY DEF SrvDoes, At, Top, InCallback
  <2>2. QED
    BY <1>1, <1>3, <1>7, <2>1 DEF Hold
<1>13. Turn'
  BY <1>1, <1>3, <1>4, <1>9, <1>10, <1>11, <1>12 DEF Turn, Quiet, InTurn
<1>14. QED
  BY <1>1, <1>5, <1>6, <1>13 DEF InTurn, Turns, Retold

(* A call that only changes the object.                                    *)
LEMMA SrvChanged ==
  ASSUME IInv, InTurn, NEW q \in Object, NEW c \in CtxOf(Srv),
         c.self = obex[Srv], c.frames = stack[Srv], c.input = chan[Srv], c.out = <<>>,
         c.seen = {}, Commit(Srv, SetObject(c, q)), UNCHANGED <<link, nextId>>
  PROVE  SrvDoes(obex[Srv].state, q, stack[Srv], chan[Srv], <<>>, {})
<1>1. Is(c, "SRV", obex[Srv].state, P, stack[Srv], chan[Srv], <<>>, {})
  BY DEF Is, P, InTurn, ServerIs
<1>2. /\ SetObject(c, q) \in CtxOf(Srv)
      /\ Is(SetObject(c, q), "SRV", obex[Srv].state, q, stack[Srv], chan[Srv], <<>>, {})
  <2>1. /\ SetObject(c, q) \in CtxOf(Srv)
        /\ Is(SetObject(c, q), c.self.mode, c.self.state, q, c.frames, c.input, c.out, c.seen)
    BY SetObjectIs, Types
  <2>2. QED
    BY <1>1, <2>1 DEF Is
<1>3. QED
  BY <1>2, SrvCommits

LEMMA SetRspTurn ==
  ASSUME IInv, InTurn, Calm, SetRsp(Srv)
  PROVE  Turns
<1>1. /\ P # NULL /\ P \in Object /\ P.tx = <<>> /\ UNCHANGED <<link, nextId>>
      /\ Srv \in Handles
  BY Types DEF SetRsp, HasObject, P
<1> DEFINE accepted == [P EXCEPT !.opcode = "CONTINUE", !.lastopcode = "SUCCESS"]
           refused(rsp) == [P EXCEPT !.opcode = rsp, !.lastopcode = rsp]
<1>2. PICK rsp \in Answers :
        Commit(Srv, SetObject(Ctx(Srv), IF rsp = "SUCCESS" THEN accepted ELSE refused(rsp)))
  BY DEF SetRsp, P
<1> DEFINE q == IF rsp = "SUCCESS" THEN accepted ELSE refused(rsp)
<1>3. rsp \in Rsps /\ rsp # "CONTINUE"
  BY AnswersAssumption DEF Calm
<1>4. /\ q \in Object /\ q # NULL /\ q.id = P.id /\ q.cmd = P.cmd
      /\ q.tx = <<>> /\ q.n = P.n /\ q.rx = P.rx
      /\ q.suspend = P.suspend /\ q.abort = P.abort /\ q.cont = P.cont /\ q.sent = P.sent
      /\ q.nonhdr = P.nonhdr /\ q.lastopcode = rsp
      /\ (rsp = "SUCCESS" => q.opcode = "CONTINUE") /\ (rsp # "SUCCESS" => q.opcode = rsp)
  <2>1. q # NULL /\ q \in Object
    <3>1. {"CONTINUE", "SUCCESS"} \subseteq Ops /\ rsp \in Ops
      BY <1>3 DEF Ops, Rsps
    <3>2. accepted \in Object /\ refused(rsp) \in Object
      BY <1>1, <3>1 DEF Object
    <3>3. QED
      BY <3>2, NullAssumption
  <2>2. CASE rsp = "SUCCESS"
    BY <1>1, <2>1, <2>2 DEF Object
  <2>3. CASE rsp # "SUCCESS"
    BY <1>1, <2>1, <2>3 DEF Object
  <2>4. QED
    BY <2>2, <2>3
<1> HIDE DEF q
<1>5. Queue(q) /\ Codes(q)
  <2>1. Queue(P)
    BY <1>1 DEF InTurn, ServerIs
  <2>2. QED
    BY <1>1, <1>3, <1>4, <2>1 DEF Queue, Codes, Rsps
<1>6. SrvDoes(obex[Srv].state, q, stack[Srv], chan[Srv], <<>>, {})
  <2>1. Ctx(Srv) \in CtxOf(Srv)
    BY SrvCtx
  <2>2. QED
    BY <1>1, <1>2, <1>4, <2>1, SrvChanged DEF Ctx, q
<1>7. QED
  BY <1>1, <1>4, <1>5, <1>6, SrvChanges

LEMMA AddHeadersTurn ==
  ASSUME IInv, InTurn, Calm, AddHeaders(Srv)
  PROVE  Turns
<1>1. /\ P # NULL /\ P \in Object /\ UNCHANGED <<link, nextId>>
      /\ Srv \in Handles /\ stack[Srv] # <<>>
  BY Types DEF AddHeaders, HasObject, InCallback, P
<1>2. /\ Top(Srv).ev = "REQ" /\ P.opcode = "CONTINUE" /\ P.cmd # "CONNECT"
      /\ \E tx \in ResponseQueues \ {<<>>} :
           Commit(Srv, SetObject(Ctx(Srv), [P EXCEPT !.tx = tx]))
  BY DEF AddHeaders, Calm, P
<1>3. PICK tx \in ResponseQueues \ {<<>>} :
        Commit(Srv, SetObject(Ctx(Srv), [P EXCEPT !.tx = tx]))
  BY <1>2
<1> DEFINE q == [P EXCEPT !.tx = tx]
<1>4. tx \in Seq(Kinds) /\ Goes(tx) /\ (Unhindered => Kind(tx))
  BY QueuesAssumption DEF Calm, Unhindered
<1>5. /\ q \in Object /\ q # NULL /\ q.id = P.id /\ q.cmd = P.cmd
      /\ q.tx = tx /\ q.n = P.n /\ q.rx = P.rx
      /\ q.suspend = P.suspend /\ q.abort = P.abort /\ q.cont = P.cont /\ q.sent = P.sent
      /\ q.nonhdr = P.nonhdr /\ q.opcode = P.opcode /\ q.lastopcode = P.lastopcode
  BY <1>1, <1>4, NullAssumption DEF Object
<1> HIDE DEF q
<1>6. At(Srv) = "req"
  <2>1. Fits(Top(Srv)) /\ At(Srv) = Top(Srv).at
    BY <1>1, SrvFrames, Types, AtTop DEF InTurn, Smooth, Fits
  <2>2. QED
    BY <1>2, <2>1 DEF Fits
<1>7. Served
  BY <1>1, <1>6 DEF InTurn, ServerIs, Asked
<1>8. Queue(q) /\ Codes(q)
  <2>1. Queue(P) /\ Codes(P)
    BY <1>1 DEF InTurn, ServerIs
  <2>2. QED
    BY <1>2, <1>3, <1>4, <1>5, <2>1 DEF Queue, Codes
<1>9. SrvDoes(obex[Srv].state, q, stack[Srv], chan[Srv], <<>>, {})
  <2>1. Ctx(Srv) \in CtxOf(Srv)
    BY SrvCtx
  <2>2. QED
    BY <1>1, <1>3, <1>5, <2>1, SrvChanged DEF Ctx, q
<1>10. QED
  BY <1>1, <1>2, <1>5, <1>7, <1>8, <1>9, SrvChanges

LEMMA SrvSuspendTurn ==
  ASSUME IInv, InTurn, Calm, Suspend(Srv)
  PROVE  Turns
<1>1. /\ P # NULL /\ P \in Object /\ UNCHANGED <<link, nextId>> /\ faults < MaxFaults
      /\ Srv \in Handles /\ P.tx # <<>> /\ ~Unhindered
      /\ Commit(Srv, SetObject(Fault(Ctx(Srv)), [P EXCEPT !.suspend = TRUE]))
  BY Types DEF Suspend, HasObject, MayFault, Calm, Unhindered, P
<1> DEFINE q == [P EXCEPT !.suspend = TRUE]
           c == Fault(Ctx(Srv))
<1>2. /\ q \in Object /\ q # NULL /\ q.id = P.id /\ q.cmd = P.cmd
      /\ q.tx = P.tx /\ q.n = P.n /\ q.rx = P.rx
      /\ q.suspend /\ q.abort = P.abort /\ q.cont = P.cont /\ q.sent = P.sent
      /\ q.nonhdr = P.nonhdr /\ q.opcode = P.opcode /\ q.lastopcode = P.lastopcode
  BY <1>1, NullAssumption DEF Object
<1>3. Queue(q) /\ Codes(q) /\ Served /\ P.cmd # "CONNECT"
  <2>1. Queue(P) /\ Codes(P) /\ Served /\ P.cmd # "CONNECT"
    BY <1>1 DEF InTurn, ServerIs, Asked
  <2> HIDE DEF q
  <2>2. QED
    BY <1>1, <1>2, <2>1 DEF Queue, Codes
<1>4. /\ c \in CtxOf(Srv) /\ c.self = obex[Srv] /\ c.frames = stack[Srv]
      /\ c.input = chan[Srv] /\ c.out = <<>> /\ c.seen = {}
  BY <1>1, SrvCtx, FaultCtx DEF Ctx, Fault
<1> HIDE DEF q, c
<1>5. SrvDoes(obex[Srv].state, q, stack[Srv], chan[Srv], <<>>, {})
  BY <1>1, <1>2, <1>4, SrvChanged DEF c, q
<1>6. QED
  BY <1>1, <1>2, <1>3, <1>5, SrvChanges

LEMMA SrvResumeTurn ==
  ASSUME IInv, InTurn, Calm, Resume(Srv)
  PROVE  Turns
<1> DEFINE o == [P EXCEPT !.suspend = FALSE]
           c == SetObject(Ctx(Srv), o)
           f == obex[Srv].state
<1>1. /\ P # NULL /\ P \in Object /\ P.suspend /\ UNCHANGED <<link, nextId>>
      /\ Srv \in Handles /\ Peer(Srv) = Cli /\ link[Srv] = "up"
      /\ O # NULL /\ Queue(P) /\ Codes(P) /\ P.cmd = O.cmd
  BY Types DEF Resume, HasObject, P, InTurn, Smooth, ServerIs
<1>2. stack[Srv] = <<>> /\ At(Srv) = "none"
  BY <1>1 DEF Resume, MayCall, InCallback, Queue, At, Calm
<1>3. /\ Served /\ P.cmd # "CONNECT" /\ O.tx = <<>> /\ f \in {"REC", "SEND"}
      /\ P.sent \/ P.cont
  BY <1>1, <1>2 DEF InTurn, ServerIs, Asked, Serving, Queue
<1>4. \/ o.sent /\ ~o.cont /\ Commit(Srv, c)
      \/ /\ ~o.sent \/ o.cont
         /\ \E r \in ObjectSend(Srv, c, TRUE, FALSE) :
              \/ r.ret < 0
              \/ /\ r.ret = 0
                 /\ Commit(Srv, Deliver(r.ctx, "PROGRESS", o.opcode, "resume", NoPacket))
              \/ /\ r.ret = 1 /\ c.self.mode = "SRV"
                 /\ Commit(Srv, DeliverLast(r.ctx, "REQDONE", o.lastopcode, "resumedone"))
              \/ r.ret = 1 /\ c.self.mode = "CLI"
  BY DEF Resume, P
<1>5. /\ o \in Object /\ o # NULL /\ o.id = P.id /\ o.cmd = P.cmd
      /\ o.tx = P.tx /\ o.n = P.n /\ o.rx = P.rx
      /\ ~o.suspend /\ o.abort = P.abort /\ o.cont = P.cont /\ o.sent = P.sent
      /\ o.nonhdr = P.nonhdr /\ o.opcode = P.opcode /\ o.lastopcode = P.lastopcode
      /\ P.n \in Nat /\ o.opcode \in Ops /\ o.lastopcode \in Ops
  BY <1>1, NullAssumption DEF Object
<1>6. Queue(o) /\ Codes(o)
  <2> HIDE DEF o
  <2>1. QED
    BY <1>1, <1>5 DEF Queue, Codes
<1>7. CASE o.sent /\ ~o.cont /\ Commit(Srv, c)
  <2>1. SrvDoes(f, o, stack[Srv], chan[Srv], <<>>, {})
    <3> HIDE DEF o
    <3>1. Ctx(Srv) \in CtxOf(Srv)
      BY SrvCtx
    <3>2. QED
      BY <1>1, <1>5, <1>7, <3>1, SrvChanged DEF Ctx
  <2> HIDE DEF o
  <2>2. QED
    BY <1>1, <1>3, <1>5, <1>6, <1>7, <2>1, SrvChanges
<1>8. ASSUME P.cont, NEW r \in ObjectSend(Srv, c, TRUE, FALSE),
             \/ r.ret < 0
             \/ /\ r.ret = 0
                /\ Commit(Srv, Deliver(r.ctx, "PROGRESS", o.opcode, "resume", NoPacket))
             \/ /\ r.ret = 1 /\ c.self.mode = "SRV"
                /\ Commit(Srv, DeliverLast(r.ctx, "REQDONE", o.lastopcode, "resumedone"))
             \/ r.ret = 1 /\ c.self.mode = "CLI"
      PROVE  Turns
  <2>1. /\ chan[Srv] = <<>> /\ chan[Cli] = <<>> /\ Free /\ P.rx = Fragments(Now, O.n)
        /\ O.rx = Fragments(Now, P.n) /\ Now \notin EndedAt(Srv)
    <3>1. ~Waits
      BY <1>1, <1>2, <1>8 DEF Waits
    <3>2. Quiet /\ Think /\ Free
      BY <1>1, <3>1 DEF InTurn, Turn, Ask, Answer, Hold
    <3>3. QED
      BY <1>1, <1>2, <3>2 DEF Quiet, Think, Has, InTurn, Told
  <2> HIDE DEF o
  <2>2. c \in CtxOf(Srv) /\ Is(c, "SRV", f, o, <<>>, <<>>, <<>>, {})
    <3>1. /\ Ctx(Srv) \in CtxOf(Srv)
          /\ Is(Ctx(Srv), "SRV", f, P, <<>>, <<>>, <<>>, {})
      BY <1>2, <2>1, SrvCtx
    <3>2. QED
      BY <1>1, <1>5, <3>1, SetObjectIs DEF Is
  <2> HIDE DEF c
  <2>3. PICK q \in Object, n \in Nat, pkt \in PacketFrom(Srv) :
          /\ Sends(o, q, n)
          /\ r.ret = IF q.tx = <<>> THEN 1 ELSE 0
          /\ pkt.op = IF q.tx = <<>> THEN o.lastopcode ELSE o.opcode
          /\ pkt.id = o.id /\ pkt.n = n
          /\ r.ctx \in CtxOf(Srv)
          /\ Is(r.ctx, "SRV", f, q, <<>>, <<>>, <<pkt>>, {})
    <3>1. c.self.object = o /\ Goes(o.tx) /\ ~o.suspend
      BY <1>5, <1>6, <2>2 DEF Is, Queue
    <3>2. c.self.object \in Object
      BY <1>5, <3>1
    <3>3. PICK q \in Object, n \in Nat, pkt \in PacketFrom(Srv) :
            /\ Sends(o, q, n)
            /\ r.ret = IF q.tx = <<>> THEN 1 ELSE 0
            /\ pkt.op = IF q.tx = <<>> THEN o.lastopcode ELSE o.opcode
            /\ pkt.id = o.id /\ pkt.n = n
            /\ r.ctx \in CtxOf(Srv)
            /\ Is(r.ctx, c.self.mode, c.self.state, q, c.frames, c.input,
                  Append(c.out, pkt), c.seen)
      BY <1>1, <1>8, <2>2, <3>1, <3>2, ObjectSendIs, ZenonT(30)
    <3>4. Append(c.out, pkt) = <<pkt>>
      BY <2>2 DEF Is
    <3>5. QED
      BY <2>2, <3>3, <3>4 DEF Is
  <2>4. q # NULL /\ Queue(q) /\ q.cmd = O.cmd /\ q.rx = Fragments(Now, O.n) /\ q.id = Now
    <3>1. q # NULL
      BY NullAssumption
    <3>2. QED
      BY <1>1, <1>5, <1>6, <2>1, <2>3, <3>1 DEF Sends, Queue
  <2>5. pkt.id = Now /\ Arrived(O.rx, pkt, q.n)
    BY <1>1, <1>5, <1>6, <2>1, <2>3, ArrivesNext DEF Queue
  <2>6. c.self.mode = "SRV"
    BY <2>2 DEF Is
  <2>7. CASE q.tx # <<>> /\ r.ret = 0
    <3> DEFINE top == Called("PROGRESS", "resume", NoPacket, q)
    <3>1. Commit(Srv, Deliver(r.ctx, "PROGRESS", o.opcode, "resume", NoPacket))
      BY <1>8, <2>7
    <3>2. o.opcode = "CONTINUE"
      BY <1>6, <2>3, <2>7 DEF Sends, Codes
    <3>3. Codes(q) /\ pkt.op = "CONTINUE"
      BY <1>6, <2>3, <2>7, <3>2 DEF Codes, Sends
    <3>4. /\ Deliver(r.ctx, "PROGRESS", o.opcode, "resume", NoPacket) \in CtxOf(Srv)
          /\ Is(Deliver(r.ctx, "PROGRESS", o.opcode, "resume", NoPacket), "SRV", f, q,
                <<top>>, <<>>, <<pkt>>, {})
          /\ top \in FrameOf(Srv) /\ top.ev = "PROGRESS" /\ top.at = "resume" /\ top.id = Now
      <4>1. /\ NoPacket \in PacketFrom(Peer(Srv))
            /\ "PROGRESS" \in Events /\ "resume" \in Labels
            /\ r.ctx \in CtxOf(Srv) /\ Is(r.ctx, "SRV", f, q, <<>>, <<>>, <<pkt>>, {})
        BY <1>1, <2>3, NoPacketFrom, PeerOfPeer DEF Events, Labels
      <4>2. \A rsp \in Ops :
              /\ Deliver(r.ctx, "PROGRESS", rsp, "resume", NoPacket) \in CtxOf(Srv)
              /\ Is(Deliver(r.ctx, "PROGRESS", rsp, "resume", NoPacket), "SRV", f, q,
                    <<top>>, <<>>, <<pkt>>, Notes("PROGRESS", rsp, q))
        BY <1>1, <4>1, Tells
      <4>3. top \in FrameOf(Srv) /\ top.ev = "PROGRESS" /\ top.at = "resume" /\ top.id = q.id
        BY <1>1, <2>4, <4>1, CalledFrame
      <4>4. Notes("PROGRESS", o.opcode, q) = {}
        BY DEF Notes, Ends
      <4>5. QED
        BY <1>5, <2>4, <4>2, <4>3, <4>4
    <3> HIDE DEF top
    <3>5. SrvDoes(f, q, <<top>>, <<>>, <<pkt>>, {})
      BY <1>1, <3>1, <3>4, SrvCommits
    <3>6. /\ Served /\ O.tx = <<>> /\ f \in {"REC", "SEND"} /\ O.cmd # "CONNECT"
          /\ top.at = "sendprogress" \/ (top.at = "resume" /\ top.id = Now)
      BY <1>1, <1>3, <3>4
    <3>7. QED
      BY <1>1, <2>1, <2>4, <2>5, <3>3, <3>4, <3>5, <3>6, SrvAnswers, ZenonT(30)
  <2>8. CASE q.tx = <<>> /\ r.ret = 1
    <3> DEFINE top == Called("REQDONE", "resumedone", NoPacket, q)
    <3>1. Commit(Srv, DeliverLast(r.ctx, "REQDONE", o.lastopcode, "resumedone"))
      BY <1>8, <2>6, <2>8
    <3>2. /\ "REQDONE" \in Events /\ "resumedone" \in Labels
          /\ r.ctx \in CtxOf(Srv) /\ Is(r.ctx, "SRV", f, q, <<>>, <<>>, <<pkt>>, {})
      BY <2>3 DEF Events, Labels
    <3>3. /\ DeliverLast(r.ctx, "REQDONE", o.lastopcode, "resumedone") \in CtxOf(Srv)
          /\ Is(DeliverLast(r.ctx, "REQDONE", o.lastopcode, "resumedone"), "SRV", f, NULL,
                <<top>>, <<>>, <<pkt>>, Notes("REQDONE", o.lastopcode, q))
          /\ top \in FrameOf(Srv) /\ top.ev = "REQDONE" /\ top.at = "resumedone"
      <4>1. \A rsp \in Ops :
              /\ DeliverLast(r.ctx, "REQDONE", rsp, "resumedone") \in CtxOf(Srv)
              /\ Is(DeliverLast(r.ctx, "REQDONE", rsp, "resumedone"), "SRV", f, NULL,
                    <<top>>, <<>>, <<pkt>>, Notes("REQDONE", rsp, q))
        BY <1>1, <3>2, TellsLast
      <4>2. NoPacket \in PacketFrom(Peer(Srv))
        BY <1>1, NoPacketFrom, PeerOfPeer
      <4>3. top \in FrameOf(Srv) /\ top.ev = "REQDONE" /\ top.at = "resumedone"
        BY <1>1, <3>2, <4>2, CalledFrame
      <4>4. QED
        BY <1>5, <4>1, <4>3
    <3> HIDE DEF top
    <3>4. pkt.op = o.lastopcode
      BY <2>3, <2>8
    <3>5. SrvDoes(f, NULL, <<top>>, <<>>, <<pkt>>, Notes("REQDONE", pkt.op, q))
      BY <1>1, <3>1, <3>3, <3>4, SrvCommits
    <3>6. pkt.op # "CONTINUE" /\ pkt.op \in Rsps /\ O.cmd # "CONNECT"
      BY <1>1, <1>3, <1>6, <3>4 DEF Codes
    <3>7. QED
      BY <1>1, <1>3, <2>1, <2>4, <2>5, <3>3, <3>5, <3>6, SrvEnds
  <2>9. QED
    BY <1>8, <2>3, <2>6, <2>7, <2>8
<1>9. QED
  BY <1>3, <1>4, <1>5, <1>7, <1>8
-----------------------------------------------------------------------------
(* The client.                                                              *)

(* The callbacks after a step of the client.                               *)
Nested(frames) ==
  \A i \in 1..Len(frames) :
    /\ frames[i].ev \in {"PROGRESS", "REQDONE"}
    /\ i < Len(frames) => frames[i].at = "done"
Last(frames) == IF frames = <<>> THEN "none" ELSE frames[Len(frames)].at

LEMMA CliSteps ==
  ASSUME IInv, Smooth, ServerIs, NEW mode, NEW state, NEW o, NEW frames, NEW input,
         NEW out, NEW events, CliDoes(mode, state, o, frames, input, out, events),
         nextId' = nextId, Nested(frames),
         P # NULL => o # NULL /\ o.cmd = O.cmd /\ (Served => o.tx = <<>>)
  PROVE  /\ Smooth' /\ ServerIs' /\ Now' = Now /\ (Served' <=> Served)
         /\ At(Srv)' = At(Srv) /\ Top(Srv)' = Top(Srv) /\ P' = P /\ (Waits' <=> Waits)
         /\ EndedAt(Srv)' = EndedAt(Srv)
         /\ At(Cli)' = Last(frames) /\ (frames # <<>> => Top(Cli)' = frames[Len(frames)])
<1>1. /\ obex'[Srv] = obex[Srv] /\ P' = P /\ O' = o /\ stack'[Cli] = frames
      /\ stack'[Srv] = stack[Srv] /\ seen'[Srv] = seen[Srv] /\ UNCHANGED <<crashed, link>>
  BY DEF CliDoes
<1>2. /\ Now' = Now /\ (Served' <=> Served) /\ EndedAt(Srv)' = EndedAt(Srv)
  BY <1>1 DEF Now, Served, EndedAt
<1>3. At(Srv)' = At(Srv) /\ Top(Srv)' = Top(Srv)
  BY <1>1 DEF At, Top, InCallback
<1>4. At(Cli)' = Last(frames) /\ (frames # <<>> => Top(Cli)' = frames[Len(frames)])
  BY <1>1 DEF At, Top, InCallback, Last
<1>5. Smooth'
  BY <1>1, <1>3 DEF Smooth, Nested
<1>6. P # NULL => (Serving => Serving' \/ ~Served) /\ (Asked => Asked')
  BY <1>1, <1>3 DEF Serving, Asked
<1>7. ServerIs'
  BY <1>1, <1>2, <1>3, <1>6 DEF ServerIs, Queue
<1>8. Waits' <=> Waits
  BY <1>1, <1>3 DEF Waits
<1>9. QED
  BY <1>1, <1>2, <1>3, <1>4, <1>5, <1>7, <1>8

(* The client has sent a part of its request.                              *)
LEMMA CliAsks ==
  ASSUME IInv, InTurn, NEW o \in Object, NEW q \in Object, NEW n \in Nat, NEW pkt, NEW frames,
         CliDoes("CLI", "REC", q, frames, <<>>, <<pkt>>, {}), nextId' = nextId,
         O # NULL, P # NULL, chan[Srv] = <<>>, Waits, Has,
         o # NULL, Queue(o), o.cmd = O.cmd, o.opcode = O.cmd, o.lastopcode = O.cmd,
         o.tx = O.tx, o.n = O.n, o.sent, o.rx = Fragments(Now, P.n),
         q # NULL, Sends(o, q, n), pkt.op = O.cmd, pkt.id = Now,
         pkt.final <=> q.tx = <<>>, pkt.n = n, pkt.mtu = 0,
         \/ frames = <<>> /\ q.tx = <<>> /\ ~Unhindered
         \/ \E top \in FrameOf(Cli) :
              /\ frames = <<top>> /\ top.ev = "PROGRESS" /\ top.id = Now
              /\ top.at \in {"continue", "resume"}
  PROVE  Turns
<1>1. /\ Nested(frames) /\ Last(frames) \in {"none", "continue", "resume"}
      /\ (Last(frames) = "none" => q.tx = <<>> /\ ~Unhindered)
      /\ (frames # <<>> => frames[Len(frames)].id = Now)
  <2>1. CASE frames = <<>> /\ q.tx = <<>> /\ ~Unhindered
    BY <2>1 DEF Nested, Last
  <2>2. ASSUME NEW top \in FrameOf(Cli), frames = <<top>>, top.ev = "PROGRESS",
               top.id = Now, top.at \in {"continue", "resume"}
        PROVE  /\ Nested(frames) /\ Last(frames) = top.at /\ frames[Len(frames)].id = Now
    BY <2>2 DEF Nested, Last
  <2>3. QED
    BY <2>1, <2>2
<1>2. /\ q.id = Now /\ q.cmd = O.cmd /\ q.opcode = O.cmd /\ q.lastopcode = O.cmd
      /\ q.sent /\ ~q.nonhdr /\ q.rx = Fragments(Now, P.n) /\ Queue(q)
      /\ (O.tx = <<>> => n = 0 /\ q.tx = <<>>)
      /\ q.n = O.n + Carries(n) /\ n \in {0, q.n}
  BY DEF Sends, Queue
<1>3. Served => O.tx = <<>>
  BY DEF InTurn, ServerIs, Serving
<1>4. /\ Smooth' /\ ServerIs' /\ Now' = Now /\ (Served' <=> Served)
      /\ P' = P /\ (Waits' <=> Waits)
      /\ At(Cli)' = Last(frames) /\ (frames # <<>> => Top(Cli)' = frames[Len(frames)])
  BY <1>1, <1>2, <1>3, CliSteps DEF InTurn
<1>5. /\ O' = q /\ chan'[Cli] = <<>> /\ chan'[Srv] = <<>> \o <<pkt>>
      /\ seen'[Cli] = seen[Cli] /\ seen'[Srv] = seen[Srv]
      /\ obex'[Cli].mode = "CLI" /\ obex'[Cli].state = "REC"
  BY DEF CliDoes
<1>6. chan'[Srv] = <<pkt>> /\ Len(chan'[Srv]) = 1 /\ chan'[Srv][1] = pkt
  BY <1>5
<1>7. Retold
  BY <1>4, <1>5, ToldKept DEF InTurn
<1>8. ClientIs'
  <2>1. Queue(q)'
    BY <1>2, <1>4 DEF Queue
  <2>2. Now # 0 /\ O.cmd \in Cmds /\ (O.cmd = "CONNECT" => O.tx = <<>>)
    BY DEF InTurn, ClientIs
  <2>3. Last(frames) = "resume" => frames # <<>>
    BY DEF Last
  <2>4. QED
    BY <1>1, <1>2, <1>4, <1>5, <2>1, <2>2, <2>3 DEF ClientIs
<1>9. Arrived(P.rx, pkt, q.n)
  <2>1. q.n - Carries(n) = O.n
    BY <1>2, Types DEF Carries, Object
  <2>2. QED
    BY <1>2, <2>1 DEF Arrived, Has
<1>10. Ask(pkt)'
  <2>1. Requests(pkt)'
    BY <1>2, <1>4, <1>5 DEF Requests
  <2>2. Served => pkt.n = 0
    BY <1>2, <1>3
  <2>3. QED
    BY <1>2, <1>4, <1>5, <1>9, <2>1, <2>2 DEF Ask, Arrived
<1>11. Free'
  BY <1>1, <1>4, <1>5 DEF Free, Unhindered
<1>12. Turn'
  BY <1>5, <1>6, <1>10, <1>11 DEF Turn
<1>13. QED
  BY <1>4, <1>7, <1>8, <1>12 DEF InTurn, Turns, Retold

(* A change of the client that sends nothing.                              *)
LEMMA CliKeeps ==
  ASSUME IInv, InTurn, NEW q \in Object \cup {NULL}, NEW mode, NEW state, NEW frames,
         CliDoes(mode, state, q, frames, chan[Cli], <<>>, {}), nextId' = nextId,
         Nested(frames), q = NULL <=> O = NULL,
         O = NULL => Last(frames) \in {"none", "done"},
         O # NULL =>
           /\ mode = "CLI" /\ state = IF Last(frames) = "start" THEN "START" ELSE "REC"
           /\ Last(frames) \in {"none", "done", "start", "continue", "resume"}
           /\ Last(frames) = "start" => ~q.cont
           /\ Last(frames) = "resume" => frames[Len(frames)].id = Now
           /\ q.cmd = O.cmd /\ q.opcode = O.opcode /\ q.lastopcode = O.lastopcode
           /\ q.tx = O.tx /\ q.n = O.n /\ q.rx = O.rx /\ q.sent /\ ~q.nonhdr
           /\ Queue(q)
           /\ IF Hold THEN Last(frames) = "none" /\ q.cont /\ q.suspend
              ELSE Last(frames) \in {"none", "done"} /\ q.cont =>
                     q.tx = <<>> /\ ~Unhindered
  PROVE  Turns
<1>1. P # NULL => O # NULL /\ (Served => O.tx = <<>>)
  BY DEF InTurn, ServerIs, Serving
<1>2. /\ Smooth' /\ ServerIs' /\ Now' = Now /\ (Served' <=> Served)
      /\ At(Srv)' = At(Srv) /\ Top(Srv)' = Top(Srv) /\ P' = P /\ (Waits' <=> Waits)
      /\ EndedAt(Srv)' = EndedAt(Srv)
      /\ At(Cli)' = Last(frames) /\ (frames # <<>> => Top(Cli)' = frames[Len(frames)])
  BY <1>1, CliSteps DEF InTurn
<1>3. /\ O' = q /\ chan'[Cli] = chan[Cli] /\ chan'[Srv] = chan[Srv] \o <<>>
      /\ seen'[Cli] = seen[Cli] /\ seen'[Srv] = seen[Srv]
      /\ obex'[Cli].mode = mode /\ obex'[Cli].state = state
  BY DEF CliDoes
<1>4. chan'[Srv] = chan[Srv]
  BY <1>3, Types
<1>5. Retold
  BY <1>2, <1>3, ToldKept DEF InTurn
<1>6. CASE O = NULL
  <2>1. ClientIs'
    BY <1>2, <1>3, <1>6 DEF ClientIs
  <2>2. Turn'
    BY <1>2, <1>3, <1>4, <1>6 DEF InTurn, Turn, Quiet
  <2>3. QED
    BY <1>2, <1>5, <2>1, <2>2 DEF InTurn, Turns, Retold
<1>7. CASE O # NULL
  <2>1. ClientIs'
    <3>1. Queue(q)' /\ (Last(frames) = "resume" => frames # <<>>)
      BY <1>2, <1>7 DEF Queue, Last
    <3>2. /\ Now # 0 /\ O.cmd \in Cmds /\ (O.cmd = "CONNECT" => O.tx = <<>>)
          /\ O.opcode = O.cmd /\ O.lastopcode = O.cmd
      BY <1>7 DEF InTurn, ClientIs
    <3>3. QED
      BY <1>2, <1>3, <1>7, <3>1, <3>2 DEF ClientIs
  <2>2. Has' <=> Has
    BY <1>2, <1>3, <1>7 DEF Has
  <2>3. ASSUME NEW p
        PROVE  (Requests(p)' <=> Requests(p)) /\ (First(p)' <=> First(p))
    BY <1>2, <1>3, <1>7 DEF Requests, First
  <2>4. ASSUME NEW p, Ask(p)
        PROVE  Ask(p)'
    BY <1>2, <1>3, <1>7, <2>3, <2>4 DEF Ask, Arrived
  <2>5. Think => Think'
    BY <1>2, <1>3, <1>7, <2>2, <2>3 DEF Think
  <2>6. ASSUME NEW p, Answer(p)
        PROVE  Answer(p)'
    BY <1>2, <1>3, <1>7, <2>2, <2>6 DEF Answer, Arrived
  <2>7. Hold => Hold'
    BY <1>2, <1>3, <1>7, <2>2 DEF Hold
  <2>8. ~Hold => Free'
    BY <1>2, <1>3, <1>7 DEF Free
  <2>9. Turn'
    <3>1. Turn /\ (Hold => ~Free)
      BY <1>7 DEF InTurn, ClientIs, Queue, Hold, Free
    <3>2. Quiet' <=> Quiet
      BY <1>3, <1>4 DEF Quiet
    <3>3. CASE Hold
      BY <1>3, <1>7, <2>7, <3>1, <3>2, <3>3 DEF Turn
    <3>4. CASE ~Hold
      BY <1>3, <1>4, <1>7, <2>4, <2>5, <2>6, <2>8, <3>1, <3>2, <3>4 DEF Turn
    <3>5. QED
      BY <3>3, <3>4
  <2>10. QED
    BY <1>2, <1>5, <2>1, <2>9 DEF InTurn, Turns, Retold
<1>8. QED
  BY <1>6, <1>7

LEMMA CliCtx ==
  ASSUME IInv
  PROVE  /\ Ctx(Cli) \in CtxOf(Cli) /\ Cli \in Handles
         /\ Is(Ctx(Cli), obex[Cli].mode, obex[Cli].state, O, stack[Cli], chan[Cli], <<>>, {})
BY Types DEF IInv, Ctx, Is, O

(* The callbacks of the client return.                                     *)
LEMMA CliPopped ==
  ASSUME IInv, InTurn, NEW at \in Labels, Returning(Cli, at)
  PROVE  \E f : /\ Popped(Cli) \in CtxOf(Cli)
                /\ Is(Popped(Cli), obex[Cli].mode, obex[Cli].state, O, f, chan[Cli], <<>>, {})
                /\ Nested(f) /\ Last(f) \in {"none", "done"}
                /\ At(Cli) = at /\ UNCHANGED <<link, nextId>>
<1> DEFINE k == Len(stack[Cli]) - 1
           f == SubSeq(stack[Cli], 1, k)
<1>1. /\ Popped(Cli) \in CtxOf(Cli) /\ Cli \in Handles /\ stack[Cli] \in Seq(FrameOf(Cli))
      /\ stack[Cli] # <<>>
  BY Types, PoppedCtx DEF Returning, InCallback
<1>2. k \in Nat /\ k + 1 = Len(stack[Cli])
  BY <1>1, EmptySeq
<1>3. \A i \in 1..k : stack[Cli][i] \in FrameOf(Cli)
  BY <1>1, <1>2, ElementOfSeq
<1>4. /\ f \in Seq(FrameOf(Cli)) /\ Len(f) = k
      /\ \A i \in 1..k : f[i] = stack[Cli][i]
  BY <1>2, <1>3, SubSeqProperties
<1>5. \A i \in 1..k : i \in 1..Len(stack[Cli]) /\ i < Len(stack[Cli])
  BY <1>2
<1>6. \A i \in 1..k : f[i].ev \in {"PROGRESS", "REQDONE"} /\ f[i].at = "done"
  BY <1>4, <1>5 DEF InTurn, Smooth
<1> HIDE DEF f, k
<1>7. Nested(f) /\ Last(f) \in {"none", "done"}
  <2>1. Nested(f)
    BY <1>4, <1>6 DEF Nested
  <2>2. f # <<>> => k \in 1..k
    BY <1>2, <1>4, EmptySeq
  <2>3. QED
    BY <1>4, <1>6, <2>1, <2>2 DEF Last
<1>8. Is(Popped(Cli), obex[Cli].mode, obex[Cli].state, O, f, chan[Cli], <<>>, {})
  <2>1. Popped(Cli) = [Ctx(Cli) EXCEPT !.frames = f]
    BY DEF Popped, Ctx, f, k
  <2>2. QED
    BY <2>1, CliCtx DEF CtxOf, Is
<1>9. At(Cli) = at /\ UNCHANGED <<link, nextId>>
  BY DEF Returning, At
<1>10. QED
  BY <1>1, <1>7, <1>8, <1>9

LEMMA CliReturns ==
  ASSUME IInv, InTurn, Calm, Return(Cli)
  PROVE  Turns
<1> DEFINE c == Popped(Cli)
           m == obex[Cli].mode
           s == obex[Cli].state
<1>1. /\ Cli \in Handles /\ O \in Object \cup {NULL} /\ m \in {"SRV", "CLI"}
  BY Types, CallCtx
<1>2. O # NULL =>
        /\ Now # 0 /\ Queue(O) /\ O.sent /\ ~O.nonhdr /\ O.opcode = O.cmd /\ O.id = Now
        /\ m = "CLI" /\ s = IF At(Cli) = "start" THEN "START" ELSE "REC"
  BY DEF InTurn, ClientIs, Queue
<1>3. At(Cli) # "none" => ~Hold
  BY DEF Hold
<1>4. CASE ReturnDone(Cli)
  <2>1. Returning(Cli, "done") /\ Commit(Cli, c) /\ "done" \in Labels
    BY <1>4 DEF ReturnDone, Labels
  <2>2. PICK f : /\ c \in CtxOf(Cli) /\ Is(c, m, s, O, f, chan[Cli], <<>>, {})
                 /\ Nested(f) /\ Last(f) \in {"none", "done"}
                 /\ At(Cli) = "done" /\ UNCHANGED <<link, nextId>>
    BY <2>1, CliPopped
  <2>3. CliDoes(m, s, O, f, chan[Cli], <<>>, {})
    BY <2>1, <2>2, CliCommits
  <2>4. O # NULL => (O.cont => O.tx = <<>> /\ ~Unhindered)
    BY <1>3, <2>2 DEF InTurn, Turn, Free, Hold
  <2>5. QED
    BY <1>1, <1>2, <1>3, <2>2, <2>3, <2>4, CliKeeps
<1>5. CASE ReturnStart(Cli)
  <2> DEFINE d == SetState(c, "CLI", "REC")
  <2>1. Returning(Cli, "start") /\ Commit(Cli, d) /\ "start" \in Labels
    BY <1>5 DEF ReturnStart, Labels
  <2>2. PICK f : /\ c \in CtxOf(Cli) /\ Is(c, m, s, O, f, chan[Cli], <<>>, {})
                 /\ Nested(f) /\ Last(f) \in {"none", "done"}
                 /\ At(Cli) = "start" /\ UNCHANGED <<link, nextId>>
    BY <2>1, CliPopped
  <2>3. O # NULL /\ ~O.cont
    BY <2>2 DEF InTurn, ClientIs
  <2>4. d \in CtxOf(Cli) /\ Is(d, "CLI", "REC", O, f, chan[Cli], <<>>, {})
    BY <1>1, <2>2, SetStateIs DEF Is
  <2> HIDE DEF d
  <2>5. CliDoes("CLI", "REC", O, f, chan[Cli], <<>>, {})
    BY <2>1, <2>2, <2>4, CliCommits
  <2>6. QED
    BY <1>1, <1>2, <1>3, <2>2, <2>3, <2>5, CliKeeps
<1>6. CASE ReturnContinue(Cli)
  <2> DEFINE q == [O EXCEPT !.cont = FALSE]
             d == SetObject(c, q)
  <2>1. Returning(Cli, "continue") /\ "continue" \in Labels
    BY <1>6 DEF ReturnContinue, Labels
  <2>2. PICK f : /\ c \in CtxOf(Cli) /\ Is(c, m, s, O, f, chan[Cli], <<>>, {})
                 /\ Nested(f) /\ Last(f) \in {"none", "done"}
                 /\ At(Cli) = "continue" /\ UNCHANGED <<link, nextId>>
    BY <2>1, CliPopped
  <2>3. O # NULL
    BY <2>2 DEF InTurn, ClientIs
  <2>4. Commit(Cli, d)
    BY <1>6, <2>3 DEF ReturnContinue, HasObject, O
  <2>5. /\ q \in Object /\ q # NULL /\ q.id = O.id /\ q.cmd = O.cmd /\ q.opcode = O.opcode
        /\ q.lastopcode = O.lastopcode /\ q.tx = O.tx /\ q.n = O.n /\ q.rx = O.rx
        /\ q.suspend = O.suspend /\ q.abort = O.abort /\ ~q.cont /\ q.sent = O.sent
        /\ q.nonhdr = O.nonhdr
    BY <1>1, <2>3, NullAssumption DEF Object
  <2> HIDE DEF q
  <2>6. d \in CtxOf(Cli) /\ Is(d, m, s, q, f, chan[Cli], <<>>, {})
    BY <1>1, <2>2, <2>5, SetObjectIs DEF Is
  <2> HIDE DEF d
  <2>7. CliDoes(m, s, q, f, chan[Cli], <<>>, {})
    BY <2>2, <2>4, <2>6, CliCommits
  <2>8. Queue(q) /\ q.sent /\ ~q.nonhdr /\ m = "CLI" /\ s = "REC" /\ ~Hold
    BY <1>2, <1>3, <2>2, <2>3, <2>5 DEF Queue
  <2>9. QED
    BY <1>1, <2>2, <2>3, <2>5, <2>7, <2>8, CliKeeps
<1>7. CASE ReturnResume(Cli)
  <2> DEFINE q == [O EXCEPT !.sent = TRUE, !.cont = FALSE]
             e == SetObject(c, q)
             d == SetState(e, m, "REC")
  <2>1. Returning(Cli, "resume") /\ "resume" \in Labels
    BY <1>7 DEF ReturnResume, Labels
  <2>2. PICK f : /\ c \in CtxOf(Cli) /\ Is(c, m, s, O, f, chan[Cli], <<>>, {})
                 /\ Nested(f) /\ Last(f) \in {"none", "done"}
                 /\ At(Cli) = "resume" /\ UNCHANGED <<link, nextId>>
    BY <2>1, CliPopped
  <2>3. O # NULL /\ Top(Cli).id = Now /\ O.id = Now /\ m = "CLI"
    BY <1>2, <2>2 DEF InTurn, ClientIs
  <2>4. Commit(Cli, d)
    <3>1. IdOf(O) = O.id
      BY <2>3 DEF IdOf
    <3>2. QED
      BY <1>7, <2>3, <3>1 DEF ReturnResume, HasObject, O
  <2>5. /\ q \in Object /\ q # NULL /\ q.id = O.id /\ q.cmd = O.cmd /\ q.opcode = O.opcode
        /\ q.lastopcode = O.lastopcode /\ q.tx = O.tx /\ q.n = O.n /\ q.rx = O.rx
        /\ q.suspend = O.suspend /\ q.abort = O.abort /\ ~q.cont /\ q.sent
        /\ q.nonhdr = O.nonhdr
    BY <1>1, <2>3, NullAssumption DEF Object
  <2> HIDE DEF q
  <2>6. e \in CtxOf(Cli) /\ Is(e, m, s, q, f, chan[Cli], <<>>, {})
    BY <1>1, <2>2, <2>5, SetObjectIs DEF Is
  <2> HIDE DEF e
  <2>7. d \in CtxOf(Cli) /\ Is(d, m, "REC", q, f, chan[Cli], <<>>, {})
    BY <1>1, <2>3, <2>6, SetStateIs DEF Is
  <2> HIDE DEF d
  <2>8. CliDoes(m, "REC", q, f, chan[Cli], <<>>, {})
    BY <2>2, <2>4, <2>7, CliCommits
  <2>9. Queue(q) /\ ~q.nonhdr /\ ~Hold
    BY <1>2, <1>3, <2>2, <2>3, <2>5 DEF Queue
  <2>10. QED
    BY <1>1, <2>2, <2>3, <2>5, <2>8, <2>9, CliKeeps
<1>8. ASSUME NEW at \in Labels \ {"done", "start", "continue", "resume"}, Returning(Cli, at)
      PROVE  FALSE
  <2>1. At(Cli) = at /\ at # "none"
    BY <1>8, CliPopped DEF Labels
  <2>2. QED
    BY <1>8, <2>1 DEF InTurn, ClientIs
<1>9. ~(ReturnHint(Cli) \/ ReturnCheck(Cli) \/ ReturnReq(Cli) \/ ReturnUnexpected(Cli)
          \/ ReturnSendProgress(Cli) \/ ReturnResumeDone(Cli) \/ ReturnCancel(Cli))
  BY <1>8 DEF ReturnHint, ReturnCheck, ReturnReq, ReturnUnexpected, ReturnSendProgress,
              ReturnResumeDone, ReturnCancel, Labels
<1>10. QED
  BY <1>4, <1>5, <1>6, <1>7, <1>9 DEF Return

(* The calls of the requesting application.                                *)
LEMMA CliFrames ==
  ASSUME IInv, InTurn
  PROVE  Nested(stack[Cli]) /\ Last(stack[Cli]) = At(Cli)
         /\ (stack[Cli] # <<>> => stack[Cli][Len(stack[Cli])] = Top(Cli))
BY DEF InTurn, Smooth, Nested, Last, At, Top, InCallback

LEMMA CliSuspendTurn ==
  ASSUME IInv, InTurn, Calm, Suspend(Cli)
  PROVE  Turns
<1> DEFINE q == [O EXCEPT !.suspend = TRUE]
           c == Fault(Ctx(Cli))
           m == obex[Cli].mode
           s == obex[Cli].state
<1>1. /\ O # NULL /\ O \in Object /\ UNCHANGED <<link, nextId>> /\ faults < MaxFaults
      /\ Cli \in Handles /\ O.tx # <<>> /\ ~Unhindered /\ ~O.suspend
      /\ Commit(Cli, SetObject(c, q))
  BY Types DEF Suspend, HasObject, MayFault, Calm, Unhindered, O
<1>2. /\ q \in Object /\ q # NULL /\ q.id = O.id /\ q.cmd = O.cmd /\ q.opcode = O.opcode
      /\ q.lastopcode = O.lastopcode /\ q.tx = O.tx /\ q.n = O.n /\ q.rx = O.rx
      /\ q.suspend /\ q.abort = O.abort /\ q.cont = O.cont /\ q.sent = O.sent
      /\ q.nonhdr = O.nonhdr
  BY <1>1, NullAssumption DEF Object
<1>3. /\ c \in CtxOf(Cli) /\ Is(c, m, s, O, stack[Cli], chan[Cli], <<>>, {})
  BY <1>1, CliCtx, FaultCtx DEF Ctx, Fault, Is
<1> HIDE DEF q, c
<1>4. /\ SetObject(c, q) \in CtxOf(Cli)
      /\ Is(SetObject(c, q), m, s, q, stack[Cli], chan[Cli], <<>>, {})
  BY <1>1, <1>2, <1>3, SetObjectIs DEF Is
<1>5. CliDoes(m, s, q, stack[Cli], chan[Cli], <<>>, {})
  BY <1>1, <1>4, CliCommits
<1>6. /\ Queue(O) /\ O.sent /\ ~O.nonhdr /\ m = "CLI"
      /\ s = IF At(Cli) = "start" THEN "START" ELSE "REC"
      /\ (At(Cli) = "start" => ~O.cont)
      /\ (At(Cli) = "resume" => Top(Cli).id = Now)
      /\ At(Cli) \in {"none", "done", "start", "continue", "resume"}
  BY <1>1 DEF InTurn, ClientIs
<1>7. Queue(q)
  BY <1>1, <1>2, <1>6 DEF Queue
<1>8. ~Hold /\ Free
  BY <1>1 DEF InTurn, Turn, Hold
<1>9. At(Cli) = "resume" => stack[Cli] # <<>>
  BY DEF At, InCallback
<1>10. QED
  BY <1>1, <1>2, <1>5, <1>6, <1>7, <1>8, <1>9, CliFrames, CliKeeps DEF Free

LEMMA CliResumeTurn ==
  ASSUME IInv, InTurn, Calm, Resume(Cli)
  PROVE  Turns
<1> DEFINE o == [O EXCEPT !.suspend = FALSE]
           c == SetObject(Ctx(Cli), o)
<1>1. /\ O # NULL /\ O \in Object /\ O.suspend /\ UNCHANGED <<link, nextId>>
      /\ Cli \in Handles /\ Peer(Cli) = Srv /\ link[Cli] = "up"
      /\ Queue(O) /\ O.sent /\ ~O.nonhdr /\ O.opcode = O.cmd /\ O.lastopcode = O.cmd
      /\ obex[Cli].mode = "CLI" /\ O.tx # <<>> /\ O.n \in Nat
  BY Types DEF Resume, HasObject, O, InTurn, Smooth, ClientIs, Queue, Object
<1>2. stack[Cli] = <<>> /\ At(Cli) = "none" /\ obex[Cli].state = "REC"
  BY <1>1 DEF Resume, MayCall, InCallback, Queue, At, InTurn, ClientIs, Calm
<1>3. \/ o.sent /\ ~o.cont /\ Commit(Cli, c)
      \/ /\ ~o.sent \/ o.cont
         /\ \E r \in ObjectSend(Cli, c, TRUE, FALSE) :
              \/ r.ret < 0
              \/ /\ r.ret = 0
                 /\ Commit(Cli, Deliver(r.ctx, "PROGRESS", o.opcode, "resume", NoPacket))
              \/ r.ret = 1 /\ c.self.mode = "SRV"
              \/ /\ r.ret = 1 /\ c.self.mode = "CLI"
                 /\ Commit(Cli, SetState(r.ctx, "CLI", "REC"))
  BY DEF Resume, O
<1>4. /\ o \in Object /\ o # NULL /\ o.id = O.id /\ o.cmd = O.cmd
      /\ o.tx = O.tx /\ o.n = O.n /\ o.rx = O.rx
      /\ ~o.suspend /\ o.abort = O.abort /\ o.cont = O.cont /\ o.sent
      /\ ~o.nonhdr /\ o.opcode = O.opcode /\ o.lastopcode = O.lastopcode
      /\ o.opcode \in Ops
  BY <1>1, NullAssumption DEF Object
<1> HIDE DEF o
<1>5. Queue(o)
  BY <1>1, <1>4 DEF Queue
<1>6. c \in CtxOf(Cli) /\ Is(c, "CLI", "REC", o, <<>>, chan[Cli], <<>>, {})
  BY <1>1, <1>2, <1>4, CliCtx, SetObjectIs DEF Is
<1> HIDE DEF c
<1>7. CASE ~o.cont /\ Commit(Cli, c)
  <2>1. CliDoes("CLI", "REC", o, <<>>, chan[Cli], <<>>, {})
    BY <1>1, <1>6, <1>7, CliCommits
  <2>2. ~Hold /\ Nested(<<>>) /\ Last(<<>>) = "none"
    BY <1>4, <1>7 DEF Hold, Nested, Last
  <2>3. QED
    BY <1>1, <1>4, <1>5, <1>7, <2>1, <2>2, CliKeeps
<1>8. ASSUME o.cont, NEW r \in ObjectSend(Cli, c, TRUE, FALSE),
             \/ r.ret < 0
             \/ /\ r.ret = 0
                /\ Commit(Cli, Deliver(r.ctx, "PROGRESS", o.opcode, "resume", NoPacket))
             \/ r.ret = 1 /\ c.self.mode = "SRV"
             \/ /\ r.ret = 1 /\ c.self.mode = "CLI"
                /\ Commit(Cli, SetState(r.ctx, "CLI", "REC"))
      PROVE  Turns
  <2>1. Quiet /\ Hold /\ chan[Cli] = <<>> /\ chan[Srv] = <<>>
    <3>1. ~Free
      BY <1>1, <1>2, <1>4, <1>8 DEF Free
    <3>2. QED
      BY <1>1, <3>1 DEF InTurn, Turn, Quiet
  <2>2. P # NULL /\ Waits /\ Has /\ o.rx = Fragments(Now, P.n)
    BY <1>4, <2>1 DEF Hold, Has
  <2>3. PICK q \in Object, n \in Nat, pkt \in PacketFrom(Cli) :
          /\ Sends(o, q, n)
          /\ r.ret = IF q.tx = <<>> THEN 1 ELSE 0
          /\ pkt.op = IF q.tx = <<>> THEN o.lastopcode ELSE o.opcode
          /\ pkt.final <=> q.tx = <<>>
          /\ pkt.id = o.id /\ pkt.n = n /\ pkt.mtu = 0
          /\ r.ctx \in CtxOf(Cli)
          /\ Is(r.ctx, "CLI", "REC", q, <<>>, <<>>, <<pkt>>, {})
    <3>1. c.self.object = o /\ Goes(o.tx) /\ ~o.suspend
      BY <1>4, <1>5, <1>6 DEF Is, Queue
    <3>2. c.self.object \in Object
      BY <1>4, <3>1
    <3>3. PICK q \in Object, n \in Nat, pkt \in PacketFrom(Cli) :
            /\ Sends(o, q, n)
            /\ r.ret = IF q.tx = <<>> THEN 1 ELSE 0
            /\ pkt.op = IF q.tx = <<>> THEN o.lastopcode ELSE o.opcode
            /\ pkt.final <=> q.tx = <<>>
            /\ pkt.id = o.id /\ pkt.n = n
            /\ pkt.mtu = IF o.nonhdr THEN MtuRx[Cli] ELSE 0
            /\ r.ctx \in CtxOf(Cli)
            /\ Is(r.ctx, c.self.mode, c.self.state, q, c.frames, c.input,
                  Append(c.out, pkt), c.seen)
      BY <1>1, <1>6, <1>8, <3>1, <3>2, ObjectSendIs, ZenonT(30)
    <3>4. Append(c.out, pkt) = <<pkt>>
      BY <1>6 DEF Is
    <3>5. QED
      BY <1>4, <1>6, <2>1, <3>3, <3>4 DEF Is
  <2>4. /\ q # NULL /\ pkt.op = O.cmd /\ pkt.id = Now /\ o.cmd = O.cmd /\ o.opcode = O.cmd
        /\ o.lastopcode = O.cmd /\ q.id = Now
    <3>1. q # NULL
      BY NullAssumption
    <3>2. QED
      BY <1>1, <1>4, <2>3, <3>1 DEF Queue, Sends
  <2>5. c.self.mode = "CLI"
    BY <1>6 DEF Is
  <2>6. CASE r.ret = 0
    <3> DEFINE top == Called("PROGRESS", "resume", NoPacket, q)
    <3>1. Commit(Cli, Deliver(r.ctx, "PROGRESS", o.opcode, "resume", NoPacket))
      BY <1>8, <2>6
    <3>2. /\ Deliver(r.ctx, "PROGRESS", o.opcode, "resume", NoPacket) \in CtxOf(Cli)
          /\ Is(Deliver(r.ctx, "PROGRESS", o.opcode, "resume", NoPacket), "CLI", "REC", q,
                <<top>>, <<>>, <<pkt>>, {})
          /\ top \in FrameOf(Cli) /\ top.ev = "PROGRESS" /\ top.at = "resume" /\ top.id = Now
      <4>1. /\ NoPacket \in PacketFrom(Peer(Cli))
            /\ "PROGRESS" \in Events /\ "resume" \in Labels
            /\ r.ctx \in CtxOf(Cli) /\ Is(r.ctx, "CLI", "REC", q, <<>>, <<>>, <<pkt>>, {})
        BY <1>1, <2>3, NoPacketFrom, PeerOfPeer DEF Events, Labels
      <4>2. \A rsp \in Ops :
              /\ Deliver(r.ctx, "PROGRESS", rsp, "resume", NoPacket) \in CtxOf(Cli)
              /\ Is(Deliver(r.ctx, "PROGRESS", rsp, "resume", NoPacket), "CLI", "REC", q,
                    <<top>>, <<>>, <<pkt>>, Notes("PROGRESS", rsp, q))
        BY <1>1, <4>1, Tells
      <4>3. top \in FrameOf(Cli) /\ top.ev = "PROGRESS" /\ top.at = "resume" /\ top.id = q.id
        BY <1>1, <2>4, <4>1, CalledFrame
      <4>4. Notes("PROGRESS", o.opcode, q) = {}
        BY DEF Notes, Ends
      <4>5. QED
        BY <1>4, <2>4, <4>2, <4>3, <4>4
    <3> HIDE DEF top
    <3>3. CliDoes("CLI", "REC", q, <<top>>, <<>>, <<pkt>>, {})
      BY <1>1, <3>1, <3>2, CliCommits
    <3>4. \E t \in FrameOf(Cli) :
            /\ <<top>> = <<t>> /\ t.ev = "PROGRESS" /\ t.id = Now
            /\ t.at \in {"continue", "resume"}
      BY <3>2
    <3>5. QED
      BY <1>1, <1>4, <1>5, <2>1, <2>2, <2>3, <2>4, <3>3, <3>4, CliAsks
  <2>7. CASE r.ret = 1
    <3>1. Commit(Cli, SetState(r.ctx, "CLI", "REC")) /\ q.tx = <<>>
      BY <1>8, <2>3, <2>5, <2>7
    <3>2. /\ SetState(r.ctx, "CLI", "REC") \in CtxOf(Cli)
          /\ Is(SetState(r.ctx, "CLI", "REC"), "CLI", "REC", q, <<>>, <<>>, <<pkt>>, {})
      BY <1>1, <2>3, SetStateIs DEF Is
    <3>3. CliDoes("CLI", "REC", q, <<>>, <<>>, <<pkt>>, {})
      BY <1>1, <3>1, <3>2, CliCommits
    <3>4. ~Unhindered
      BY <1>1 DEF Queue
    <3>5. QED
      BY <1>1, <1>4, <1>5, <2>1, <2>2, <2>3, <2>4, <3>1, <3>3, <3>4, CliAsks
  <2>8. QED
    BY <2>3, <2>6, <2>7
<1>9. QED
  BY <1>3, <1>4, <1>7, <1>8

(* CONTINUE: the next part of the request, unless it is held back.         *)
LEMMA ContinueTurn ==
  ASSUME IInv, InTurn, Calm, NEW c \in CtxOf(Cli), NEW p \in Object,
         Is(c, "CLI", "REC", p, <<>>, <<>>, <<>>, {}), O # NULL, P # NULL,
         chan[Srv] = <<>>, Waits, Has,
         Queue(p), p.cmd = O.cmd, p.opcode = O.cmd, p.lastopcode = O.cmd, p.tx = O.tx,
         p.n = O.n, p.sent, ~p.nonhdr, p.rx = Fragments(Now, P.n), At(Cli) = "none",
         ClientContinue(Cli, c), UNCHANGED <<link, nextId>>
  PROVE  Turns
<1> DEFINE o  == SetContinue(p)
           c1 == SetObject(c, o)
<1>1. /\ Cli \in Handles /\ Peer(Cli) = Srv /\ link[Cli] = "up"
      /\ O.cmd \in Cmds /\ (O.cmd = "CONNECT" => O.tx = <<>>) /\ Now # 0
  BY Types DEF InTurn, Smooth, ClientIs
<1>2. /\ o \in Object /\ o # NULL /\ o.id = p.id /\ o.cmd = p.cmd
      /\ o.tx = p.tx /\ o.n = p.n /\ o.rx = p.rx
      /\ o.suspend = p.suspend /\ o.abort = p.abort /\ o.cont /\ o.sent
      /\ ~o.nonhdr /\ o.opcode = p.opcode /\ o.lastopcode = p.lastopcode
      /\ o.opcode \in Ops
  BY NullAssumption DEF SetContinue, Object
<1>3. \/ HeldBack(o) /\ Commit(Cli, c1)
      \/ /\ ~HeldBack(o)
         /\ \E r \in ObjectSend(Cli, c1, TRUE, FALSE) :
              \/ r.ret < 0
              \/ /\ r.ret >= 0
                 /\ Commit(Cli, Deliver(r.ctx, "PROGRESS", o.opcode, "continue", NoPacket))
  BY DEF ClientContinue, Is
<1> HIDE DEF o
<1>4. Queue(o) /\ o.id = Now /\ (HeldBack(o) <=> o.suspend)
  BY <1>2 DEF Queue, HeldBack
<1>5. c1 \in CtxOf(Cli) /\ Is(c1, "CLI", "REC", o, <<>>, <<>>, <<>>, {})
  BY <1>1, <1>2, SetObjectIs DEF Is
<1> HIDE DEF c1
<1>6. CASE o.suspend /\ Commit(Cli, c1)
  <2>1. CliDoes("CLI", "REC", o, <<>>, <<>>, <<>>, {})
    BY <1>5, <1>6, CliCommits
  <2>2. Nested(<<>>) /\ Last(<<>>) = "none"
    BY DEF Nested, Last
  <2>3. P # NULL => o # NULL /\ o.cmd = O.cmd /\ (Served => o.tx = <<>>)
    BY <1>2 DEF InTurn, ServerIs, Serving
  <2>4. /\ Smooth' /\ ServerIs' /\ Now' = Now /\ P' = P /\ Waits' /\ At(Cli)' = "none"
    BY <2>1, <2>2, <2>3, CliSteps DEF InTurn
  <2>5. /\ O' = o /\ chan'[Cli] = <<>> /\ chan'[Srv] = <<>> \o <<>>
        /\ seen'[Cli] = seen[Cli] /\ seen'[Srv] = seen[Srv]
        /\ obex'[Cli].mode = "CLI" /\ obex'[Cli].state = "REC"
    BY <2>1 DEF CliDoes
  <2>6. Retold
    BY <1>2, <2>4, <2>5, ToldKept DEF InTurn
  <2>7. ClientIs'
    <3>1. Queue(o)'
      BY <1>4, <2>4 DEF Queue
    <3>2. QED
      BY <1>1, <1>2, <2>4, <2>5, <3>1 DEF ClientIs
  <2>8. Hold' /\ Quiet'
    BY <1>2, <1>6, <2>4, <2>5 DEF Hold, Has, Quiet
  <2>9. Turn'
    BY <1>2, <2>5, <2>8 DEF Turn
  <2>10. QED
    BY <2>4, <2>6, <2>7, <2>9 DEF InTurn, Turns, Retold
<1>7. ASSUME ~o.suspend, NEW r \in ObjectSend(Cli, c1, TRUE, FALSE),
             \/ r.ret < 0
             \/ /\ r.ret >= 0
                /\ Commit(Cli, Deliver(r.ctx, "PROGRESS", o.opcode, "continue", NoPacket))
      PROVE  Turns
  <2>1. PICK q \in Object, n \in Nat, pkt \in PacketFrom(Cli) :
          /\ Sends(o, q, n)
          /\ r.ret = IF q.tx = <<>> THEN 1 ELSE 0
          /\ pkt.op = IF q.tx = <<>> THEN o.lastopcode ELSE o.opcode
          /\ pkt.final <=> q.tx = <<>>
          /\ pkt.id = o.id /\ pkt.n = n /\ pkt.mtu = 0
          /\ r.ctx \in CtxOf(Cli)
          /\ Is(r.ctx, "CLI", "REC", q, <<>>, <<>>, <<pkt>>, {})
    <3>1. c1.self.object = o /\ Goes(o.tx) /\ ~o.suspend
      BY <1>4, <1>5, <1>7 DEF Is, Queue
    <3>2. c1.self.object \in Object
      BY <1>2, <3>1
    <3>3. PICK q \in Object, n \in Nat, pkt \in PacketFrom(Cli) :
            /\ Sends(o, q, n)
            /\ r.ret = IF q.tx = <<>> THEN 1 ELSE 0
            /\ pkt.op = IF q.tx = <<>> THEN o.lastopcode ELSE o.opcode
            /\ pkt.final <=> q.tx = <<>>
            /\ pkt.id = o.id /\ pkt.n = n
            /\ pkt.mtu = IF o.nonhdr THEN MtuRx[Cli] ELSE 0
            /\ r.ctx \in CtxOf(Cli)
            /\ Is(r.ctx, c1.self.mode, c1.self.state, q, c1.frames, c1.input,
                  Append(c1.out, pkt), c1.seen)
      BY <1>1, <1>5, <1>7, <3>1, <3>2, ObjectSendIs, ZenonT(30)
    <3>4. Append(c1.out, pkt) = <<pkt>>
      BY <1>5 DEF Is
    <3>5. QED
      BY <1>2, <1>5, <3>3, <3>4 DEF Is
  <2>2. /\ q # NULL /\ pkt.op = O.cmd /\ pkt.id = Now /\ o.cmd = O.cmd /\ o.opcode = O.cmd
        /\ o.lastopcode = O.cmd /\ q.id = Now
    <3>1. q # NULL
      BY NullAssumption
    <3>2. QED
      BY <1>2, <1>4, <2>1, <3>1 DEF Sends
  <2>3. Commit(Cli, Deliver(r.ctx, "PROGRESS", o.opcode, "continue", NoPacket))
    <3>1. ~(r.ret < 0)
      BY <2>1
    <3>2. QED
      BY <1>7, <3>1
  <2> DEFINE top == Called("PROGRESS", "continue", NoPacket, q)
  <2>4. /\ Deliver(r.ctx, "PROGRESS", o.opcode, "continue", NoPacket) \in CtxOf(Cli)
        /\ Is(Deliver(r.ctx, "PROGRESS", o.opcode, "continue", NoPacket), "CLI", "REC", q,
              <<top>>, <<>>, <<pkt>>, {})
        /\ top \in FrameOf(Cli) /\ top.ev = "PROGRESS" /\ top.at = "continue" /\ top.id = Now
    <3>1. /\ NoPacket \in PacketFrom(Peer(Cli))
          /\ "PROGRESS" \in Events /\ "continue" \in Labels
          /\ r.ctx \in CtxOf(Cli) /\ Is(r.ctx, "CLI", "REC", q, <<>>, <<>>, <<pkt>>, {})
      BY <1>1, <2>1, NoPacketFrom, PeerOfPeer DEF Events, Labels
    <3>2. \A rsp \in Ops :
            /\ Deliver(r.ctx, "PROGRESS", rsp, "continue", NoPacket) \in CtxOf(Cli)
            /\ Is(Deliver(r.ctx, "PROGRESS", rsp, "continue", NoPacket), "CLI", "REC", q,
                  <<top>>, <<>>, <<pkt>>, Notes("PROGRESS", rsp, q))
      BY <1>1, <3>1, Tells
    <3>3. top \in FrameOf(Cli) /\ top.ev = "PROGRESS" /\ top.at = "continue" /\ top.id = q.id
      BY <1>1, <2>2, <3>1, CalledFrame
    <3>4. Notes("PROGRESS", o.opcode, q) = {}
      BY DEF Notes, Ends
    <3>5. QED
      BY <1>2, <2>2, <3>2, <3>3, <3>4
  <2> HIDE DEF top
  <2>5. CliDoes("CLI", "REC", q, <<top>>, <<>>, <<pkt>>, {})
    BY <1>1, <2>3, <2>4, CliCommits
  <2>6. \E t \in FrameOf(Cli) :
          /\ <<top>> = <<t>> /\ t.ev = "PROGRESS" /\ t.id = Now
          /\ t.at \in {"continue", "resume"}
    BY <2>4
  <2>7. QED
    BY <1>2, <1>4, <2>1, <2>2, <2>5, <2>6, CliAsks
<1>8. QED
  BY <1>3, <1>4, <1>6, <1>7

(* Any other answer: it is told, and the request is over.                  *)
LEMMA DoneTurn ==
  ASSUME IInv, InTurn, NEW c \in CtxOf(Cli), NEW p \in Object,
         Is(c, "CLI", "REC", p, <<>>, <<>>, <<>>, {}), O # NULL, P = NULL,
         chan[Srv] = <<>>, p.id = Now, ~p.abort, NEW rsp \in Rsps,
         \E e \in seen[Srv] : /\ e.ev = "REQDONE" /\ e.id = Now /\ e.rsp = rsp
                              /\ p.rx = Fragments(Now, e.n),
         ClientDone(Cli, c, rsp), UNCHANGED <<link, nextId>>
  PROVE  Turns
<1> DEFINE d   == SetState(c, "SRV", "IDLE")
           top == Called("REQDONE", "done", NoPacket, p)
<1>1. /\ Cli \in Handles /\ Peer(Cli) = Srv /\ Now # 0 /\ p # NULL /\ rsp \in Ops
  BY Types, NullAssumption DEF InTurn, ClientIs, Ops
<1>2. Commit(Cli, DeliverLast(d, "REQDONE", rsp, "done"))
  BY DEF ClientDone, Is
<1>3. d \in CtxOf(Cli) /\ Is(d, "SRV", "IDLE", p, <<>>, <<>>, <<>>, {})
  BY <1>1, SetStateIs DEF Is
<1> HIDE DEF d
<1>4. /\ DeliverLast(d, "REQDONE", rsp, "done") \in CtxOf(Cli)
      /\ Is(DeliverLast(d, "REQDONE", rsp, "done"), "SRV", "IDLE", NULL, <<top>>, <<>>, <<>>,
            Notes("REQDONE", rsp, p))
      /\ top.ev = "REQDONE" /\ top.at = "done"
  <2>1. /\ "REQDONE" \in Events /\ "done" \in Labels /\ NoPacket \in PacketFrom(Peer(Cli))
    BY <1>1, NoPacketFrom, PeerOfPeer DEF Events, Labels
  <2>2. /\ DeliverLast(d, "REQDONE", rsp, "done") \in CtxOf(Cli)
        /\ Is(DeliverLast(d, "REQDONE", rsp, "done"), "SRV", "IDLE", NULL, <<top>>, <<>>, <<>>,
              Notes("REQDONE", rsp, p))
    BY <1>1, <1>3, <2>1, TellsLast
  <2>3. top.ev = "REQDONE" /\ top.at = "done"
    BY <1>1, <2>1, CalledFrame
  <2>4. QED
    BY <2>2, <2>3
<1> HIDE DEF top
<1>5. CliDoes("SRV", "IDLE", NULL, <<top>>, <<>>, <<>>, Notes("REQDONE", rsp, p))
  BY <1>2, <1>4, CliCommits
<1>6. Nested(<<top>>) /\ Last(<<top>>) = "done"
  BY <1>4 DEF Nested, Last
<1>7. /\ Smooth' /\ ServerIs' /\ Now' = Now /\ P' = P /\ At(Cli)' = "done"
  BY <1>5, <1>6, CliSteps DEF InTurn
<1>8. /\ O' = NULL /\ chan'[Cli] = <<>> /\ chan'[Srv] = <<>> \o <<>>
      /\ seen'[Cli] = seen[Cli] \cup Notes("REQDONE", rsp, p) /\ seen'[Srv] = seen[Srv]
  BY <1>5 DEF CliDoes
<1>9. Retold
  BY <1>1, <1>7, <1>8, ToldEnd DEF InTurn
<1>10. ClientIs'
  BY <1>7, <1>8 DEF ClientIs
<1>11. Turn'
  BY <1>7, <1>8 DEF Turn, Quiet
<1>12. QED
  BY <1>7, <1>9, <1>10, <1>11 DEF InTurn, Turns, Retold

(* OBEX_HandleInput of the client, with the answer.                        *)
LEMMA CliInput ==
  ASSUME IInv, InTurn, Calm, HandleInput(Cli)
  PROVE  Turns
<1> DEFINE pkt == chan[Cli][1]
           c   == [Ctx(Cli) EXCEPT !.input = Tail(@)]
<1>1. /\ chan[Cli] # <<>> /\ stack[Cli] = <<>> /\ At(Cli) = "none"
      /\ UNCHANGED <<link, nextId>> /\ Cli \in Handles /\ Peer(Cli) = Srv
  BY Types DEF HandleInput, InCallback, At
<1>2. /\ O # NULL /\ O \in Object /\ chan[Srv] = <<>> /\ Len(chan[Cli]) = 1 /\ Answer(pkt)
  BY <1>1, Types DEF InTurn, Turn, Quiet
<1>3. /\ pkt \in PacketFrom(Srv) /\ Head(chan[Cli]) = pkt /\ Tail(chan[Cli]) = <<>>
  <2>1. chan[Cli] \in Seq(PacketFrom(Srv))
    BY Types
  <2>2. /\ Tail(chan[Cli]) \in Seq(PacketFrom(Srv)) /\ Len(Tail(chan[Cli])) = 0
        /\ Head(chan[Cli]) = pkt /\ pkt \in PacketFrom(Srv)
    BY <1>1, <1>2, <2>1, HeadTailProperties, ElementOfSeq
  <2>3. QED
    BY <2>1, <2>2, EmptySeq
<1>4. /\ Queue(O) /\ O.sent /\ ~O.nonhdr /\ O.opcode = O.cmd /\ O.lastopcode = O.cmd
      /\ O.cmd \in Cmds /\ (O.cmd = "CONNECT" => O.tx = <<>>)
      /\ obex[Cli].mode = "CLI" /\ obex[Cli].state = "REC" /\ Now \in Nat
  BY <1>1, <1>2, Types DEF InTurn, ClientIs
<1>5. c \in CtxOf(Cli) /\ Is(c, "CLI", "REC", O, <<>>, <<>>, <<>>, {})
  <2>1. /\ Ctx(Cli) \in CtxOf(Cli)
        /\ Is(Ctx(Cli), "CLI", "REC", O, <<>>, chan[Cli], <<>>, {})
    BY <1>1, <1>4, CliCtx
  <2>2. Tail(Ctx(Cli).input) = <<>>
    BY <1>3, <2>1 DEF Is
  <2>3. <<>> \in Seq(PacketFrom(Peer(Cli)))
    BY EmptySeq
  <2>4. QED
    BY <2>1, <2>2, <2>3 DEF CtxOf, Is
<1>6. Client(Cli, c, pkt)
  BY <1>3, <1>5 DEF HandleInput, Is
<1> HIDE DEF c, pkt
<1>7. ClientRec(Cli, c, pkt)
  BY <1>2, <1>5, <1>6 DEF Client, Is
<1>8. /\ pkt.id = Now /\ Waits /\ pkt.op \in Rsps
      /\ (O.cmd = "CONNECT" => ~MalformedConnect(pkt))
  BY <1>2 DEF Answer, MalformedConnect, Rsps
<1> DEFINE c1 == IF O.opcode = "CONNECT" THEN ParseConnect(Cli, c, pkt)
                 ELSE IF O.opcode = "DISCONNECT" THEN SetMtu(c, MinimumMtu) ELSE c
<1>9. PICK r \in ObjectReceive(c1, pkt) :
        \/ ~r.ok
        \/ r.ok /\ pkt.op = "CONTINUE" /\ ClientContinue(Cli, r.ctx)
        \/ r.ok /\ pkt.op # "CONTINUE" /\ ClientDone(Cli, r.ctx, pkt.op)
  BY <1>4, <1>5, <1>7, <1>8 DEF ClientRec, Is
<1>10. c1 \in CtxOf(Cli) /\ Is(c1, "CLI", "REC", O, <<>>, <<>>, <<>>, {})
  BY <1>1, <1>3, <1>5, ParseConnectIs, MinimumIs DEF Is
<1> HIDE DEF c1
<1> DEFINE d == r.ctx
<1>11. PICK q \in Object :
         /\ q = [O EXCEPT !.rx = IF pkt.n = 0 THEN @ ELSE Append(@, <<pkt.id, pkt.n>>)]
         /\ r.ok /\ d \in CtxOf(Cli) /\ Is(d, "CLI", "REC", q, <<>>, <<>>, <<>>, {})
  <2>1. c1.self.object = O
    BY <1>10 DEF Is
  <2>2. r.ok /\ d \in CtxOf(Cli)
    BY <1>1, <1>2, <1>3, <1>10, <2>1, ObjectReceiveIs
  <2>3. PICK q \in Object :
          /\ q = [c1.self.object EXCEPT !.rx =
                    IF pkt.n = 0 THEN @ ELSE Append(@, <<pkt.id, pkt.n>>)]
          /\ Is(d, c1.self.mode, c1.self.state, q, c1.frames, c1.input, c1.out, c1.seen)
    BY <1>1, <1>2, <1>3, <1>10, <2>1, ObjectReceiveIs
  <2>4. QED
    BY <1>10, <2>1, <2>2, <2>3 DEF Is
<1> HIDE DEF d
<1>12. /\ q.id = O.id /\ q.cmd = O.cmd /\ q.opcode = O.opcode /\ q.lastopcode = O.lastopcode
       /\ q.tx = O.tx /\ q.n = O.n /\ q.suspend = O.suspend /\ q.abort = O.abort
       /\ q.sent = O.sent /\ q.cont = O.cont /\ q.nonhdr = O.nonhdr
       /\ q.rx = IF pkt.n = 0 THEN O.rx ELSE Append(O.rx, <<pkt.id, pkt.n>>)
  BY <1>2, <1>11 DEF Object
<1>13. Queue(q) /\ q.id = Now /\ ~q.abort
  BY <1>4, <1>12 DEF Queue
<1>14. ASSUME NEW n \in Nat, Arrived(O.rx, pkt, n)
       PROVE  q.rx = Fragments(Now, n)
  <2>1. (IF pkt.n = 0 THEN O.rx ELSE Append(O.rx, <<pkt.id, pkt.n>>)) = Fragments(Now, n)
    BY <1>4, <1>8, <1>14, ReceivesNext
  <2>2. QED
    BY <1>12, <2>1
<1>15. CASE pkt.op = "CONTINUE" /\ ClientContinue(Cli, d)
  <2>1. Has /\ Arrived(O.rx, pkt, P.n)
    BY <1>2, <1>15 DEF Answer
  <2>2. P # NULL /\ P.n \in Nat
    BY <2>1, Types DEF Has, Object
  <2>3. q.rx = Fragments(Now, P.n)
    BY <1>14, <2>1, <2>2
  <2>4. QED
    BY <1>1, <1>2, <1>4, <1>8, <1>11, <1>12, <1>13, <1>15, <2>1, <2>2, <2>3, ContinueTurn
<1>16. CASE pkt.op # "CONTINUE" /\ ClientDone(Cli, d, pkt.op)
  <2>1. P = NULL
    BY <1>2, <1>16 DEF Answer
  <2>2. PICK e \in seen[Srv] :
          e.ev = "REQDONE" /\ e.id = Now /\ e.rsp = pkt.op /\ Arrived(O.rx, pkt, e.n)
    BY <1>2, <1>16 DEF Answer
  <2>3. e.n \in Nat
    BY <2>2, Types DEF Seen
  <2>4. q.rx = Fragments(Now, e.n)
    BY <1>14, <2>2, <2>3
  <2>5. \E f \in seen[Srv] : /\ f.ev = "REQDONE" /\ f.id = Now /\ f.rsp = pkt.op
                             /\ q.rx = Fragments(Now, f.n)
    BY <2>2, <2>4
  <2>6. QED
    BY <1>1, <1>2, <1>8, <1>11, <1>13, <1>16, <2>1, <2>5, DoneTurn
<1>17. QED
  BY <1>9, <1>11, <1>15, <1>16 DEF d

LEMMA NestedAppend ==
  ASSUME NEW f \in Seq(FrameOf(Cli)), NEW top \in FrameOf(Cli), Nested(f),
         Last(f) \in {"none", "done"}, top.ev \in {"PROGRESS", "REQDONE"}
  PROVE  Nested(Append(f, top)) /\ Last(Append(f, top)) = top.at
<1> DEFINE g == Append(f, top)
<1>1. /\ Len(f) \in Nat /\ g # <<>> /\ Len(g) = Len(f) + 1 /\ g[Len(f) + 1] = top
      /\ \A i \in 1..Len(f) : g[i] = f[i]
  BY AppendProperties, LenProperties
<1>2. ASSUME NEW i \in 1..Len(f)
      PROVE  g[i].at = "done" /\ g[i].ev \in {"PROGRESS", "REQDONE"}
  <2>1. f[i] \in FrameOf(Cli) /\ f # <<>>
    BY ElementOfSeq, EmptySeq
  <2>2. f[i].at # "none"
    BY <2>1 DEF FrameOf, Labels
  <2>3. i < Len(f) \/ i = Len(f)
    BY <1>1
  <2>4. f[i].at = "done"
    BY <2>1, <2>2, <2>3 DEF Nested, Last
  <2>5. QED
    BY <1>1, <2>4 DEF Nested
<1>3. \A i \in 1..Len(g) : (i \in 1..Len(f) /\ i < Len(g)) \/ (i = Len(f) + 1 /\ ~(i < Len(g)))
  BY <1>1
<1>4. g[Len(f) + 1].ev \in {"PROGRESS", "REQDONE"} /\ g[Len(g)] = top
  BY <1>1
<1> HIDE DEF g
<1>5. Nested(g)
  BY <1>2, <1>3, <1>4 DEF Nested
<1>6. QED
  BY <1>1, <1>4, <1>5 DEF Last, g

(* OBEX_Request: the first packet.                                         *)
LEMMA RequestTurn ==
  ASSUME IInv, InTurn, Calm, Request(Cli)
  PROVE  Turns
<1>1. /\ O = NULL /\ P = NULL /\ Quiet /\ nextId' = nextId + 1 /\ UNCHANGED link
      /\ Cli \in Handles /\ Peer(Cli) = Srv /\ link[Cli] = "up" /\ nextId = Now + 1
      /\ Now \in Nat /\ nextId \in Ids
  <2>1. O = NULL /\ nextId' = nextId + 1 /\ UNCHANGED link /\ nextId <= MaxRequests
    BY DEF Request, Busy, HasObject, O
  <2>2. P = NULL /\ Quiet
    BY <2>1 DEF InTurn, Turn
  <2>3. nextId \in Ids
    BY <2>1, Types, BoundsAssumption DEF Ids
  <2>4. QED
    BY <2>1, <2>2, <2>3, Types DEF InTurn, Smooth
<1>2. PICK cmd \in Commands, tx \in RequestQueues :
        /\ cmd \in {"CONNECT", "DISCONNECT"} => tx = <<>>
        /\ LET o == [NewObject(nextId, cmd) EXCEPT
                       !.opcode = cmd, !.lastopcode = cmd, !.tx = tx,
                       !.nonhdr = (cmd = "CONNECT"), !.suspend = FALSE]
           IN  ClientStart(Cli, SetObject(SetState(Ctx(Cli), "CLI", "START"), o))
  <2>1. PICK cmd \in Commands, tx \in RequestQueues, suspend \in BOOLEAN :
          /\ cmd \in {"CONNECT", "DISCONNECT"} => tx = <<>>
          /\ suspend => SuspendsFirst
          /\ LET o == [NewObject(nextId, cmd) EXCEPT
                         !.opcode = cmd, !.lastopcode = cmd, !.tx = tx,
                         !.nonhdr = (cmd = "CONNECT"), !.suspend = suspend]
                 c == [Ctx(Cli) EXCEPT !.faults = IF suspend THEN @ + 1 ELSE @]
             IN  ClientStart(Cli, SetObject(SetState(c, "CLI", "START"), o))
    BY DEF Request
  <2>2. suspend = FALSE
    BY <2>1 DEF Calm
  <2>3. [Ctx(Cli) EXCEPT !.faults = IF FALSE THEN @ + 1 ELSE @] = Ctx(Cli)
    BY CliCtx DEF CtxOf
  <2>4. QED
    BY <2>1, <2>2, <2>3
<1> DEFINE o == [NewObject(nextId, cmd) EXCEPT
                   !.opcode = cmd, !.lastopcode = cmd, !.tx = tx,
                   !.nonhdr = (cmd = "CONNECT"), !.suspend = FALSE]
           s == SetState(Ctx(Cli), "CLI", "START")
           c == SetObject(s, o)
<1>3. cmd \in Cmds /\ cmd \in Ops /\ tx \in Seq(Kinds) /\ Goes(tx) /\ (Unhindered => Kind(tx))
  BY CommandsAssumption, QueuesAssumption DEF Ops, Calm, Unhindered
<1>4. /\ o \in Object /\ o # NULL /\ o.id = nextId /\ o.cmd = cmd /\ o.opcode = cmd
      /\ o.lastopcode = cmd /\ o.tx = tx /\ o.n = 0 /\ o.rx = <<>> /\ ~o.suspend
      /\ ~o.abort /\ ~o.cont /\ (o.nonhdr <=> cmd = "CONNECT")
  <2>1. NewObject(nextId, cmd) \in Object
    BY <1>1, <1>3, NewObjectIsObject
  <2>2. o \in Object
    BY <1>3, <2>1 DEF Object
  <2>3. /\ o.id = nextId /\ o.cmd = cmd /\ o.opcode = cmd
        /\ o.lastopcode = cmd /\ o.tx = tx /\ o.n = 0 /\ o.rx = <<>> /\ ~o.suspend
        /\ ~o.abort /\ ~o.cont /\ (o.nonhdr <=> cmd = "CONNECT")
    BY DEF NewObject
  <2>4. QED
    BY <2>2, <2>3, NullAssumption
<1> HIDE DEF o
<1>5. /\ s \in CtxOf(Cli)
      /\ Is(s, "CLI", "START", O, stack[Cli], chan[Cli], <<>>, {})
  BY <1>1, CliCtx, SetStateIs DEF Is
<1> HIDE DEF s
<1>6. c \in CtxOf(Cli) /\ Is(c, "CLI", "START", o, stack[Cli], <<>>, <<>>, {})
  BY <1>1, <1>4, <1>5, SetObjectIs DEF Is, Quiet
<1> HIDE DEF c
<1>7. PICK r \in ObjectSend(Cli, c, TRUE, FALSE) :
        LET d == r.ctx.self.object
        IN  \/ r.ret < 0
            \/ Commit(Cli, Deliver(SetObject(r.ctx, [d EXCEPT !.sent = TRUE]),
                                   "PROGRESS", d.opcode, "start", NoPacket))
  <2>1. ClientStart(Cli, c)
    BY <1>2 DEF c, s, o
  <2>2. QED
    BY <2>1 DEF ClientStart
<1>8. PICK q \in Object, n \in Nat, pkt \in PacketFrom(Cli) :
        /\ Sends(o, q, n)
        /\ r.ret = IF q.tx = <<>> THEN 1 ELSE 0
        /\ pkt.op = IF q.tx = <<>> THEN o.lastopcode ELSE o.opcode
        /\ pkt.final <=> q.tx = <<>>
        /\ pkt.id = o.id /\ pkt.n = n
        /\ pkt.mtu = IF o.nonhdr THEN MtuRx[Cli] ELSE 0
        /\ r.ctx \in CtxOf(Cli)
        /\ Is(r.ctx, "CLI", "START", q, stack[Cli], <<>>, <<pkt>>, {})
  <2>1. c.self.object = o /\ Goes(o.tx) /\ ~o.suspend
    BY <1>3, <1>4, <1>6 DEF Is
  <2>2. c.self.object \in Object
    BY <1>4, <2>1
  <2>3. PICK q \in Object, n \in Nat, pkt \in PacketFrom(Cli) :
          /\ Sends(o, q, n)
          /\ r.ret = IF q.tx = <<>> THEN 1 ELSE 0
          /\ pkt.op = IF q.tx = <<>> THEN o.lastopcode ELSE o.opcode
          /\ pkt.final <=> q.tx = <<>>
          /\ pkt.id = o.id /\ pkt.n = n
          /\ pkt.mtu = IF o.nonhdr THEN MtuRx[Cli] ELSE 0
          /\ r.ctx \in CtxOf(Cli)
          /\ Is(r.ctx, c.self.mode, c.self.state, q, c.frames, c.input,
                Append(c.out, pkt), c.seen)
    BY <1>1, <1>6, <1>7, <2>1, <2>2, ObjectSendIs, ZenonT(30)
  <2>4. Append(c.out, pkt) = <<pkt>>
    BY <1>6 DEF Is
  <2>5. QED
    BY <1>6, <2>3, <2>4 DEF Is
<1> DEFINE t   == [q EXCEPT !.sent = TRUE]
           top == Called("PROGRESS", "start", NoPacket, t)
           e   == SetObject(r.ctx, t)
<1>9. /\ t \in Object /\ t # NULL /\ t.id = nextId /\ t.cmd = cmd /\ t.opcode = cmd
      /\ t.lastopcode = cmd /\ t.tx = q.tx /\ t.n = Carries(n) /\ t.rx = <<>>
      /\ t.suspend = q.suspend /\ ~t.abort /\ ~t.cont /\ t.sent /\ ~t.nonhdr
      /\ (tx = <<>> => n = 0 /\ q.tx = <<>>)
  <2>1. /\ q.id = nextId /\ q.cmd = cmd /\ q.opcode = cmd /\ q.lastopcode = cmd
        /\ q.n = 0 + Carries(n) /\ q.rx = <<>> /\ ~q.abort /\ ~q.cont /\ ~q.nonhdr
        /\ (tx = <<>> => n = 0 /\ q.tx = <<>>)
    BY <1>4, <1>8 DEF Sends
  <2>2. 0 + Carries(n) = Carries(n)
    BY DEF Carries
  <2>3. QED
    BY <2>1, <2>2, NullAssumption DEF Object
<1>10. Goes(t.tx) /\ (Unhindered => Kind(t.tx) /\ ~t.suspend) /\ (t.suspend => t.tx # <<>>)
  BY <1>3, <1>4, <1>8, <1>9 DEF Sends
<1>11. Commit(Cli, Deliver(e, "PROGRESS", cmd, "start", NoPacket))
  <2>1. ~(r.ret < 0) /\ r.ctx.self.object = q
    BY <1>8 DEF Is
  <2>2. q.opcode = cmd
    BY <1>4, <1>8 DEF Sends
  <2>3. QED
    BY <1>7, <2>1, <2>2
<1> HIDE DEF t
<1>12. e \in CtxOf(Cli) /\ Is(e, "CLI", "START", t, stack[Cli], <<>>, <<pkt>>, {})
  BY <1>1, <1>8, <1>9, SetObjectIs DEF Is
<1> HIDE DEF e
<1>13. "PROGRESS" \in Events /\ "start" \in Labels /\ NoPacket \in PacketFrom(Peer(Cli))
  BY <1>1, NoPacketFrom, PeerOfPeer DEF Events, Labels
<1>14. /\ Deliver(e, "PROGRESS", cmd, "start", NoPacket) \in CtxOf(Cli)
       /\ Is(Deliver(e, "PROGRESS", cmd, "start", NoPacket), "CLI", "START", t,
             Append(stack[Cli], top), <<>>, <<pkt>>, {})
  <2>1. \A rsp \in Ops :
          /\ Deliver(e, "PROGRESS", rsp, "start", NoPacket) \in CtxOf(Cli)
          /\ Is(Deliver(e, "PROGRESS", rsp, "start", NoPacket), e.self.mode, e.self.state,
                e.self.object,
                Append(e.frames, Called("PROGRESS", "start", NoPacket, e.self.object)),
                e.input, e.out, e.seen \cup Notes("PROGRESS", rsp, e.self.object))
    BY <1>1, <1>12, <1>13, DeliverIs
  <2>2. Notes("PROGRESS", cmd, t) = {} /\ {} \cup {} = {}
    BY DEF Notes, Ends
  <2>3. /\ e.self.mode = "CLI" /\ e.self.state = "START" /\ e.self.object = t
        /\ e.frames = stack[Cli] /\ e.input = <<>> /\ e.out = <<pkt>> /\ e.seen = {}
    BY <1>12 DEF Is
  <2>4. QED
    BY <1>3, <2>1, <2>2, <2>3
<1>15. top \in FrameOf(Cli) /\ top.ev = "PROGRESS" /\ top.at = "start"
  BY <1>1, <1>9, <1>13, CalledFrame
<1> HIDE DEF top
<1> DEFINE frames == Append(stack[Cli], top)
<1>16. Nested(frames) /\ Last(frames) = "start"
  <2>1. At(Cli) \in {"none", "done"}
    BY <1>1 DEF InTurn, ClientIs
  <2>2. stack[Cli] \in Seq(FrameOf(Cli))
    BY <1>1, Types
  <2>3. QED
    BY <1>15, <2>1, <2>2, CliFrames, NestedAppend
<1> HIDE DEF frames
<1>17. CliDoes("CLI", "START", t, frames, <<>>, <<pkt>>, {})
  BY <1>1, <1>11, <1>14, CliCommits DEF frames
<1>18. /\ O' = t /\ P' = NULL /\ chan'[Cli] = <<>> /\ chan'[Srv] = <<>> \o <<pkt>>
       /\ seen'[Cli] = seen[Cli] \cup {} /\ seen'[Srv] = seen[Srv]
       /\ obex'[Cli].mode = "CLI" /\ obex'[Cli].state = "START" /\ obex'[Srv] = obex[Srv]
       /\ stack'[Cli] = frames /\ stack'[Srv] = stack[Srv] /\ UNCHANGED <<crashed, link>>
  BY <1>1, <1>17 DEF CliDoes, Quiet
<1>19. Now' = Now + 1 /\ Now' = nextId
  BY <1>1 DEF Now
<1>20. At(Srv)' = At(Srv) /\ Top(Srv)' = Top(Srv) /\ At(Cli)' = "start"
  BY <1>16, <1>18 DEF At, Top, InCallback, Last
<1>21. Smooth'
  BY <1>16, <1>18, <1>20 DEF InTurn, Smooth, Nested
<1>22. ServerIs'
  BY <1>1, <1>18, <1>20 DEF InTurn, ServerIs
<1>23. Retold /\ ~Served' /\ Now' \notin EndedAt(Srv)'
  <2>1. seen'[Cli] = seen[Cli]
    BY <1>18
  <2>2. Now < MaxRequests
    BY <1>1, BoundsAssumption DEF Request
  <2>3. QED
    BY <1>1, <1>9, <1>18, <1>19, <2>1, <2>2, ToldNew DEF InTurn
<1>24. ClientIs'
  <2>1. Queue(t)'
    BY <1>9, <1>10, <1>19 DEF Queue
  <2>2. Now' # 0
    BY <1>1, <1>19
  <2>3. QED
    BY <1>2, <1>3, <1>9, <1>18, <1>20, <2>1, <2>2 DEF ClientIs
<1>25. Ask(pkt)'
  <2>1. pkt.op = cmd /\ pkt.id = nextId /\ pkt.n = n /\ (pkt.final <=> t.tx = <<>>)
    BY <1>4, <1>8, <1>9
  <2>2. n \in {0, t.n}
    BY <1>8, <1>9, <1>4 DEF Sends, Carries
  <2>3. Requests(pkt)'
    BY <1>9, <1>18, <1>19, <2>1, <2>2 DEF Requests
  <2>4. cmd = "CONNECT" => pkt.mtu # 0
    BY <1>1, <1>4, <1>8, MtuAssumption
  <2>5. First(pkt)'
    BY <1>9, <1>18, <1>23, <2>1, <2>4 DEF First
  <2>6. Waits'
    BY <1>1, <1>18, <1>20 DEF Waits, InTurn, ServerIs
  <2>7. QED
    BY <1>9, <1>18, <1>23, <2>3, <2>5, <2>6 DEF Ask
<1>26. Free'
  BY <1>20 DEF Free
<1>27. Turn'
  <2>1. chan'[Srv] = <<pkt>> /\ Len(chan'[Srv]) = 1 /\ chan'[Srv][1] = pkt
    BY <1>18
  <2>2. QED
    BY <1>9, <1>18, <1>25, <1>26, <2>1 DEF Turn
<1>28. QED
  BY <1>21, <1>22, <1>23, <1>24, <1>27 DEF InTurn, Turns, Retold

(* With nothing cancelled and nothing failing, the steps that are left are *)
(* not taken.                                                              *)
LEMMA OthersDoNot ==
  ASSUME IInv, InTurn, Calm
  PROVE  /\ \A h \in Handles : ~CancelNice(h) /\ ~CancelHard(h) /\ ~ReadError(h)
                               /\ ~Disconnect(h)
         /\ ~LinkBreaks /\ ~Reconnect
         /\ ~SetRsp(Cli) /\ ~AddHeaders(Cli) /\ ~Request(Srv)
<1>1. \A h \in Handles : link[h] = "up"
  BY DEF InTurn, Smooth
<1>2. \A h \in Handles : ~CancelNice(h) /\ ~CancelHard(h) /\ ~ReadError(h)
  BY <1>1 DEF Calm, CancelNice, CancelHard, ReadError
<1>3. ~LinkBreaks /\ ~Reconnect
  BY <1>1, Types DEF Calm, LinkBreaks, Reconnect
<1>4. stack[Cli] # <<>> => Top(Cli).ev \in {"PROGRESS", "REQDONE"}
  <2>1. stack[Cli] # <<>> => Len(stack[Cli]) \in 1..Len(stack[Cli])
    BY Types, EmptySeq
  <2>2. QED
    BY <2>1 DEF InTurn, Smooth, Top
<1>5. stack[Srv] # <<>> =>
        Top(Srv).ev \in {"REQHINT", "REQCHECK", "REQ", "PROGRESS", "REQDONE"}
  BY DEF InTurn, Smooth
<1>6. \A h \in Handles : ~Disconnect(h)
  BY <1>4, <1>5, FlagsAssumption DEF Disconnect, InCallback, Handles
<1>7. ~SetRsp(Cli) /\ ~AddHeaders(Cli)
  BY <1>4 DEF SetRsp, AddHeaders, InCallback, Calm
<1>8. ~Request(Srv)
  BY HandlesDiffer DEF Request
<1>9. QED
  BY <1>2, <1>3, <1>6, <1>7, <1>8

(* The invariant holds at first.                                           *)
LEMMA InitTurn == Init => InTurn
<1> SUFFICES ASSUME Init
             PROVE  InTurn
  OBVIOUS
<1>1. /\ O = NULL /\ P = NULL /\ Now = 0 /\ At(Cli) = "none" /\ At(Srv) = "none"
      /\ obex[Srv].mode = "SRV" /\ obex[Srv].state = "IDLE"
  BY DEF Init, O, P, Now, At, InCallback, NewHandle, Handles
<1>2. /\ stack[Cli] = <<>> /\ stack[Srv] = <<>> /\ chan[Cli] = <<>> /\ chan[Srv] = <<>>
      /\ \A h \in Handles : seen[h] = {} /\ link[h] = "up"
      /\ seen[Cli] = {} /\ seen[Srv] = {} /\ crashed = {}
  BY DEF Init, Handles
<1>3. Smooth
  BY <1>2 DEF Smooth
<1>4. ClientIs /\ ServerIs
  BY <1>1 DEF ClientIs, ServerIs
<1>5. Turn
  BY <1>1, <1>2 DEF Turn, Quiet
<1>6. Told
  <2>1. EndedAt(Cli) = 1..0
    BY <1>2 DEF EndedAt
  <2>2. NoEarlyAnswer /\ AnswerAgrees
    BY <1>2 DEF NoEarlyAnswer, AnswerAgrees
  <2>3. QED
    BY <1>1, <1>2, <2>1, <2>2 DEF Told, Distinct, Handles
<1>7. QED
  BY <1>3, <1>4, <1>5, <1>6 DEF InTurn

(* A step in which nothing happens.                                        *)
LEMMA StutterTurn ==
  ASSUME InTurn, UNCHANGED vars
  PROVE  Turns
<1>1. /\ UNCHANGED <<obex, stack, chan, link, crashed, nextId, seen>>
  BY DEF vars
<1>2. /\ O' = O /\ P' = P /\ Now' = Now
      /\ \A h \in Handles : InCallback(h)' = InCallback(h) /\ Top(h)' = Top(h)
  BY <1>1 DEF O, P, Now, InCallback, Top
<1>3. At(Cli)' = At(Cli) /\ At(Srv)' = At(Srv) /\ Top(Cli)' = Top(Cli) /\ Top(Srv)' = Top(Srv)
  BY <1>1 DEF At, Top, InCallback
<1>4. Smooth'
  BY <1>1, <1>3 DEF InTurn, Smooth
<1>5. ClientIs'
  BY <1>1, <1>2, <1>3 DEF InTurn, ClientIs, Queue
<1>6. Served' <=> Served
  BY <1>1, <1>2 DEF Served
<1>7. ServerIs'
  <2>1. (Serving' <=> Serving) /\ (Asked' <=> Asked)
    BY <1>1, <1>2, <1>3 DEF Serving, Asked
  <2>2. QED
    BY <1>1, <1>2, <1>3, <1>6, <2>1 DEF InTurn, ServerIs, Queue
<1>8. Turn'
  <2>1. (Waits' <=> Waits) /\ (Has' <=> Has) /\ EndedAt(Srv)' = EndedAt(Srv)
        /\ (Free' <=> Free) /\ (Quiet' <=> Quiet)
    BY <1>1, <1>2, <1>3 DEF Waits, Has, EndedAt, Free, Quiet
  <2>2. ASSUME NEW p
        PROVE  (Requests(p)' <=> Requests(p)) /\ (First(p)' <=> First(p))
    BY <1>2, <1>6 DEF Requests, First
  <2>3. ASSUME NEW p
        PROVE  (Ask(p) => Ask(p)') /\ (Answer(p) => Answer(p)')
    <3>1. Ask(p) => Ask(p)'
      BY <1>1, <1>2, <1>6, <2>1, <2>2 DEF Ask, Arrived
    <3>2. Answer(p) => Answer(p)'
      BY <1>1, <1>2, <2>1 DEF Answer, Arrived
    <3>3. QED
      BY <3>1, <3>2
  <2>4. Think => Think'
    BY <1>2, <1>3, <2>1, <2>2 DEF Think
  <2>5. Hold => Hold'
    BY <1>2, <1>3, <2>1 DEF Hold
  <2>6. QED
    BY <1>1, <1>2, <2>1, <2>3, <2>4, <2>5 DEF InTurn, Turn
<1>9. Retold
  <2>1. EndedAt(Cli)' = EndedAt(Cli) /\ EndedAt(Srv)' = EndedAt(Srv)
    BY <1>1 DEF EndedAt
  <2>2. NoEarlyAnswer' /\ AnswerAgrees'
    BY <1>1 DEF InTurn, Told, NoEarlyAnswer, AnswerAgrees
  <2>3. \A h \in Handles : seen'[h] = seen[h]
    BY <1>1
  <2>4. Told'
    BY <1>1, <1>2, <2>1, <2>2, <2>3 DEF InTurn, Told
  <2>5. QED
    BY <1>1, <1>2, <2>4, SeemsSame DEF Retold
<1>10. QED
  BY <1>4, <1>5, <1>7, <1>8, <1>9 DEF InTurn, Turns, Retold

(* Every step keeps it.                                                    *)
LEMMA NextTurn ==
  ASSUME Calm, IInv, InTurn, [Next]_vars
  PROVE  Turns
<1>1. CASE UNCHANGED vars
  BY <1>1, StutterTurn
<1>2. ASSUME NEW h \in Handles, HandleInput(h) \/ Return(h)
      PROVE  Turns
  BY <1>2, SrvInput, CliInput, SrvReturns, CliReturns DEF Handles
<1>3. ASSUME NEW h \in Handles, Request(h) \/ SetRsp(h) \/ AddHeaders(h)
      PROVE  Turns
  BY <1>3, OthersDoNot, RequestTurn, SetRspTurn, AddHeadersTurn DEF Handles
<1>4. ASSUME NEW h \in Handles, Suspend(h) \/ Resume(h)
      PROVE  Turns
  BY <1>4, SrvSuspendTurn, CliSuspendTurn, SrvResumeTurn, CliResumeTurn DEF Handles
<1>5. QED
  BY <1>1, <1>2, <1>3, <1>4, OthersDoNot DEF Next

(* While nothing is cancelled and nothing fails, it is always somebody's   *)
(* turn: the packet in flight or the callback that runs is the one next in *)
(* the exchange, and both objects agree on what was sent.                  *)
THEOREM TurnInvariance == Calm => (Spec => []InTurn)
<1> SUFFICES ASSUME Calm
             PROVE  Spec => []InTurn
  OBVIOUS
<1>1. IInv /\ InTurn /\ [Next]_vars => InTurn'
  BY NextTurn DEF Turns
<1>2. QED
  BY <1>1, InitTurn, Invariance, PTL DEF Spec

-----------------------------------------------------------------------------
(* What it is good for.                                                    *)

(* One packet is on its way at most.                                       *)
LEMMA TurnLockStep ==
  ASSUME IInv, InTurn
  PROVE  LockStep
<1>1. Quiet \/ (chan[Cli] = <<>> /\ Len(chan[Srv]) = 1)
        \/ (chan[Srv] = <<>> /\ Len(chan[Cli]) = 1)
  BY DEF InTurn, Turn
<1>2. CASE Quiet
  <2>1. Len(chan[Cli]) = 0 /\ Len(chan[Srv]) = 0
    BY <1>2 DEF Quiet
  <2>2. QED
    BY <2>1 DEF LockStep
<1>3. CASE chan[Cli] = <<>> /\ Len(chan[Srv]) = 1
  <2>1. Len(chan[Cli]) = 0
    BY <1>3
  <2>2. QED
    BY <1>3, <2>1 DEF LockStep
<1>4. CASE chan[Srv] = <<>> /\ Len(chan[Cli]) = 1
  <2>1. Len(chan[Srv]) = 0
    BY <1>4
  <2>2. QED
    BY <1>4, <2>1 DEF LockStep
<1>5. QED
  BY <1>1, <1>2, <1>3, <1>4

(* A client that waits and is not held back: a packet is on its way, or it *)
(* is for the server to go on.                                             *)
LEMMA TurnNotStuck ==
  ASSUME IInv, InTurn
  PROVE  NotStuck
<1> SUFFICES ASSUME Waiting(Cli), chan[Cli] = <<>>, chan[Srv] = <<>>
             PROVE  Held(Srv)
  BY DEF NotStuck
<1>1. O # NULL /\ ~O.suspend
  BY DEF Waiting, HasObject, O
<1>2. Think
  BY <1>1 DEF InTurn, Turn, Hold
<1>3. CASE At(Srv) \in {"hint", "check", "req"}
  BY <1>3 DEF At, Held
<1>4. CASE P.suspend
  BY <1>2, <1>4 DEF Think, Held, HasObject, P
<1>5. QED
  BY <1>2, <1>3, <1>4 DEF Think

(* In the callback OBEX_EV_REQ the server has all that the client sent, and *)
(* the client has no more.                                                  *)
LEMMA TurnWholeRequest ==
  ASSUME IInv, InTurn
  PROVE  WholeRequest
<1>1. \A e \in seen[Srv] : e.ev = "REQ" => e.rx = Fragments(e.id, Len(e.rx))
  BY DEF InTurn, Told
<1>2. ASSUME InCallback(Srv), Top(Srv).ev = "REQ", P # NULL, O # NULL
      PROVE  O.n = Len(P.rx) /\ O.tx = <<>>
  <2>1. At(Srv) = "req"
    BY <1>2, SrvFrames DEF InTurn, Smooth, At, InCallback
  <2>2. Served /\ O.tx = <<>>
    BY <1>2, <2>1 DEF InTurn, ServerIs, Asked, Serving
  <2>3. Has
    BY <1>2, <2>1 DEF InTurn, Turn, Ask, Think, Answer, Hold, Waits
  <2>4. O.n \in Nat
    BY <1>2, Types DEF Object
  <2>5. QED
    BY <2>2, <2>3, <2>4, FragmentsLen DEF Has
<1>3. QED
  BY <1>1, <1>2 DEF WholeRequest, HasObject, O, P

(* While nothing is cancelled and nothing fails, and however often either  *)
(* application suspends and resumes (obex_object_suspend,                  *)
(* obex_object_resume): the two sides send in turn, one packet at a time,  *)
(* somebody can always go on, a request is delivered whole, answered       *)
(* SUCCESS only then, and the client is told the answer that was given.    *)
THEOREM Order == Calm => (Spec => []Orderly)
<1> SUFFICES ASSUME Calm
             PROVE  Spec => []Orderly
  OBVIOUS
<1>1. IInv /\ InTurn => Orderly
  BY TurnLockStep, TurnNotStuck, TurnWholeRequest DEF Orderly, Answered, InTurn, Told
<1>2. QED
  BY <1>1, TurnInvariance, Invariance, PTL

(* ... and neither handle dereferences an object that is gone, nor is an   *)
(* application told twice that a request has ended.                        *)
THEOREM EndsOnceInTurn == Calm => (Spec => [](NoCrash /\ EndsOnce))
<1> SUFFICES ASSUME Calm
             PROVE  Spec => [](NoCrash /\ EndsOnce)
  OBVIOUS
<1>1. InTurn => NoCrash /\ EndsOnce
  <2>1. ASSUME Told
        PROVE  EndsOnce
    <3>1. \A h \in Handles : \A e \in seen[h] : e.ev \in Ends => e.ev = "REQDONE"
      BY <2>1 DEF Told, Ends
    <3>2. \A h \in Handles : Distinct(seen[h])
      BY <2>1 DEF Told
    <3>3. QED
      BY <3>1, <3>2 DEF EndsOnce, Distinct
  <2>2. QED
    BY <2>1 DEF InTurn, Smooth, NoCrash
<1>2. QED
  BY <1>1, TurnInvariance, PTL

(* A client that is not held back may have kept its flag, but then it has  *)
(* nothing more to send; a server whose flag is set is held back.          *)
LEMMA TurnFlags ==
  ASSUME InTurn
  PROVE  ContinueIsOurTurn
<1>1. /\ \A h \in Handles : ~InCallback(h) => At(h) = "none"
      /\ MaySend(Cli) => O # NULL /\ At(Cli) = "none" /\ O.cont /\ O.suspend
      /\ MaySend(Srv) => P # NULL /\ At(Srv) = "none" /\ P.cont /\ P.suspend
  BY DEF MaySend, HasObject, At, O, P, Handles
<1>2. O # NULL /\ O.suspend => O.tx # <<>>
  BY DEF InTurn, ClientIs, Queue
<1>3. Waits => ~MaySend(Srv)
  BY <1>1 DEF Waits
<1>4. ASSUME MaySend(Cli)
      PROVE  Quiet /\ ~MaySend(Srv)
  <2>1. ~Free
    BY <1>1, <1>2, <1>4 DEF Free
  <2>2. QED
    BY <1>1, <1>3, <1>4, <2>1 DEF InTurn, Turn, Hold
<1>5. ASSUME P # NULL, At(Srv) = "none", P.cont
      PROVE  Quiet /\ P.suspend
  <2>1. O # NULL /\ ~Waits
    BY <1>5 DEF InTurn, ServerIs, Waits
  <2>2. Quiet /\ Think
    BY <2>1 DEF InTurn, Turn, Ask, Answer, Hold
  <2>3. QED
    BY <1>5, <2>2 DEF Think
<1>6. ASSUME O # NULL, At(Cli) = "none", O.cont, ~O.suspend
      PROVE  O.tx = <<>>
  BY <1>6 DEF InTurn, Turn, Free, Hold
<1>7. ResumesInTurn
  <2>1. \A h \in Handles : MaySend(h) => Quiet /\ ~MaySend(Peer(h))
    BY <1>1, <1>4, <1>5, HandlesDiffer DEF Handles, Peer
  <2>2. QED
    BY <2>1 DEF ResumesInTurn, Quiet
<1>8. ASSUME NEW h \in Handles, HasObject(h), ~InCallback(h), obex[h].object.cont,
             ~MaySend(h)
      PROVE  h = Cli /\ obex[h].object.tx = <<>>
  <2>1. obex[h].object # NULL /\ ~obex[h].object.suspend /\ At(h) = "none"
    BY <1>1, <1>8 DEF MaySend, HasObject
  <2>2. h # Srv
    BY <1>5, <1>8, <2>1 DEF P
  <2>3. QED
    BY <1>6, <1>8, <2>1, <2>2 DEF Handles, O
<1>9. QED
  BY <1>7, <1>8 DEF ContinueIsOurTurn

(* However often the two applications suspend and resume, continue_received *)
(* says what its comment in obex_object.h says and obex_object_resume       *)
(* relies on: a side that is held back with the flag set has the turn,      *)
(* alone, and nothing is on its way; the flag is used up by what is sent,   *)
(* but for a client resumed with its last packet, which keeps it.           *)
THEOREM ContinueMeansOurTurn == Calm => (Spec => []ContinueIsOurTurn)
<1> SUFFICES ASSUME Calm
             PROVE  Spec => []ContinueIsOurTurn
  OBVIOUS
<1>1. QED
  BY TurnFlags, TurnInvariance, PTL

(* Seen in the events alone, the two handles are the exchange that          *)
(* ObexExchange describes: requests are made one at a time, each is given   *)
(* to the serving application at most once (OBEX_EV_REQ) and answered once  *)
(* (its OBEX_EV_REQDONE), and that answer is the one the requesting         *)
(* application is told (OBEX_EV_REQDONE).                                    *)
THEOREM Refinement == Calm => (Spec => ImplementsExchange)
<1> SUFFICES ASSUME Calm
             PROVE  Spec => ImplementsExchange
  OBVIOUS
<1>1. Init => Exchange!Init
  <2> SUFFICES ASSUME Init
               PROVE  Exchange!Init
    OBVIOUS
  <2>1. nextId - 1 = 0 /\ seen[Cli] = {} /\ seen[Srv] = {}
    BY DEF Init, Handles
  <2>2. QED
    BY <2>1 DEF Exchange!Init, AnswersSeen
<1>2. IInv /\ InTurn /\ [Next]_vars => [Exchange!Next]_(Exchange!vars)
  <2>1. Turns => [Exchange!Next]_(Exchange!vars)
    BY DEF Turns, Advances, Seems, Given, Now, Exchange!vars
  <2>2. QED
    BY <2>1, NextTurn
<1>3. QED
  BY <1>1, <1>2, TurnInvariance, Invariance, PTL DEF Spec, ImplementsExchange, Exchange!Spec
=============================================================================
