------------------------- MODULE ObexSessionProofs -------------------------
(***************************************************************************)
(* Theorems of ObexSession: its type invariant, that a handle never sends  *)
(* packets larger than its peer receives, that the branch STATE_SEND of    *)
(* obex_client is never taken, and, with suspends, cancels and failures at *)
(* any point, that no handler dereferences a missing object and that an    *)
(* aborted request sends nothing more.                                     *)
(*                                                                         *)
(* The first three are proved together, from one inductive invariant.  It  *)
(* says of every context a library call works on (see CtxOf) what TypeOK   *)
(* says and three things more: a connect frame carries the MTU its sender  *)
(* receives, so a context holds packets of its peer and of itself          *)
(* separately; STATE_SEND goes with server mode; and STATE_START lasts no  *)
(* longer than the callback of OBEX_Request.  Each operation on contexts   *)
(* keeps a context of that kind (the lemmas), so that each handler does.   *)
(*                                                                         *)
(* The other two take a second invariant on top of it (Sound, at the end): *)
(* a callback is about the object its handle has, and a handle without one *)
(* is idle, is told so, or has a connection nobody uses.                   *)
(***************************************************************************)
EXTENDS ObexSession, SequenceTheorems, TLAPS

\* The packets a handle sends.
PacketFrom(h) ==
  [op : Ops, final : BOOLEAN, id : Ids, n : Nat, mtu : {0, MtuRx[h]}]

FrameOf(h) == [ev : Events, at : Labels, pkt : PacketFrom(Peer(h)), id : Ids]

SelfOf(h) ==
  {s \in [mode : {"SRV", "CLI"}, state : {"IDLE", "START", "SEND", "REC"},
          object : Object \cup {NULL}, mtu_tx : 0..MtuRx[Peer(h)]] :
     s.state = "SEND" => s.mode = "SRV"}

CtxOf(h) ==
  [self : SelfOf(h), frames : Seq(FrameOf(h)), input : Seq(PacketFrom(Peer(h))),
   out : Seq(PacketFrom(h)), seen : SUBSET Seen, faults : 0..MaxFaults]

Linked(h) == link[h] \in {"up", "lost", "closed"}

\* While a handle is starting a request, the callback of OBEX_Request runs.
Starting(c) ==
  c.self.state = "START" =>
    c.self.mode = "CLI" /\ \E i \in 1..Len(c.frames) : c.frames[i].at = "start"

\* What every handler does: it commits a context of its handle, or crashes.
Commits(h) == Crash(h) \/ \E c \in CtxOf(h) : Starting(c) /\ Commit(h, c)

\* The inductive invariant.
IInv ==
  /\ TypeOK
  /\ \A h \in Handles : Ctx(h) \in CtxOf(h) /\ Starting(Ctx(h))

-----------------------------------------------------------------------------
(* The handles and the packets.                                             *)

\* The peer of a handle is the other handle.
LEMMA PeerOfPeer == \A h \in Handles : Peer(h) \in Handles /\ Peer(Peer(h)) = h
BY HandlesDiffer DEF Handles, Peer

\* The packets a handle sends are packets.
LEMMA PacketsFrom == \A h \in Handles : PacketFrom(h) \subseteq Packet
BY MtuAssumption DEF PacketFrom, Packet

\* The packet of a callback that needs none is one any handle may send.
LEMMA NoPacketFrom == \A h \in Handles : NoPacket \in PacketFrom(h)
BY BoundsAssumption DEF NoPacket, PacketFrom, Ops, Cmds, Rsps, Ids

-----------------------------------------------------------------------------
(* The operations on contexts.                                              *)

\* Replacing the object, or taking it away.
LEMMA SetObjectCtx ==
  ASSUME NEW h \in Handles, NEW c \in CtxOf(h), NEW o \in Object \cup {NULL}
  PROVE  /\ SetObject(c, o) \in CtxOf(h)
         /\ SetObject(c, o).self.object = o
         /\ SetObject(c, o).self.mode = c.self.mode
         /\ Starting(c) => Starting(SetObject(c, o))
BY DEF CtxOf, SelfOf, SetObject, Starting

\* A new state: STATE_SEND is entered in server mode only.
LEMMA SetStateCtx ==
  ASSUME NEW h \in Handles, NEW c \in CtxOf(h), NEW mode \in {"SRV", "CLI"},
         NEW state \in {"IDLE", "START", "SEND", "REC"},
         state = "SEND" => mode = "SRV"
  PROVE  /\ SetState(c, mode, state) \in CtxOf(h)
         /\ SetState(c, mode, state).self.object = c.self.object
         /\ state # "START" => Starting(SetState(c, mode, state))
BY DEF CtxOf, SelfOf, SetState, Starting

\* A new send MTU the peer can receive.
LEMMA SetMtuCtx ==
  ASSUME NEW h \in Handles, NEW c \in CtxOf(h), NEW mtu \in 0..MtuRx[Peer(h)]
  PROVE  /\ SetMtu(c, mtu) \in CtxOf(h)
         /\ SetMtu(c, mtu).self.object = c.self.object
         /\ SetMtu(c, mtu).faults = c.faults
         /\ Starting(c) => Starting(SetMtu(c, mtu))
BY DEF CtxOf, SelfOf, SetMtu, Starting

\* One more fault, within the bound.
LEMMA FaultCtx ==
  ASSUME NEW h \in Handles, NEW c \in CtxOf(h), c.faults < MaxFaults
  PROVE  /\ Fault(c) \in CtxOf(h)
         /\ Fault(c).self = c.self
         /\ Starting(c) => Starting(Fault(c))
<1>1. MaxFaults \in Nat
  BY BoundsAssumption
<1>2. c.faults \in 0..MaxFaults
  BY DEF CtxOf
<1>3. c.faults + 1 \in 0..MaxFaults
  BY <1>1, <1>2
<1> QED
  BY <1>3 DEF CtxOf, Fault, Starting

\* The request of an object, 0 without one.
LEMMA IdOfObject == \A o \in Object \cup {NULL} : IdOf(o) \in Ids
BY BoundsAssumption DEF IdOf, Object, Ids

\* Delivering an event: one more frame, and what the history keeps of it.
LEMMA DeliverCtx ==
  ASSUME NEW h \in Handles, NEW c \in CtxOf(h), NEW ev \in Events, NEW rsp \in Ops,
         NEW at \in Labels, NEW pkt \in PacketFrom(Peer(h))
  PROVE  /\ Deliver(c, ev, rsp, at, pkt) \in CtxOf(h)
         /\ Deliver(c, ev, rsp, at, pkt).self = c.self
         /\ Starting(c) => Starting(Deliver(c, ev, rsp, at, pkt))
         /\ (at = "start" /\ c.self.mode = "CLI") => Starting(Deliver(c, ev, rsp, at, pkt))
<1> DEFINE o == c.self.object
           f == [ev |-> ev, at |-> at, pkt |-> pkt, id |-> IdOf(o)]
           d == Deliver(c, ev, rsp, at, pkt)
<1>1. o \in Object \cup {NULL}
  BY DEF CtxOf, SelfOf
<1>2. f \in FrameOf(h)
  BY <1>1, IdOfObject DEF FrameOf
<1>3. /\ c.frames \in Seq(FrameOf(h))
      /\ Append(c.frames, f) \in Seq(FrameOf(h))
      /\ Len(Append(c.frames, f)) = Len(c.frames) + 1
      /\ Len(c.frames) \in Nat
      /\ \A i \in 1..Len(c.frames) : Append(c.frames, f)[i] = c.frames[i]
      /\ Append(c.frames, f)[Len(c.frames) + 1] = f
  BY <1>2, AppendProperties, LenProperties DEF CtxOf
<1>4. ASSUME o # NULL, ev \in Ends \cup {"REQ"}
      PROVE  [ev |-> ev, id |-> o.id, rsp |-> rsp, n |-> o.n, rx |-> o.rx] \in Seen
  BY <1>1, <1>4 DEF Object, Seen
<1>5. /\ d.self = c.self
      /\ d.frames = Append(c.frames, f)
  BY DEF Deliver, CtxOf
<1>6. d \in CtxOf(h)
  BY <1>3, <1>4 DEF Deliver, CtxOf
<1>7. ASSUME Starting(c)
      PROVE  Starting(d)
  <2>1. SUFFICES ASSUME d.self.state = "START"
                 PROVE  d.self.mode = "CLI" /\ \E i \in 1..Len(d.frames) : d.frames[i].at = "start"
    BY DEF Starting
  <2>2. PICK i \in 1..Len(c.frames) : c.frames[i].at = "start"
    BY <1>5, <1>7, <2>1 DEF Starting
  <2>3. i \in 1..Len(d.frames) /\ d.frames[i].at = "start"
    BY <1>3, <1>5, <2>2
  <2> QED
    BY <1>5, <1>7, <2>1, <2>3 DEF Starting
<1>8. ASSUME at = "start", c.self.mode = "CLI"
      PROVE  Starting(d)
  <2>1. Len(c.frames) + 1 \in 1..Len(d.frames) /\ d.frames[Len(c.frames) + 1].at = "start"
    BY <1>3, <1>5, <1>8
  <2> QED
    BY <1>5, <1>8, <2>1 DEF Starting
<1> QED
  BY <1>5, <1>6, <1>7, <1>8

\* Delivering the last event of an object.
LEMMA DeliverLastCtx ==
  ASSUME NEW h \in Handles, NEW c \in CtxOf(h), NEW ev \in Events, NEW rsp \in Ops,
         NEW at \in Labels
  PROVE  /\ DeliverLast(c, ev, rsp, at) \in CtxOf(h)
         /\ Starting(c) => Starting(DeliverLast(c, ev, rsp, at))
<1>1. NoPacket \in PacketFrom(Peer(h))
  BY NoPacketFrom, PeerOfPeer
<1>2. /\ Deliver(c, ev, rsp, at, NoPacket) \in CtxOf(h)
      /\ Starting(c) => Starting(Deliver(c, ev, rsp, at, NoPacket))
  BY <1>1, DeliverCtx
<1> QED
  BY <1>2, SetObjectCtx DEF DeliverLast

\* Handing a packet of its own to the transport.
LEMMA OutCtx ==
  ASSUME NEW h \in Handles, NEW c \in CtxOf(h), NEW pkt \in PacketFrom(h)
  PROVE  LET d == [c EXCEPT !.out = Append(@, pkt)]
         IN  d \in CtxOf(h) /\ d.self = c.self /\ (Starting(c) => Starting(d))
<1>1. Append(c.out, pkt) \in Seq(PacketFrom(h))
  BY AppendProperties DEF CtxOf
<1> QED
  BY <1>1 DEF CtxOf, Starting

\* Writing a packet, whether that succeeds or not.
LEMMA WritesCtx ==
  ASSUME NEW h \in Handles, NEW c \in CtxOf(h), NEW pkt \in PacketFrom(h),
         Linked(h), NEW w \in Writes(h, c, pkt)
  PROVE  /\ w.ctx \in CtxOf(h) /\ w.ctx.self = c.self
         /\ Starting(c) => Starting(w.ctx)
<1> DEFINE d == [c EXCEPT !.out = Append(@, pkt)]
<1>1. w.ctx = c \/ w.ctx = d
  BY DEF Writes, Linked
<1>2. d \in CtxOf(h) /\ d.self = c.self /\ (Starting(c) => Starting(d))
  BY OutCtx
<1> HIDE DEF d
<1> QED
  BY <1>1, <1>2

\* Answering at once.
LEMMA RespondCtx ==
  ASSUME NEW h \in Handles, NEW c \in CtxOf(h), NEW rsp \in Ops
  PROVE  /\ Respond(h, c, rsp) \in CtxOf(h)
         /\ Respond(h, c, rsp).self = c.self
         /\ Respond(h, c, rsp).faults = c.faults
         /\ Starting(c) => Starting(Respond(h, c, rsp))
<1> DEFINE pkt == [op |-> rsp, final |-> TRUE, id |-> IdOf(c.self.object), n |-> 0,
                   mtu |-> 0]
<1>1. c.self.object \in Object \cup {NULL}
  BY DEF CtxOf, SelfOf
<1>2. pkt \in PacketFrom(h)
  BY <1>1, IdOfObject DEF PacketFrom
<1> HIDE DEF pkt
<1>3. [c EXCEPT !.out = Append(@, pkt)].faults = c.faults
  BY DEF CtxOf
<1> QED
  BY <1>2, <1>3, OutCtx DEF Respond, pkt
-----------------------------------------------------------------------------
(* obex_object_send, obex_object_receive, obex_parse_connect_header.        *)

\* What one packet takes from the queues of an object leaves an object.
LEMMA FillsObject ==
  ASSUME NEW h \in Handles, NEW o \in Object, NEW f \in Fills(h, o)
  PROVE  f.obj \in Object /\ f.n \in Nat /\ f.cost \in {0, 1}
<1>1. o.n \in Nat /\ o.n + 1 \in Nat /\ o.tx \in Seq(Kinds)
  BY DEF Object
<1>2. o.tx # <<>> => Tail(o.tx) \in Seq(Kinds)
  BY <1>1, HeadTailProperties
<1> DEFINE take(tx, suspend) == [o EXCEPT !.tx = tx, !.n = @ + 1, !.suspend = suspend]
<1>3. \A tx \in Seq(Kinds), suspend \in BOOLEAN : take(tx, suspend) \in Object
  BY <1>1 DEF Object
<1>4. [o EXCEPT !.suspend = TRUE] \in Object
  BY DEF Object
<1> HIDE DEF take
<1>5. CASE f = [ok |-> TRUE, cost |-> 0, n |-> 0, obj |-> o]
  BY <1>5
<1>6. CASE f = [ok |-> TRUE, cost |-> 1, n |-> 0, obj |-> [o EXCEPT !.suspend = TRUE]]
  BY <1>4, <1>6
<1>7. CASE f = [ok |-> FALSE, cost |-> 1, n |-> 0, obj |-> o]
  BY <1>7
<1>8. CASE /\ o.tx # <<>>
           /\ f = [ok |-> TRUE, cost |-> 0, n |-> o.n + 1,
                   obj |-> take(Tail(o.tx), Head(o.tx) = "suspend")]
  <2>1. f.obj = take(Tail(o.tx), Head(o.tx) = "suspend") /\ f.n = o.n + 1 /\ f.cost = 0
    BY <1>8
  <2> QED
    BY <1>1, <1>2, <1>3, <1>8, <2>1
<1>9. CASE f = [ok |-> TRUE, cost |-> 0, n |-> o.n + 1, obj |-> take(o.tx, FALSE)]
  <2>1. f.obj = take(o.tx, FALSE) /\ f.n = o.n + 1 /\ f.cost = 0
    BY <1>9
  <2> QED
    BY <1>1, <1>3, <2>1
<1> QED
  BY <1>5, <1>6, <1>7, <1>8, <1>9 DEF Fills, take

\* The packet made of it is one its handle sends.
LEMMA PackedFrom ==
  ASSUME NEW h \in Handles, NEW f, f.obj \in Object, f.n \in Nat, NEW op \in Ops,
         NEW forcefinalbit \in BOOLEAN
  PROVE  Packed(h, f, op, forcefinalbit) \in PacketFrom(h)
BY DEF Packed, PacketFrom, Object

\* obex_object_send on an object leaves an object and a context of its kind.
LEMMA ObjectSendCtx ==
  ASSUME NEW h \in Handles, NEW c \in CtxOf(h), c.self.object \in Object,
         Linked(h),
         NEW allowfinalcmd \in BOOLEAN, NEW forcefinalbit \in BOOLEAN,
         NEW r \in ObjectSend(h, c, allowfinalcmd, forcefinalbit)
  PROVE  /\ r.ctx \in CtxOf(h) /\ r.ret \in {-1, 0, 1}
         /\ r.ctx.self.object \in Object
         /\ r.ctx.self.mode = c.self.mode /\ r.ctx.self.state = c.self.state
         /\ Starting(c) => Starting(r.ctx)
<1> DEFINE o == c.self.object
<1>1. o \in Object
  OBVIOUS
<1>2. CASE o.suspend
  <2>1. r = [ret |-> 0, ctx |-> c]
    BY <1>2 DEF ObjectSend
  <2> QED
    BY <1>1, <2>1
<1>3. CASE ~o.suspend
  <2> DEFINE done(f) == Finished(f.obj, allowfinalcmd)
             pkt(f)  == Packed(h, f, IF done(f) THEN o.lastopcode ELSE o.opcode,
                               forcefinalbit)
             obj(f)  == [f.obj EXCEPT !.nonhdr = FALSE]
             left(f) == [SetObject(c, obj(f)) EXCEPT !.faults = @ + f.cost]
  <2>1. PICK f \in Fills(h, o) :
          /\ c.faults + f.cost <= MaxFaults
          /\ r \in IF f.ok
                   THEN {[ret |-> IF ~w.ok THEN -1 ELSE IF done(f) THEN 1 ELSE 0,
                          ctx |-> w.ctx] : w \in Writes(h, left(f), pkt(f))}
                   ELSE {[ret |-> -1, ctx |-> left(f)]}
    BY <1>3 DEF ObjectSend
  <2>2. f.obj \in Object /\ f.n \in Nat /\ f.cost \in {0, 1}
    BY <1>1, FillsObject
  <2>3. pkt(f) \in PacketFrom(h)
    <3>1. (IF done(f) THEN o.lastopcode ELSE o.opcode) \in Ops
      BY <1>1 DEF Object
    <3> QED
      BY <2>2, <3>1, PackedFrom
  <2>4. /\ left(f) \in CtxOf(h)
        /\ left(f).self.object \in Object
        /\ left(f).self.mode = c.self.mode /\ left(f).self.state = c.self.state
        /\ Starting(c) => Starting(left(f))
    <3>1. obj(f) \in Object
      BY <2>2 DEF Object
    <3>2. /\ SetObject(c, obj(f)) \in CtxOf(h)
          /\ SetObject(c, obj(f)).self.object = obj(f)
          /\ Starting(c) => Starting(SetObject(c, obj(f)))
      BY <3>1, SetObjectCtx
    <3>3. /\ SetObject(c, obj(f)).faults = c.faults
          /\ SetObject(c, obj(f)).self.mode = c.self.mode
          /\ SetObject(c, obj(f)).self.state = c.self.state
      BY DEF SetObject, CtxOf, SelfOf
    <3>4. c.faults + f.cost \in 0..MaxFaults
      <4>1. MaxFaults \in Nat
        BY BoundsAssumption
      <4>2. c.faults \in 0..MaxFaults
        BY DEF CtxOf
      <4> QED
        BY <2>1, <2>2, <4>1, <4>2
    <3> HIDE DEF obj
    <3> QED
      BY <3>1, <3>2, <3>3, <3>4 DEF CtxOf, Starting
  <2> HIDE DEF left, pkt, done
  <2>5. CASE f.ok
    <3>1. PICK w \in Writes(h, left(f), pkt(f)) :
            r = [ret |-> IF ~w.ok THEN -1 ELSE IF done(f) THEN 1 ELSE 0, ctx |-> w.ctx]
      BY <2>1, <2>5
    <3>2. /\ w.ctx \in CtxOf(h) /\ w.ctx.self = left(f).self
          /\ Starting(left(f)) => Starting(w.ctx)
      BY <2>3, <2>4, WritesCtx
    <3> QED
      BY <2>4, <3>1, <3>2
  <2>6. CASE ~f.ok
    BY <2>1, <2>4, <2>6
  <2> QED
    BY <2>5, <2>6
<1> QED
  BY <1>2, <1>3

\* obex_object_receive keeps the object and appends what the packet carries.
LEMMA ObjectReceiveCtx ==
  ASSUME NEW h \in Handles, NEW c \in CtxOf(h), c.self.object \in Object,
         NEW pkt \in PacketFrom(Peer(h)), NEW r \in ObjectReceive(c, pkt)
  PROVE  /\ r.ctx \in CtxOf(h)
         /\ r.ctx.self.object \in Object
         /\ r.ctx.self.mode = c.self.mode /\ r.ctx.self.state = c.self.state
         /\ Starting(c) => Starting(r.ctx)
<1> DEFINE o  == c.self.object
           rx == IF pkt.n = 0 THEN o.rx ELSE Append(o.rx, <<pkt.id, pkt.n>>)
           p  == [o EXCEPT !.rx = rx]
<1>1. o \in Object
  OBVIOUS
<1>2. rx \in Seq(Ids \X Nat)
  <2>1. <<pkt.id, pkt.n>> \in Ids \X Nat
    BY DEF PacketFrom
  <2>2. o.rx \in Seq(Ids \X Nat)
    BY <1>1 DEF Object
  <2> QED
    BY <2>1, <2>2, AppendProperties
<1>3. p \in Object
  BY <1>1, <1>2 DEF Object
<1>4. /\ SetObject(c, p) \in CtxOf(h) /\ SetObject(c, p).self.object = p
      /\ Starting(c) => Starting(SetObject(c, p))
  BY <1>3, SetObjectCtx
<1>5. SetObject(c, p).self.mode = c.self.mode /\ SetObject(c, p).self.state = c.self.state
  BY DEF SetObject, CtxOf, SelfOf
<1>6. \/ r.ctx = SetObject(c, p)
      \/ c.faults < MaxFaults /\ r.ctx = Fault(c)
  BY DEF ObjectReceive
<1> HIDE DEF p
<1>7. CASE r.ctx = SetObject(c, p)
  BY <1>3, <1>4, <1>5, <1>7
<1>8. CASE c.faults < MaxFaults /\ r.ctx = Fault(c)
  BY <1>1, <1>8, FaultCtx
<1> QED
  BY <1>6, <1>7, <1>8

\* obex_parse_connect_header takes an MTU the sender of the packet receives.
LEMMA ParseConnectCtx ==
  ASSUME NEW h \in Handles, NEW c \in CtxOf(h), NEW pkt \in PacketFrom(Peer(h))
  PROVE  /\ ParseConnect(h, c, pkt) \in CtxOf(h)
         /\ ParseConnect(h, c, pkt).self.object = c.self.object
         /\ Starting(c) => Starting(ParseConnect(h, c, pkt))
<1> DEFINE mtu == IF pkt.mtu < MtuTxMax[h] THEN pkt.mtu ELSE MtuTxMax[h]
<1>1. mtu \in 0..MtuRx[Peer(h)]
  <2>1. MtuTxMax[h] \in Nat /\ MtuRx[Peer(h)] \in Nat
    BY MtuAssumption, PeerOfPeer
  <2>2. pkt.mtu \in {0, MtuRx[Peer(h)]}
    BY DEF PacketFrom
  <2> QED
    BY <2>1, <2>2
<1> HIDE DEF mtu
<1>2. /\ SetMtu(c, mtu) \in CtxOf(h) /\ SetMtu(c, mtu).self.object = c.self.object
      /\ Starting(c) => Starting(SetMtu(c, mtu))
  BY <1>1, SetMtuCtx
<1> QED
  BY <1>2 DEF ParseConnect, mtu

-----------------------------------------------------------------------------
(* From a committed context to the invariant.                               *)

\* A context of a handle is well typed.
LEMMA CtxTypes ==
  ASSUME NEW h \in Handles, NEW c \in CtxOf(h)
  PROVE  /\ c.self \in Self /\ c.frames \in Seq(Frame) /\ c.input \in Seq(Packet)
         /\ c.out \in Seq(Packet) /\ c.seen \in SUBSET Seen /\ c.faults \in 0..MaxFaults
<1>1. PacketFrom(h) \subseteq Packet /\ PacketFrom(Peer(h)) \subseteq Packet
  BY PacketsFrom, PeerOfPeer
<1>2. FrameOf(h) \subseteq Frame
  BY <1>1 DEF FrameOf, Frame
<1>3. c.self \in Self
  <2>1. MtuRx[Peer(h)] \in Nat
    BY MtuAssumption, PeerOfPeer
  <2>2. 0..MtuRx[Peer(h)] \subseteq Nat
    BY <2>1
  <2> QED
    BY <2>2 DEF CtxOf, SelfOf, Self
<1>4. c.frames \in Seq(Frame)
  BY <1>2, SeqMonotonic DEF CtxOf
<1>5. c.input \in Seq(Packet) /\ c.out \in Seq(Packet)
  BY <1>1, SeqMonotonic DEF CtxOf
<1> QED
  BY <1>3, <1>4, <1>5 DEF CtxOf

\* The fields of the context of a handle.
LEMMA CtxFields ==
  ASSUME NEW h \in Handles, Ctx(h) \in CtxOf(h)
  PROVE  /\ obex[h] \in SelfOf(h) /\ stack[h] \in Seq(FrameOf(h))
         /\ chan[h] \in Seq(PacketFrom(Peer(h))) /\ faults \in 0..MaxFaults
BY DEF Ctx, CtxOf

\* A commit keeps the invariant.
LEMMA CommitInv ==
  ASSUME IInv, NEW h \in Handles, Commits(h), UNCHANGED link,
         nextId' \in 1..(MaxRequests + 1)
  PROVE  IInv'
<1>1. CASE Crash(h)
  <2>1. TypeOK'
    BY <1>1 DEF IInv, TypeOK, Crash
  <2>2. \A g \in Handles : (Ctx(g) \in CtxOf(g) /\ Starting(Ctx(g)))'
    BY <1>1, ZenonT(30) DEF IInv, Crash, Ctx, CtxOf, SelfOf, FrameOf, PacketFrom, Starting
  <2> QED
    BY <2>1, <2>2 DEF IInv
<1>2. ASSUME NEW c \in CtxOf(h), Starting(c), Commit(h, c)
      PROVE  IInv'
  <2>1. c.self \in Self /\ c.frames \in Seq(Frame) /\ c.seen \in SUBSET Seen
    BY CtxTypes
  <2>2. \A g \in Handles : chan'[g] \in Seq(PacketFrom(Peer(g)))
    <3>1. SUFFICES ASSUME NEW g \in Handles
                   PROVE  chan'[g] \in Seq(PacketFrom(Peer(g)))
      OBVIOUS
    <3>2. CASE g = h
      BY <1>2, <3>2 DEF Commit, CtxOf
    <3>3. CASE g # h
      <4>1. Peer(g) = h
        BY <3>3 DEF Handles, Peer
      <4>2. chan[g] \in Seq(PacketFrom(h)) /\ c.out \in Seq(PacketFrom(h))
        BY <4>1, CtxFields DEF IInv, CtxOf
      <4>3. chan[g] \o c.out \in Seq(PacketFrom(h))
        BY <4>2, ConcatProperties
      <4> QED
        BY <1>2, <3>3, <4>1, <4>3 DEF Commit
    <3> QED
      BY <3>2, <3>3
  <2>3. chan' \in [Handles -> Seq(Packet)]
    <3>1. \A g \in Handles : chan'[g] \in Seq(Packet)
      BY <2>2, PacketsFrom, PeerOfPeer, SeqMonotonic
    <3> QED
      BY <1>2, <3>1 DEF Commit
  <2>4. /\ obex' \in [Handles -> Self] /\ stack' \in [Handles -> Seq(Frame)]
        /\ seen' \in [Handles -> SUBSET Seen] /\ faults' \in 0..MaxFaults
    BY <1>2, <2>1 DEF IInv, TypeOK, Commit, CtxOf
  <2>5. TypeOK'
    BY <1>2, <2>3, <2>4 DEF IInv, TypeOK, Commit
  <2>6. \A g \in Handles :
          /\ obex'[g] \in SelfOf(g) /\ stack'[g] \in Seq(FrameOf(g))
          /\ obex'[g].state = "START" =>
               obex'[g].mode = "CLI" /\ \E i \in 1..Len(stack'[g]) : stack'[g][i].at = "start"
    <3>1. SUFFICES ASSUME NEW g \in Handles
                   PROVE  /\ obex'[g] \in SelfOf(g) /\ stack'[g] \in Seq(FrameOf(g))
                          /\ obex'[g].state = "START" =>
                               /\ obex'[g].mode = "CLI"
                               /\ \E i \in 1..Len(stack'[g]) : stack'[g][i].at = "start"
      OBVIOUS
    <3>2. CASE g = h
      <4>1. obex'[g] = c.self /\ stack'[g] = c.frames
        BY <1>2, <3>2 DEF Commit, IInv, TypeOK
      <4> QED
        BY <1>2, <3>2, <4>1 DEF CtxOf, Starting
    <3>3. CASE g # h
      <4>1. obex'[g] = obex[g] /\ stack'[g] = stack[g]
        BY <1>2, <3>3 DEF Commit, IInv, TypeOK
      <4>2. obex[g] \in SelfOf(g) /\ stack[g] \in Seq(FrameOf(g))
        BY CtxFields DEF IInv
      <4> QED
        BY <4>1, <4>2 DEF IInv, Starting, Ctx
    <3> QED
      BY <3>2, <3>3
  <2>7. \A g \in Handles : (Ctx(g) \in CtxOf(g))'
    <3>1. \A g \in Handles : <<>> \in Seq(PacketFrom(g))
      BY EmptySeq
    <3> QED
      BY <2>2, <2>4, <2>6, <3>1 DEF Ctx, CtxOf, SelfOf, FrameOf, PacketFrom
  <2>8. \A g \in Handles : Starting(Ctx(g))'
    BY <2>6 DEF Starting, Ctx
  <2> QED
    BY <2>5, <2>7, <2>8 DEF IInv
<1> QED
  BY <1>1, <1>2 DEF Commits

-----------------------------------------------------------------------------
(* obex_client commits a context.                                           *)

\* The object of a context.
LEMMA CtxObject ==
  ASSUME NEW h \in Handles, NEW c \in CtxOf(h), c.self.object # NULL
  PROVE  /\ c.self.object \in Object
         /\ c.self.object.opcode \in Ops /\ c.self.object.lastopcode \in Ops
         /\ c.self.object.cmd \in Ops
BY DEF CtxOf, SelfOf, Object

\* The last event of an object, committed.
LEMMA DeliverLastCommits ==
  ASSUME NEW h \in Handles, NEW c \in CtxOf(h), Starting(c), NEW ev \in Events,
         NEW rsp \in Ops, NEW at \in Labels, Commit(h, DeliverLast(c, ev, rsp, at))
  PROVE  Commits(h)
BY DeliverLastCtx DEF Commits

\* An event in the middle of a transfer, committed.
LEMMA DeliverCommits ==
  ASSUME NEW h \in Handles, NEW c \in CtxOf(h), Starting(c), NEW ev \in Events,
         NEW rsp \in Ops, NEW at \in Labels, NEW pkt \in PacketFrom(Peer(h)),
         Commit(h, Deliver(c, ev, rsp, at, pkt))
  PROVE  Commits(h)
BY DeliverCtx DEF Commits

\* The same for an event that carries no packet.
LEMMA ProgressCommits ==
  ASSUME NEW h \in Handles, NEW c \in CtxOf(h), Starting(c), NEW rsp \in Ops,
         NEW at \in Labels, NEW ev \in Events, Commit(h, Deliver(c, ev, rsp, at, NoPacket))
  PROVE  Commits(h)
BY DeliverCommits, NoPacketFrom, PeerOfPeer

\* OBEX_Request's handler: STATE_START comes with the frame of its callback.
LEMMA ClientStartCommits ==
  ASSUME NEW h \in Handles, NEW c \in CtxOf(h), Linked(h), c.self.object \in Object,
         c.self.mode = "CLI", ClientStart(h, c)
  PROVE  Commits(h)
<1>1. PICK r \in ObjectSend(h, c, TRUE, FALSE) :
        \/ Commit(h, DeliverLast(SetState(r.ctx, "CLI", "IDLE"), "LINKERR",
                                r.ctx.self.object.opcode, "done"))
        \/ Commit(h, Deliver(SetObject(r.ctx, [r.ctx.self.object EXCEPT !.sent = TRUE]),
                            "PROGRESS", r.ctx.self.object.opcode, "start", NoPacket))
  BY DEF ClientStart
<1> DEFINE o == [r.ctx.self.object EXCEPT !.sent = TRUE]
<1>2. /\ r.ctx \in CtxOf(h) /\ r.ctx.self.object \in Object /\ r.ctx.self.mode = "CLI"
  BY ObjectSendCtx
<1>3. r.ctx.self.object.opcode \in Ops /\ o \in Object
  BY <1>2 DEF Object
<1>4. CASE Commit(h, DeliverLast(SetState(r.ctx, "CLI", "IDLE"), "LINKERR",
                                 r.ctx.self.object.opcode, "done"))
  <2>1. SetState(r.ctx, "CLI", "IDLE") \in CtxOf(h) /\ Starting(SetState(r.ctx, "CLI", "IDLE"))
    BY <1>2, SetStateCtx
  <2> QED
    BY <1>3, <1>4, <2>1, DeliverLastCommits DEF Events, Labels
<1>5. CASE Commit(h, Deliver(SetObject(r.ctx, o), "PROGRESS", r.ctx.self.object.opcode,
                             "start", NoPacket))
  <2> HIDE DEF o
  <2>1. SetObject(r.ctx, o) \in CtxOf(h) /\ SetObject(r.ctx, o).self.mode = "CLI"
    BY <1>2, <1>3, SetObjectCtx
  <2>2. NoPacket \in PacketFrom(Peer(h))
    BY NoPacketFrom, PeerOfPeer
  <2>3. LET d == Deliver(SetObject(r.ctx, o), "PROGRESS", r.ctx.self.object.opcode,
                         "start", NoPacket)
        IN  d \in CtxOf(h) /\ Starting(d)
    BY <1>3, <2>1, <2>2, DeliverCtx, ZenonT(30) DEF Events, Labels
  <2> QED
    BY <1>5, <2>3 DEF Commits
<1> QED
  BY <1>1, <1>4, <1>5

\* The answer cannot be read.
LEMMA ClientParseErrorCommits ==
  ASSUME NEW h \in Handles, NEW c \in CtxOf(h), ClientParseError(h, c)
  PROVE  Commits(h)
<1>1. SetState(c, "SRV", "IDLE") \in CtxOf(h) /\ Starting(SetState(c, "SRV", "IDLE"))
  BY SetStateCtx
<1> QED
  BY <1>1, DeliverLastCommits DEF ClientParseError, Events, Labels, Ops, Rsps

\* CONTINUE.
LEMMA ClientContinueCommits ==
  ASSUME NEW h \in Handles, NEW c \in CtxOf(h), Starting(c), Linked(h),
         c.self.object \in Object, ClientContinue(h, c)
  PROVE  Commits(h)
<1> DEFINE o  == SetContinue(c.self.object)
           c1 == SetObject(c, o)
<1>1. o \in Object /\ o.opcode \in Ops
  BY DEF SetContinue, Object
<1>2. c1 \in CtxOf(h) /\ Starting(c1) /\ c1.self.object = o
  BY <1>1, SetObjectCtx
<1> HIDE DEF o, c1
<1>3. CASE Commit(h, c1)
  BY <1>2, <1>3 DEF Commits
<1>4. ASSUME NEW r \in ObjectSend(h, c1, TRUE, FALSE)
      PROVE  r.ctx \in CtxOf(h) /\ Starting(r.ctx)
  BY <1>1, <1>2, ObjectSendCtx
<1>5. ASSUME NEW r \in ObjectSend(h, c1, TRUE, FALSE),
             Commit(h, DeliverLast(r.ctx, "LINKERR", o.opcode, "continue"))
      PROVE  Commits(h)
  BY <1>1, <1>4, <1>5, DeliverLastCommits DEF Events, Labels
<1>6. ASSUME NEW r \in ObjectSend(h, c1, TRUE, FALSE),
             Commit(h, Deliver(r.ctx, "PROGRESS", o.opcode, "continue", NoPacket))
      PROVE  Commits(h)
  BY <1>1, <1>4, <1>6, ProgressCommits DEF Events, Labels
<1> QED
  BY <1>3, <1>5, <1>6 DEF ClientContinue, o, c1

\* The end of the request.
LEMMA ClientDoneCommits ==
  ASSUME NEW h \in Handles, NEW c \in CtxOf(h), NEW rsp \in Ops, ClientDone(h, c, rsp)
  PROVE  Commits(h)
<1>1. SetState(c, "SRV", "IDLE") \in CtxOf(h) /\ Starting(SetState(c, "SRV", "IDLE"))
  BY SetStateCtx
<1>2. PICK ev \in {"REQDONE", "ABORT", "LINKERR"} :
        Commit(h, DeliverLast(SetState(c, "SRV", "IDLE"), ev, rsp, "done"))
  BY DEF ClientDone
<1> QED
  BY <1>1, <1>2, DeliverLastCommits DEF Events, Labels

\* The answer of a request.
LEMMA ClientRecCommits ==
  ASSUME NEW h \in Handles, NEW c \in CtxOf(h), Starting(c), Linked(h),
         c.self.object # NULL, NEW pkt \in PacketFrom(Peer(h)), ClientRec(h, c, pkt)
  PROVE  Commits(h)
<1> DEFINE o  == c.self.object
           c1 == IF o.opcode = "CONNECT" THEN ParseConnect(h, c, pkt)
                 ELSE IF o.opcode = "DISCONNECT" THEN SetMtu(c, MinimumMtu) ELSE c
<1>1. o \in Object /\ pkt.op \in Ops
  BY CtxObject DEF PacketFrom
<1>2. c1 \in CtxOf(h) /\ Starting(c1) /\ c1.self.object = o
  <2>1. MinimumMtu \in 0..MtuRx[Peer(h)]
    BY MtuAssumption, PeerOfPeer
  <2> QED
    BY <2>1, ParseConnectCtx, SetMtuCtx
<1> HIDE DEF c1, o
<1>3. CASE ClientParseError(h, c)
  BY <1>3, ClientParseErrorCommits
<1>4. ASSUME NEW r \in ObjectReceive(c1, pkt)
      PROVE  r.ctx \in CtxOf(h) /\ Starting(r.ctx) /\ r.ctx.self.object \in Object
  BY <1>1, <1>2, ObjectReceiveCtx
<1>5. ASSUME NEW r \in ObjectReceive(c1, pkt),
             \/ ClientParseError(h, r.ctx) \/ ClientContinue(h, r.ctx)
             \/ ClientDone(h, r.ctx, pkt.op)
      PROVE  Commits(h)
  BY <1>1, <1>4, <1>5, ClientParseErrorCommits, ClientContinueCommits, ClientDoneCommits
<1> QED
  BY <1>3, <1>5 DEF ClientRec, c1, o

\* obex_client.
LEMMA ClientCommits ==
  ASSUME NEW h \in Handles, NEW c \in CtxOf(h), Starting(c), Linked(h),
         NEW pkt \in PacketFrom(Peer(h)), Client(h, c, pkt)
  PROVE  Commits(h)
<1>1. pkt.op \in Ops
  BY DEF PacketFrom
<1>2. CASE Commit(h, DeliverLast(c, "PARSEERR", pkt.op, "done"))
  BY <1>1, <1>2, DeliverLastCommits DEF Events, Labels
<1>3. CASE Crash(h)
  BY <1>3 DEF Commits
<1>4. CASE c.self.object # NULL /\ ClientRec(h, c, pkt)
  BY <1>4, ClientRecCommits
<1> QED
  BY <1>2, <1>3, <1>4 DEF Client

-----------------------------------------------------------------------------
(* obex_server commits a context.                                           *)

\* A refused packet.
LEMMA ServerBailCommits ==
  ASSUME NEW h \in Handles, NEW c \in CtxOf(h), NEW rsp \in Ops, NEW ev \in Events,
         NEW code \in Ops, ServerBail(h, c, rsp, ev, code)
  PROVE  Commits(h)
<1> DEFINE d == SetState(Respond(h, c, rsp), "SRV", "IDLE")
<1>1. d \in CtxOf(h) /\ Starting(d)
  BY RespondCtx, SetStateCtx
<1> QED
  BY <1>1, DeliverLastCommits DEF ServerBail, Labels

\* The next packet of the response.
LEMMA ServerReplyCommits ==
  ASSUME NEW h \in Handles, NEW c \in CtxOf(h), Starting(c), Linked(h),
         c.self.object \in Object, NEW cmd \in Ops, ServerReply(h, c, cmd)
  PROVE  Commits(h)
<1> DEFINE o  == SetContinue(c.self.object)
           c1 == SetObject(c, o)
           c2(r) == IF cmd = "DISCONNECT" THEN SetMtu(r.ctx, MinimumMtu) ELSE r.ctx
<1>1. o \in Object /\ o.lastopcode \in Ops
  BY DEF SetContinue, Object
<1>2. c1 \in CtxOf(h) /\ Starting(c1) /\ c1.self.object = o
  BY <1>1, SetObjectCtx
<1> HIDE DEF o, c1
<1>3. CASE Commit(h, c1)
  BY <1>2, <1>3 DEF Commits
<1>4. ASSUME NEW r \in ObjectSend(h, c1, TRUE, TRUE)
      PROVE  r.ctx \in CtxOf(h) /\ Starting(r.ctx)
  BY <1>1, <1>2, ObjectSendCtx
<1>5. ASSUME NEW r \in ObjectSend(h, c1, TRUE, TRUE),
             Commit(h, Deliver(r.ctx, "PROGRESS", cmd, "sendprogress", NoPacket))
      PROVE  Commits(h)
  BY <1>4, <1>5, ProgressCommits DEF Events, Labels
<1>6. ASSUME NEW r \in ObjectSend(h, c1, TRUE, TRUE),
             Commit(h, DeliverLast(r.ctx, "LINKERR", cmd, "done"))
      PROVE  Commits(h)
  BY <1>4, <1>6, DeliverLastCommits DEF Events, Labels
<1>7. ASSUME NEW r \in ObjectSend(h, c1, TRUE, TRUE),
             Commit(h, DeliverLast(SetState(c2(r), "SRV", "IDLE"), "REQDONE",
                                   o.lastopcode, "done"))
      PROVE  Commits(h)
  <2>1. MinimumMtu \in 0..MtuRx[Peer(h)]
    BY MtuAssumption, PeerOfPeer
  <2>2. c2(r) \in CtxOf(h)
    BY <1>4, <2>1, SetMtuCtx
  <2> HIDE DEF c2
  <2>3. SetState(c2(r), "SRV", "IDLE") \in CtxOf(h) /\ Starting(SetState(c2(r), "SRV", "IDLE"))
    BY <2>2, SetStateCtx
  <2> QED
    BY <1>1, <1>7, <2>3, DeliverLastCommits DEF Events, Labels
<1> QED
  BY <1>3, <1>5, <1>6, <1>7 DEF ServerReply, o, c1

\* A packet in STATE_SEND.
LEMMA ServerSendCommits ==
  ASSUME NEW h \in Handles, NEW c \in CtxOf(h), Starting(c), Linked(h),
         c.self.object \in Object, NEW pkt \in PacketFrom(Peer(h)), NEW data,
         ServerSend(h, c, pkt, data)
  PROVE  Commits(h)
<1>1. pkt.op \in Ops
  BY DEF PacketFrom
<1>2. CASE \/ ServerBail(h, c, "SUCCESS", "ABORT", "ABORT")
           \/ ServerBail(h, c, "BAD_REQUEST", "PARSEERR", "BAD_REQUEST")
  BY <1>2, ServerBailCommits DEF Events, Ops, Rsps
<1>3. CASE ServerReply(h, c, pkt.op)
  BY <1>1, <1>3, ServerReplyCommits
<1>4. ASSUME NEW r \in ObjectReceive(c, pkt)
      PROVE  r.ctx \in CtxOf(h) /\ Starting(r.ctx)
  BY ObjectReceiveCtx
<1>5. ASSUME NEW r \in ObjectReceive(c, pkt),
             \/ ServerBail(h, r.ctx, "BAD_REQUEST", "PARSEERR", "BAD_REQUEST")
             \/ Commit(h, Deliver(r.ctx, "UNEXPECTED", pkt.op, "unexpected", pkt))
      PROVE  Commits(h)
  BY <1>1, <1>4, <1>5, ServerBailCommits, DeliverCommits DEF Events, Labels, Ops, Rsps
<1> QED
  BY <1>2, <1>3, <1>5 DEF ServerSend

\* The last packet of a request.
LEMMA ServerFinalCommits ==
  ASSUME NEW h \in Handles, NEW c \in CtxOf(h), Starting(c), Linked(h),
         c.self.object \in Object, NEW pkt \in PacketFrom(Peer(h)), NEW deny,
         ServerFinal(h, c, pkt, deny)
  PROVE  Commits(h)
<1> DEFINE o  == [c.self.object EXCEPT !.nonhdr = @ \/ pkt.op = "CONNECT"]
           c1 == SetObject(c, o)
<1>1. pkt.op \in Ops /\ [pkt EXCEPT !.n = 0] \in PacketFrom(Peer(h))
  BY DEF PacketFrom
<1>2. o \in Object
  BY DEF Object
<1>3. c1 \in CtxOf(h) /\ Starting(c1) /\ c1.self.object = o
  BY <1>2, SetObjectCtx
<1> HIDE DEF o, c1
<1>4. /\ SetState(c1, "SRV", "SEND") \in CtxOf(h) /\ Starting(SetState(c1, "SRV", "SEND"))
      /\ SetState(c1, "SRV", "SEND").self.object = o
  BY <1>3, SetStateCtx
<1>5. CASE ServerSend(h, c, [pkt EXCEPT !.n = 0], HasData(pkt))
  BY <1>1, <1>5, ServerSendCommits
<1>6. CASE Commit(h, Deliver(c1, "REQ", pkt.op, "req", pkt))
  BY <1>1, <1>3, <1>6, DeliverCommits DEF Events, Labels
<1>7. CASE ServerSend(h, SetState(c1, "SRV", "SEND"), pkt, FALSE)
  BY <1>2, <1>4, <1>7, ServerSendCommits
<1> QED
  BY <1>5, <1>6, <1>7 DEF ServerFinal, o, c1

\* What the application decided.
LEMMA ServerDecideCommits ==
  ASSUME NEW h \in Handles, NEW c \in CtxOf(h), Starting(c), Linked(h),
         c.self.object \in Object, NEW pkt \in PacketFrom(Peer(h)), ServerDecide(h, c, pkt)
  PROVE  Commits(h)
<1>1. pkt.op \in Ops
  BY DEF PacketFrom
<1>2. CASE ServerFinal(h, c, pkt, TRUE)
  BY <1>2, ServerFinalCommits
<1>3. ASSUME NEW r \in ObjectSend(h, c, FALSE, TRUE)
      PROVE  r.ctx \in CtxOf(h) /\ Starting(r.ctx)
  BY ObjectSendCtx
<1>4. ASSUME NEW r \in ObjectSend(h, c, FALSE, TRUE),
             \/ Commit(h, DeliverLast(r.ctx, "LINKERR", pkt.op, "done"))
             \/ Commit(h, Deliver(r.ctx, "PROGRESS", pkt.op, "done", NoPacket))
      PROVE  Commits(h)
  BY <1>1, <1>3, <1>4, DeliverLastCommits, ProgressCommits DEF Events, Labels
<1> QED
  BY <1>2, <1>4 DEF ServerDecide

\* A packet in STATE_REC.
LEMMA ServerRecCommits ==
  ASSUME NEW h \in Handles, NEW c \in CtxOf(h), Starting(c), Linked(h),
         c.self.object \in Object, NEW pkt \in PacketFrom(Peer(h)), ServerRec(h, c, pkt)
  PROVE  Commits(h)
<1>1. pkt.op \in Ops
  BY DEF PacketFrom
<1>2. CASE \/ ServerBail(h, c, "SUCCESS", "ABORT", "ABORT")
           \/ ServerBail(h, c, "BAD_REQUEST", "PARSEERR", "BAD_REQUEST")
  BY <1>2, ServerBailCommits DEF Events, Ops, Rsps
<1>3. ASSUME NEW r \in ObjectReceive(c, pkt)
      PROVE  r.ctx \in CtxOf(h) /\ Starting(r.ctx) /\ r.ctx.self.object \in Object
  BY ObjectReceiveCtx
<1>4. ASSUME NEW r \in ObjectReceive(c, pkt),
             \/ ServerBail(h, r.ctx, "BAD_REQUEST", "PARSEERR", "BAD_REQUEST")
             \/ ServerFinal(h, r.ctx, pkt, FALSE)
             \/ ServerDecide(h, r.ctx, pkt)
      PROVE  Commits(h)
  BY <1>3, <1>4, ServerBailCommits, ServerFinalCommits, ServerDecideCommits
     DEF Events, Ops, Rsps
<1>5. ASSUME NEW r \in ObjectReceive(c, pkt),
             Commit(h, Deliver(r.ctx, "REQCHECK", pkt.op, "check", pkt))
      PROVE  Commits(h)
  BY <1>1, <1>3, <1>5, DeliverCommits DEF Events, Labels
<1> QED
  BY <1>2, <1>4, <1>5 DEF ServerRec

\* A fresh object.
LEMMA NewObjectIsObject ==
  ASSUME NEW id \in Ids, NEW cmd \in Ops
  PROVE  NewObject(id, cmd) \in Object
<1>1. <<>> \in Seq(Kinds) /\ <<>> \in Seq(Ids \X Nat)
  BY EmptySeq
<1> QED
  BY <1>1 DEF NewObject, Object, Ops, Rsps

\* A packet in STATE_IDLE.
LEMMA ServerIdleCommits ==
  ASSUME NEW h \in Handles, NEW c \in CtxOf(h), Starting(c), Linked(h),
         NEW pkt \in PacketFrom(Peer(h)), ServerIdle(h, c, pkt)
  PROVE  Commits(h)
<1> DEFINE d == Respond(h, c, "INTERNAL_SERVER_ERROR")
           o == NewObject(pkt.id, pkt.op)
<1>1. d \in CtxOf(h) /\ Starting(d) /\ d.faults = c.faults
  BY RespondCtx DEF Ops, Rsps
<1>2. o \in Object /\ pkt.op \in Ops
  BY NewObjectIsObject DEF PacketFrom
<1> HIDE DEF d, o
<1>3. CASE Commit(h, d)
  BY <1>1, <1>3 DEF Commits
<1>4. CASE c.faults < MaxFaults /\ Commit(h, Fault(d))
  BY <1>1, <1>4, FaultCtx DEF Commits
<1>5. CASE Commit(h, Deliver(SetObject(c, o), "REQHINT", pkt.op, "hint", pkt))
  <2>1. SetObject(c, o) \in CtxOf(h) /\ Starting(SetObject(c, o))
    BY <1>2, SetObjectCtx
  <2> QED
    BY <1>2, <1>5, <2>1, DeliverCommits DEF Events, Labels
<1> QED
  BY <1>3, <1>4, <1>5 DEF ServerIdle, d, o

\* obex_server.
LEMMA ServerCommits ==
  ASSUME NEW h \in Handles, NEW c \in CtxOf(h), Starting(c), Linked(h),
         NEW pkt \in PacketFrom(Peer(h)), Server(h, c, pkt)
  PROVE  Commits(h)
<1>1. CASE ServerIdle(h, c, pkt)
  BY <1>1, ServerIdleCommits
<1>2. CASE Crash(h)
  BY <1>2 DEF Commits
<1>3. CASE c.self.object # NULL /\ (ServerRec(h, c, pkt) \/ ServerSend(h, c, pkt, HasData(pkt)))
  BY <1>3, CtxObject, ServerRecCommits, ServerSendCommits
<1> QED
  BY <1>1, <1>2, <1>3 DEF Server

-----------------------------------------------------------------------------
(* The application's calls and the callbacks commit a context.              *)

\* The context a call starts from.
LEMMA CallCtx ==
  ASSUME IInv, NEW h \in Handles
  PROVE  /\ Ctx(h) \in CtxOf(h) /\ Starting(Ctx(h)) /\ Linked(h)
         /\ Ctx(h).self = obex[h] /\ Ctx(h).faults = faults
         /\ obex[h].mode \in {"SRV", "CLI"}
         /\ HasObject(h) => obex[h].object \in Object
BY DEF IInv, TypeOK, Ctx, Linked, CtxOf, SelfOf, HasObject

\* A call that only changes the object.
LEMMA ChangeCommits ==
  ASSUME IInv, NEW h \in Handles, NEW c \in CtxOf(h), Starting(c), NEW o \in Object,
         Commit(h, SetObject(c, o))
  PROVE  Commits(h)
BY SetObjectCtx DEF Commits

\* OBEX_Request.
LEMMA RequestCommits ==
  ASSUME IInv, NEW h \in Handles, Request(h)
  PROVE  Commits(h) /\ nextId' \in 1..(MaxRequests + 1)
<1>1. nextId \in Ids /\ nextId' \in 1..(MaxRequests + 1)
  BY BoundsAssumption DEF Request, IInv, TypeOK, Ids
<1>2. PICK cmd \in Commands, tx \in RequestQueues, suspend \in BOOLEAN :
        /\ suspend => MayFault
        /\ LET o == [NewObject(nextId, cmd) EXCEPT
                       !.opcode = cmd, !.lastopcode = cmd, !.tx = tx,
                       !.nonhdr = (cmd = "CONNECT"), !.suspend = suspend]
               c == [Ctx(h) EXCEPT !.faults = IF suspend THEN @ + 1 ELSE @]
           IN  ClientStart(h, SetObject(SetState(c, "CLI", "START"), o))
  BY DEF Request
<1> DEFINE o == [NewObject(nextId, cmd) EXCEPT
                   !.opcode = cmd, !.lastopcode = cmd, !.tx = tx,
                   !.nonhdr = (cmd = "CONNECT"), !.suspend = suspend]
           c == [Ctx(h) EXCEPT !.faults = IF suspend THEN @ + 1 ELSE @]
           s == SetState(c, "CLI", "START")
<1>3. o \in Object
  <2>1. cmd \in Ops /\ tx \in Seq(Kinds)
    BY CommandsAssumption, QueuesAssumption DEF Ops
  <2>2. NewObject(nextId, cmd) \in Object
    BY <1>1, <2>1, NewObjectIsObject
  <2> QED
    BY <2>1, <2>2 DEF Object
<1>4. c \in CtxOf(h)
  <2>1. MaxFaults \in Nat /\ faults \in 0..MaxFaults
    BY BoundsAssumption DEF IInv, TypeOK
  <2>2. (IF suspend THEN faults + 1 ELSE faults) \in 0..MaxFaults
    BY <1>2, <2>1 DEF MayFault
  <2> QED
    BY <2>2, CallCtx DEF CtxOf
<1> HIDE DEF o, c
<1>5. s \in CtxOf(h) /\ s.self.mode = "CLI"
  BY <1>4, SetStateCtx, ZenonT(30) DEF SetState, CtxOf, SelfOf
<1> HIDE DEF s
<1>6. /\ SetObject(s, o) \in CtxOf(h) /\ SetObject(s, o).self.object \in Object
      /\ SetObject(s, o).self.mode = "CLI"
  BY <1>3, <1>5, SetObjectCtx
<1>7. ClientStart(h, SetObject(s, o))
  BY <1>2 DEF s, c, o
<1> QED
  BY <1>1, <1>6, <1>7, CallCtx, ClientStartCommits

\* OBEX_ObjectSetRsp.
LEMMA SetRspCommits ==
  ASSUME IInv, NEW h \in Handles, SetRsp(h)
  PROVE  Commits(h)
<1> DEFINE o == obex[h].object
           accepted == [o EXCEPT !.opcode = "CONTINUE", !.lastopcode = "SUCCESS"]
           refused(rsp) == [o EXCEPT !.opcode = rsp, !.lastopcode = rsp]
<1>1. PICK rsp \in Answers :
        Commit(h, SetObject(Ctx(h), IF rsp = "SUCCESS" THEN accepted ELSE refused(rsp)))
  BY DEF SetRsp
<1>2. o \in Object
  BY CallCtx DEF SetRsp
<1>3. accepted \in Object /\ refused(rsp) \in Object
  BY <1>2, AnswersAssumption DEF Object, Ops, Rsps
<1> HIDE DEF accepted, refused
<1> QED
  BY <1>1, <1>3, CallCtx, ChangeCommits

\* OBEX_ObjectAddHeader.
LEMMA AddHeadersCommits ==
  ASSUME IInv, NEW h \in Handles, AddHeaders(h)
  PROVE  Commits(h)
<1> DEFINE with(tx) == [obex[h].object EXCEPT !.tx = tx]
<1>1. ASSUME NEW tx \in Seq(Kinds)
      PROVE  with(tx) \in Object
  <2>1. obex[h].object \in Object
    BY CallCtx DEF AddHeaders
  <2> QED
    BY <2>1 DEF Object
<1>2. ASSUME NEW tx \in ResponseQueues, Commit(h, SetObject(Ctx(h), with(tx)))
      PROVE  Commits(h)
  <2> HIDE DEF with
  <2> QED
    BY <1>1, <1>2, CallCtx, ChangeCommits, QueuesAssumption
<1>3. ASSUME MayFault, Commit(h, SetObject(Fault(Ctx(h)), with(<<"header">>)))
      PROVE  Commits(h)
  <2>1. <<"header">> \in Seq(Kinds)
    BY DEF Kinds
  <2>2. Fault(Ctx(h)) \in CtxOf(h) /\ Starting(Fault(Ctx(h)))
    BY <1>3, CallCtx, FaultCtx DEF MayFault
  <2> HIDE DEF with
  <2> QED
    BY <1>1, <1>3, <2>1, <2>2, ChangeCommits
<1> QED
  BY <1>2, <1>3 DEF AddHeaders

\* obex_object_suspend.
LEMMA SuspendCommits ==
  ASSUME IInv, NEW h \in Handles, Suspend(h)
  PROVE  Commits(h)
<1> DEFINE o == [obex[h].object EXCEPT !.suspend = TRUE]
<1>1. obex[h].object \in Object
  BY CallCtx DEF Suspend
<1>2. o \in Object
  BY <1>1 DEF Object
<1>3. Fault(Ctx(h)) \in CtxOf(h) /\ Starting(Fault(Ctx(h)))
  BY CallCtx, FaultCtx DEF MayFault, Suspend
<1>4. Commit(h, SetObject(Fault(Ctx(h)), o))
  BY DEF Suspend
<1> HIDE DEF o
<1> QED
  BY <1>2, <1>3, <1>4, ChangeCommits

\* obex_object_resume.
LEMMA ResumeCommits ==
  ASSUME IInv, NEW h \in Handles, Resume(h)
  PROVE  Commits(h)
<1> DEFINE o == [obex[h].object EXCEPT !.suspend = FALSE]
           c == SetObject(Ctx(h), o)
<1>1. obex[h].object \in Object
  BY CallCtx DEF Resume
<1>2. o \in Object /\ o.opcode \in Ops /\ o.lastopcode \in Ops
  BY <1>1 DEF Object
<1>3. c \in CtxOf(h) /\ Starting(c) /\ c.self.object = o /\ Linked(h)
  BY <1>2, CallCtx, SetObjectCtx
<1>4. ASSUME NEW r \in ObjectSend(h, c, TRUE, FALSE)
      PROVE  r.ctx \in CtxOf(h) /\ Starting(r.ctx)
  <2> HIDE DEF o, c
  <2> QED
    BY <1>2, <1>3, ObjectSendCtx
<1>5. \/ Commit(h, c)
      \/ \E r \in ObjectSend(h, c, TRUE, FALSE) :
           \/ Commit(h, DeliverLast(r.ctx, "LINKERR", o.opcode, "done"))
           \/ Commit(h, Deliver(r.ctx, "PROGRESS", o.opcode, "resume", NoPacket))
           \/ Commit(h, DeliverLast(r.ctx, "REQDONE", o.lastopcode, "resumedone"))
           \/ Commit(h, SetState(r.ctx, "CLI", "REC"))
  BY DEF Resume
<1> HIDE DEF o, c
<1>6. CASE Commit(h, c)
  BY <1>3, <1>6 DEF Commits
<1>7. ASSUME NEW r \in ObjectSend(h, c, TRUE, FALSE),
             \/ Commit(h, DeliverLast(r.ctx, "LINKERR", o.opcode, "done"))
             \/ Commit(h, DeliverLast(r.ctx, "REQDONE", o.lastopcode, "resumedone"))
      PROVE  Commits(h)
  BY <1>2, <1>4, <1>7, DeliverLastCommits DEF Events, Labels
<1>8. ASSUME NEW r \in ObjectSend(h, c, TRUE, FALSE),
             Commit(h, Deliver(r.ctx, "PROGRESS", o.opcode, "resume", NoPacket))
      PROVE  Commits(h)
  BY <1>2, <1>4, <1>8, ProgressCommits DEF Events, Labels
<1>9. ASSUME NEW r \in ObjectSend(h, c, TRUE, FALSE), Commit(h, SetState(r.ctx, "CLI", "REC"))
      PROVE  Commits(h)
  BY <1>4, <1>9, SetStateCtx DEF Commits
<1> QED
  BY <1>5, <1>6, <1>7, <1>8, <1>9

\* OBEX_CancelRequest, with an ABORT.
LEMMA CancelNiceCommits ==
  ASSUME IInv, NEW h \in Handles, CancelNice(h)
  PROVE  Commits(h)
<1> DEFINE pkt == [op |-> "ABORT", final |-> TRUE, id |-> obex[h].object.id, n |-> 0,
                   mtu |-> 0]
           o == [obex[h].object EXCEPT !.abort = TRUE]
<1>1. PICK w \in Writes(h, Fault(Ctx(h)), pkt) :
        Commit(h, SetState(SetObject(w.ctx, o), "CLI", "REC"))
  BY DEF CancelNice
<1>2. obex[h].object \in Object
  BY CallCtx DEF CancelNice
<1>3. o \in Object /\ pkt \in PacketFrom(h)
  BY <1>2 DEF Object, PacketFrom, Ops
<1>4. Fault(Ctx(h)) \in CtxOf(h)
  BY CallCtx, FaultCtx DEF MayFault, CancelNice
<1> HIDE DEF o, pkt
<1>5. w.ctx \in CtxOf(h)
  BY <1>1, <1>3, <1>4, CallCtx, WritesCtx
<1>6. SetObject(w.ctx, o) \in CtxOf(h)
  BY <1>3, <1>5, SetObjectCtx
<1> QED
  BY <1>1, <1>6, SetStateCtx DEF Commits

\* OBEX_CancelRequest, without one.
LEMMA CancelHardCommits ==
  ASSUME IInv, NEW h \in Handles, CancelHard(h)
  PROVE  Commits(h)
<1>1. Fault(Ctx(h)) \in CtxOf(h) /\ Starting(Fault(Ctx(h)))
  BY CallCtx, FaultCtx DEF MayFault, CancelHard
<1> QED
  BY <1>1, DeliverLastCommits DEF CancelHard, Events, Labels, Ops

\* The context of a callback that returns.
LEMMA PoppedCtx ==
  ASSUME IInv, NEW h \in Handles, NEW at \in Labels, Returning(h, at)
  PROVE  /\ Popped(h) \in CtxOf(h) /\ Linked(h)
         /\ Popped(h).self = obex[h]
         /\ at # "start" => Starting(Popped(h))
         /\ Top(h).pkt \in PacketFrom(Peer(h)) /\ Top(h).pkt.op \in Ops
         /\ HasObject(h) => obex[h].object \in Object
<1> DEFINE f == SubSeq(stack[h], 1, Len(stack[h]) - 1)
<1>1. /\ Ctx(h) \in CtxOf(h) /\ stack[h] \in Seq(FrameOf(h)) /\ stack[h] # <<>>
      /\ Linked(h) /\ Starting(Ctx(h)) /\ Top(h).at = at
  BY CallCtx, CtxFields DEF Returning, InCallback
<1>2. Len(stack[h]) \in Nat \ {0}
  BY <1>1, EmptySeq
<1>3. \A i \in 1..Len(stack[h]) : stack[h][i] \in FrameOf(h)
  BY <1>1, ElementOfSeq
<1>4. /\ f \in Seq(FrameOf(h)) /\ Len(f) = Len(stack[h]) - 1
      /\ \A i \in 1..(Len(stack[h]) - 1) : f[i] = stack[h][i]
  BY <1>1, <1>2, <1>3, SubSeqProperties
<1>5. Popped(h) \in CtxOf(h) /\ Popped(h).self = obex[h] /\ Popped(h).frames = f
  <2>1. Popped(h) = [Ctx(h) EXCEPT !.frames = f]
    BY DEF Popped, Ctx
  <2> HIDE DEF f
  <2> QED
    BY <1>1, <1>4, <2>1 DEF CtxOf, Ctx
<1>6. Top(h) \in FrameOf(h)
  BY <1>2, <1>3 DEF Top
<1>7. ASSUME at # "start"
      PROVE  Starting(Popped(h))
  <2>1. SUFFICES ASSUME obex[h].state = "START"
                 PROVE  obex[h].mode = "CLI" /\ \E i \in 1..Len(f) : f[i].at = "start"
    BY <1>5 DEF Starting
  <2>2. PICK i \in 1..Len(stack[h]) : stack[h][i].at = "start"
    BY <1>1, <2>1 DEF Starting, Ctx
  <2>3. i # Len(stack[h])
    BY <1>1, <1>7, <2>2 DEF Top
  <2>4. i \in 1..Len(f) /\ f[i].at = "start"
    BY <1>2, <1>4, <2>2, <2>3
  <2>5. obex[h].mode = "CLI"
    BY <1>1, <2>1 DEF Starting, Ctx
  <2> QED
    BY <2>4, <2>5
<1> QED
  BY <1>1, <1>5, <1>6, <1>7, CallCtx DEF FrameOf, PacketFrom

\* Returning to the application's own call, or to a handler that sets a state.
LEMMA ReturnSimpleCommits ==
  ASSUME IInv, NEW h \in Handles,
         \/ ReturnDone(h) \/ ReturnStart(h) \/ ReturnResumeDone(h) \/ ReturnCancel(h)
  PROVE  Commits(h)
<1>1. CASE ReturnDone(h)
  BY <1>1, PoppedCtx DEF ReturnDone, Commits, Labels
<1>2. CASE ReturnStart(h)
  BY <1>2, PoppedCtx, SetStateCtx DEF ReturnStart, Commits, Labels
<1>3. CASE ReturnResumeDone(h)
  BY <1>3, PoppedCtx, SetStateCtx DEF ReturnResumeDone, Commits, Labels
<1>4. CASE ReturnCancel(h)
  BY <1>4, PoppedCtx, ProgressCommits DEF ReturnCancel, Labels, Events, Ops
<1> QED
  BY <1>1, <1>2, <1>3, <1>4

\* Returning to a handler that notes something in the object.
LEMMA ReturnNoteCommits ==
  ASSUME IInv, NEW h \in Handles,
         ReturnContinue(h) \/ ReturnSendProgress(h) \/ ReturnResume(h)
  PROVE  Commits(h)
<1> DEFINE o == [obex[h].object EXCEPT !.cont = FALSE]
           p == [obex[h].object EXCEPT !.sent = TRUE, !.cont = FALSE]
<1>1. HasObject(h) => o \in Object /\ p \in Object
  BY CallCtx, ZenonT(30) DEF Object
<1> HIDE DEF o, p
<1>2. CASE Crash(h)
  BY <1>2 DEF Commits
<1>3. CASE ReturnContinue(h)
  <2>1. Popped(h) \in CtxOf(h) /\ Starting(Popped(h))
    BY <1>3, PoppedCtx DEF ReturnContinue, Labels
  <2>2. \/ Commit(h, Popped(h))
        \/ HasObject(h) /\ Commit(h, SetObject(Popped(h), o))
    <3>1. CASE HasObject(h)
      BY <1>3, <3>1, Zenon DEF ReturnContinue, o
    <3>2. CASE ~HasObject(h)
      BY <1>3, <3>2, Zenon DEF ReturnContinue
    <3> QED
      BY <3>1, <3>2
  <2> QED
    BY <1>1, <2>1, <2>2, ChangeCommits DEF Commits
<1>4. CASE ReturnSendProgress(h)
  <2>1. Popped(h) \in CtxOf(h) /\ Starting(Popped(h))
    BY <1>4, PoppedCtx DEF ReturnSendProgress, Labels
  <2>2. \/ Crash(h)
        \/ HasObject(h) /\ Commit(h, SetObject(Popped(h), p))
    BY <1>4, Zenon DEF ReturnSendProgress, p
  <2> QED
    BY <1>1, <1>2, <2>1, <2>2, ChangeCommits
<1>5. CASE ReturnResume(h)
  <2>1. Popped(h) \in CtxOf(h)
    BY <1>5, PoppedCtx DEF ReturnResume, Labels
  <2>2. \/ Crash(h)
        \/ HasObject(h) /\ Commit(h, SetState(SetObject(Popped(h), p), obex[h].mode, "REC"))
    BY <1>5 DEF ReturnResume, p
  <2>3. HasObject(h) => SetObject(Popped(h), p) \in CtxOf(h)
    BY <1>1, <2>1, SetObjectCtx
  <2> QED
    BY <1>2, <2>2, <2>3, CallCtx, SetStateCtx DEF Commits
<1> QED
  BY <1>3, <1>4, <1>5

\* Returning from OBEX_EV_REQHINT.
LEMMA ReturnHintCommits ==
  ASSUME IInv, NEW h \in Handles, ReturnHint(h)
  PROVE  Commits(h)
<1> DEFINE pkt == Top(h).pkt
           c == Popped(h)
           d == IF pkt.op = "CONNECT" THEN ParseConnect(h, c, pkt) ELSE c
<1>1. /\ c \in CtxOf(h) /\ Linked(h) /\ Starting(c) /\ c.self.object = obex[h].object
      /\ pkt \in PacketFrom(Peer(h)) /\ (HasObject(h) => obex[h].object \in Object)
  BY PoppedCtx DEF ReturnHint, Labels
<1>2. CASE Crash(h)
  BY <1>2 DEF Commits
<1>3. CASE Commit(h, DeliverLast(Respond(h, c, "BAD_REQUEST"), "PARSEERR", "BAD_REQUEST", "done"))
  <2>1. Respond(h, c, "BAD_REQUEST") \in CtxOf(h) /\ Starting(Respond(h, c, "BAD_REQUEST"))
    BY <1>1, RespondCtx DEF Ops, Rsps
  <2> QED
    BY <1>3, <2>1, DeliverLastCommits DEF Events, Labels, Ops, Rsps
<1>4. CASE HasObject(h) /\ ServerRec(h, SetState(d, "SRV", "REC"), pkt)
  <2>1. d \in CtxOf(h) /\ d.self.object = obex[h].object
    BY <1>1, ParseConnectCtx
  <2> HIDE DEF c, d, pkt
  <2>2. /\ SetState(d, "SRV", "REC") \in CtxOf(h) /\ Starting(SetState(d, "SRV", "REC"))
        /\ SetState(d, "SRV", "REC").self.object = obex[h].object
    BY <2>1, SetStateCtx
  <2> QED
    BY <1>1, <1>4, <2>2, ServerRecCommits
<1> QED
  BY <1>2, <1>3, <1>4 DEF ReturnHint

\* Returning from OBEX_EV_REQCHECK, OBEX_EV_REQ and OBEX_EV_UNEXPECTED.
LEMMA ReturnDecidedCommits ==
  ASSUME IInv, NEW h \in Handles, ReturnCheck(h) \/ ReturnReq(h) \/ ReturnUnexpected(h)
  PROVE  Commits(h)
<1> DEFINE o == [obex[h].object EXCEPT !.checked = TRUE]
<1>1. HasObject(h) => o \in Object
  BY CallCtx, ZenonT(30) DEF Object
<1> HIDE DEF o
<1>2. CASE Crash(h)
  BY <1>2 DEF Commits
<1>3. CASE ReturnCheck(h)
  <2>1. /\ Popped(h) \in CtxOf(h) /\ Starting(Popped(h)) /\ Linked(h)
        /\ Top(h).pkt \in PacketFrom(Peer(h))
    BY <1>3, PoppedCtx DEF ReturnCheck, Labels
  <2>2. \/ Crash(h)
        \/ HasObject(h) /\ ServerDecide(h, SetObject(Popped(h), o), Top(h).pkt)
    BY <1>3, Zenon DEF ReturnCheck, o
  <2>3. HasObject(h) => /\ SetObject(Popped(h), o) \in CtxOf(h)
                        /\ Starting(SetObject(Popped(h), o))
                        /\ SetObject(Popped(h), o).self.object \in Object
    BY <1>1, <2>1, SetObjectCtx
  <2> QED
    BY <1>2, <2>1, <2>2, <2>3, ServerDecideCommits
<1>4. CASE ReturnReq(h)
  <2>1. /\ Popped(h) \in CtxOf(h) /\ Linked(h) /\ Popped(h).self = obex[h]
        /\ Top(h).pkt \in PacketFrom(Peer(h)) /\ (HasObject(h) => obex[h].object \in Object)
    BY <1>4, PoppedCtx DEF ReturnReq, Labels
  <2>2. /\ SetState(Popped(h), "SRV", "SEND") \in CtxOf(h)
        /\ Starting(SetState(Popped(h), "SRV", "SEND"))
        /\ SetState(Popped(h), "SRV", "SEND").self.object = obex[h].object
    BY <2>1, SetStateCtx
  <2> QED
    BY <1>2, <1>4, <2>1, <2>2, ServerSendCommits DEF ReturnReq
<1>5. CASE ReturnUnexpected(h)
  <2>1. /\ Popped(h) \in CtxOf(h) /\ Starting(Popped(h)) /\ Linked(h)
        /\ Popped(h).self = obex[h] /\ Top(h).pkt.op \in Ops
        /\ (HasObject(h) => obex[h].object \in Object)
    BY <1>5, PoppedCtx DEF ReturnUnexpected, Labels
  <2> QED
    BY <1>2, <1>5, <2>1, ServerReplyCommits DEF ReturnUnexpected
<1> QED
  BY <1>3, <1>4, <1>5

\* Every return of a callback.
LEMMA ReturnCommits ==
  ASSUME IInv, NEW h \in Handles, Return(h)
  PROVE  Commits(h)
BY ReturnSimpleCommits, ReturnNoteCommits, ReturnHintCommits, ReturnDecidedCommits DEF Return

-----------------------------------------------------------------------------
(* The transport.                                                           *)

\* A packet that arrives.
LEMMA HandleInputCommits ==
  ASSUME IInv, NEW h \in Handles, HandleInput(h)
  PROVE  Commits(h)
<1> DEFINE c == [Ctx(h) EXCEPT !.input = Tail(@)]
<1>1. Ctx(h) \in CtxOf(h) /\ Starting(Ctx(h)) /\ Linked(h)
  BY CallCtx
<1>2. chan[h] \in Seq(PacketFrom(Peer(h))) /\ chan[h] # <<>>
  BY <1>1, CtxFields DEF HandleInput
<1>3. Head(chan[h]) \in PacketFrom(Peer(h)) /\ Tail(chan[h]) \in Seq(PacketFrom(Peer(h)))
  BY <1>2, HeadTailProperties
<1>4. c \in CtxOf(h) /\ Starting(c)
  BY <1>1, <1>3 DEF Ctx, CtxOf, Starting
<1>5. Server(h, c, Head(chan[h])) \/ Client(h, c, Head(chan[h]))
  BY DEF HandleInput
<1> HIDE DEF c
<1> QED
  BY <1>1, <1>3, <1>4, <1>5, ServerCommits, ClientCommits

\* The end of a lost connection.
LEMMA ReadErrorCommits ==
  ASSUME IInv, NEW h \in Handles, ReadError(h)
  PROVE  Commits(h)
BY CallCtx, DeliverLastCommits DEF ReadError, Events, Labels, Ops

\* Disconnecting drops the handle's input.
LEMMA DisconnectInv ==
  ASSUME IInv, NEW h \in Handles, Disconnect(h)
  PROVE  IInv'
<1>1. \A g \in Handles : chan'[g] \in Seq(Packet) /\ chan'[g] \in Seq(PacketFrom(Peer(g)))
  BY EmptySeq, CtxFields DEF IInv, TypeOK, Disconnect
<1>2. TypeOK'
  BY <1>1 DEF IInv, TypeOK, Disconnect
<1>3. \A g \in Handles : (Ctx(g) \in CtxOf(g))'
  BY <1>1, ZenonT(30) DEF IInv, Disconnect, Ctx, CtxOf, SelfOf, FrameOf, PacketFrom
<1>4. \A g \in Handles : Starting(Ctx(g))'
  BY DEF IInv, Disconnect, Ctx, Starting
<1> QED
  BY <1>2, <1>3, <1>4 DEF IInv

\* A breaking link may take what is on its way with it.
LEMMA LinkBreaksInv ==
  ASSUME IInv, LinkBreaks
  PROVE  IInv'
<1>1. \A g \in Handles : chan'[g] \in Seq(Packet) /\ chan'[g] \in Seq(PacketFrom(Peer(g)))
  BY EmptySeq, CtxFields DEF IInv, TypeOK, LinkBreaks
<1>2. faults' \in 0..MaxFaults
  BY BoundsAssumption DEF IInv, TypeOK, LinkBreaks, MayFault
<1>3. TypeOK'
  BY <1>1, <1>2 DEF IInv, TypeOK, LinkBreaks
<1>4. \A g \in Handles : (Ctx(g) \in CtxOf(g))'
  BY <1>1, <1>2, ZenonT(30) DEF IInv, LinkBreaks, Ctx, CtxOf, SelfOf, FrameOf, PacketFrom
<1>5. \A g \in Handles : Starting(Ctx(g))'
  BY DEF IInv, LinkBreaks, Ctx, Starting
<1> QED
  BY <1>3, <1>4, <1>5 DEF IInv

\* A new handle sends the smallest packets, which every peer receives.
LEMMA NewHandleSelf ==
  \A h \in Handles : NewHandle \in Self /\ NewHandle \in SelfOf(h) /\ NewHandle.state # "START"
<1>1. \A h \in Handles : MinimumMtu \in Nat /\ MinimumMtu \in 0..MtuRx[Peer(h)]
  BY MtuAssumption, PeerOfPeer
<1> QED
  BY <1>1 DEF NewHandle, Self, SelfOf

\* Connecting again, with the old handles or new ones.
LEMMA ReconnectInv ==
  ASSUME IInv, Reconnect
  PROVE  IInv'
<1>1. \A g \in Handles : chan'[g] \in Seq(Packet) /\ chan'[g] \in Seq(PacketFrom(Peer(g)))
  BY EmptySeq DEF Reconnect
<1>2. \A g \in Handles : obex'[g] = obex[g] \/ obex'[g] = NewHandle
  BY DEF Reconnect
<1>3. \A g \in Handles : obex'[g] \in Self /\ obex'[g] \in SelfOf(g)
  BY <1>2, NewHandleSelf, CtxFields DEF IInv, TypeOK
<1>4. TypeOK'
  BY <1>1, <1>3 DEF IInv, TypeOK, Reconnect
<1>5. \A g \in Handles : (Ctx(g) \in CtxOf(g))'
  BY <1>1, <1>3, ZenonT(30) DEF IInv, Reconnect, Ctx, CtxOf, SelfOf, FrameOf, PacketFrom
<1>6. \A g \in Handles : Starting(Ctx(g))'
  BY <1>2, NewHandleSelf DEF IInv, Reconnect, Ctx, Starting
<1> QED
  BY <1>4, <1>5, <1>6 DEF IInv

-----------------------------------------------------------------------------
(* The theorems.                                                            *)

\* The invariant holds at first.
LEMMA InitInv == Init => IInv
<1> SUFFICES ASSUME Init
             PROVE  IInv
  OBVIOUS
<1>1. TypeOK
  BY NewHandleSelf, BoundsAssumption, EmptySeq DEF Init, TypeOK
<1>2. \A h \in Handles : Ctx(h) \in CtxOf(h)
  <2>1. 0 \in 0..MaxFaults
    BY BoundsAssumption
  <2> QED
    BY <2>1, NewHandleSelf, EmptySeq DEF Init, Ctx, CtxOf
<1>3. \A h \in Handles : Starting(Ctx(h))
  BY NewHandleSelf DEF Init, Ctx, Starting
<1> QED
  BY <1>1, <1>2, <1>3 DEF IInv

\* Every step keeps it.
LEMMA NextInv == IInv /\ [Next]_vars => IInv'
<1> SUFFICES ASSUME IInv, [Next]_vars
             PROVE  IInv'
  OBVIOUS
<1>1. nextId \in 1..(MaxRequests + 1)
  BY DEF IInv, TypeOK
<1>2. ASSUME NEW h \in Handles, Request(h)
      PROVE  IInv'
  BY <1>2, RequestCommits, CommitInv DEF Request
<1>3. ASSUME NEW h \in Handles,
             \/ SetRsp(h) \/ AddHeaders(h) \/ Suspend(h) \/ Resume(h)
             \/ CancelNice(h) \/ CancelHard(h)
      PROVE  IInv'
  <2>1. Commits(h)
    BY <1>3, SetRspCommits, AddHeadersCommits, SuspendCommits, ResumeCommits,
       CancelNiceCommits, CancelHardCommits
  <2>2. UNCHANGED <<link, nextId>>
    BY <1>3 DEF SetRsp, AddHeaders, Suspend, Resume, CancelNice, CancelHard
  <2> QED
    BY <1>1, <2>1, <2>2, CommitInv
<1>4. ASSUME NEW h \in Handles, Return(h)
      PROVE  IInv'
  <2>1. UNCHANGED <<link, nextId>>
    BY <1>4 DEF Return, Returning, ReturnDone, ReturnStart, ReturnContinue, ReturnHint,
       ReturnCheck, ReturnReq, ReturnUnexpected, ReturnSendProgress, ReturnResume,
       ReturnResumeDone, ReturnCancel
  <2> QED
    BY <1>1, <1>4, <2>1, ReturnCommits, CommitInv
<1>5. ASSUME NEW h \in Handles, HandleInput(h) \/ ReadError(h)
      PROVE  IInv'
  <2>1. UNCHANGED <<link, nextId>>
    BY <1>5 DEF HandleInput, ReadError
  <2> QED
    BY <1>1, <1>5, <2>1, HandleInputCommits, ReadErrorCommits, CommitInv
<1>6. ASSUME NEW h \in Handles, Disconnect(h)
      PROVE  IInv'
  BY <1>6, DisconnectInv
<1>7. CASE LinkBreaks
  BY <1>7, LinkBreaksInv
<1>8. CASE Reconnect
  BY <1>8, ReconnectInv
<1>9. CASE UNCHANGED vars
  <2>1. TypeOK'
    BY <1>9 DEF IInv, TypeOK, vars
  <2>2. \A g \in Handles : (Ctx(g) \in CtxOf(g))'
    BY <1>9 DEF IInv, vars, Ctx, CtxOf, SelfOf, FrameOf, PacketFrom
  <2>3. \A g \in Handles : Starting(Ctx(g))'
    BY <1>9 DEF IInv, vars, Ctx, Starting
  <2> QED
    BY <2>1, <2>2, <2>3 DEF IInv
<1> QED
  BY <1>2, <1>3, <1>4, <1>5, <1>6, <1>7, <1>8, <1>9 DEF Next

\* The invariant is one of every behaviour.
THEOREM Invariance == Spec => []IInv
BY InitInv, NextInv, PTL DEF Spec

\* The handles, the packets and the history keep their types, whatever the
\* applications do and however the link behaves.
THEOREM TypeCorrect == Spec => []TypeOK
<1>1. IInv => TypeOK
  BY DEF IInv
<1> QED
  BY <1>1, Invariance, PTL

\* obex_parse_connect_header, obex_insert_connect_frame and the resets to
\* OBEX_MINIMUM_MTU never leave a handle with a send MTU its peer cannot
\* receive: for every pair of MTUs, across aborts, failures and reconnects.
THEOREM MtuAgreement == Spec => []MtuAgreed
<1>1. IInv => MtuAgreed
  <2> SUFFICES ASSUME IInv, NEW h \in Handles
               PROVE  obex[h].mtu_tx <= MtuRx[Peer(h)]
    BY DEF MtuAgreed
  <2>1. obex[h].mtu_tx \in 0..MtuRx[Peer(h)]
    BY CtxFields DEF IInv, SelfOf
  <2>2. MtuRx[Peer(h)] \in Nat
    BY MtuAssumption, PeerOfPeer
  <2> QED
    BY <2>1, <2>2
<1> QED
  BY <1>1, Invariance, PTL

\* The STATE_SEND branch of obex_client is dead code, and STATE_START is never
\* seen outside the callback of OBEX_Request.
THEOREM ClientSendIsDead == Spec => []ClientNeverSends
<1>1. IInv => ClientNeverSends
  <2> SUFFICES ASSUME IInv, NEW h \in Handles
               PROVE  /\ obex[h].state = "SEND" => obex[h].mode = "SRV"
                      /\ obex[h].state = "START" => obex[h].mode = "CLI" /\ InCallback(h)
    BY DEF ClientNeverSends
  <2>1. obex[h].state = "SEND" => obex[h].mode = "SRV"
    BY CtxFields DEF IInv, SelfOf
  <2>2. ASSUME obex[h].state = "START"
        PROVE  obex[h].mode = "CLI" /\ InCallback(h)
    <3>1. obex[h].mode = "CLI" /\ \E i \in 1..Len(stack[h]) : stack[h][i].at = "start"
      BY <2>2 DEF IInv, Starting, Ctx
    <3>2. stack[h] # <<>>
      BY <3>1, EmptySeq
    <3> QED
      BY <3>1, <3>2 DEF InCallback
  <2> QED
    BY <2>1, <2>2
<1> QED
  BY <1>1, Invariance, PTL

-----------------------------------------------------------------------------
(* What the operations on contexts do, field by field.                      *)

Is(c, mode, state, o, frames, input, out, events) ==
  /\ c.self.mode = mode /\ c.self.state = state /\ c.self.object = o
  /\ c.frames = frames /\ c.input = input /\ c.out = out /\ c.seen = events

\* A context gets another object.
LEMMA SetObjectIs ==
  ASSUME NEW h \in Handles, NEW c \in CtxOf(h), NEW o \in Object \cup {NULL}
  PROVE  /\ SetObject(c, o) \in CtxOf(h)
         /\ Is(SetObject(c, o), c.self.mode, c.self.state, o, c.frames, c.input,
               c.out, c.seen)
BY DEF CtxOf, SelfOf, SetObject, Is

\* ... another mode and state.
LEMMA SetStateIs ==
  ASSUME NEW h \in Handles, NEW c \in CtxOf(h), NEW mode \in {"SRV", "CLI"},
         NEW state \in {"IDLE", "START", "SEND", "REC"},
         state = "SEND" => mode = "SRV"
  PROVE  /\ SetState(c, mode, state) \in CtxOf(h)
         /\ Is(SetState(c, mode, state), mode, state, c.self.object, c.frames,
               c.input, c.out, c.seen)
BY DEF CtxOf, SelfOf, SetState, Is

\* ... another MTU.
LEMMA SetMtuIs ==
  ASSUME NEW h \in Handles, NEW c \in CtxOf(h), NEW mtu \in 0..MtuRx[Peer(h)]
  PROVE  /\ SetMtu(c, mtu) \in CtxOf(h)
         /\ Is(SetMtu(c, mtu), c.self.mode, c.self.state, c.self.object, c.frames,
               c.input, c.out, c.seen)
BY DEF CtxOf, SelfOf, SetMtu, Is

\* OBEX_MINIMUM_MTU again, after a DISCONNECT.
LEMMA MinimumIs ==
  ASSUME NEW h \in Handles, NEW c \in CtxOf(h)
  PROVE  /\ SetMtu(c, MinimumMtu) \in CtxOf(h)
         /\ Is(SetMtu(c, MinimumMtu), c.self.mode, c.self.state, c.self.object, c.frames,
               c.input, c.out, c.seen)
<1>1. MinimumMtu \in 0..MtuRx[Peer(h)]
  BY MtuAssumption, PeerOfPeer
<1>2. QED
  BY <1>1, SetMtuIs

\* The MTU of a connect frame.
LEMMA ParseConnectIs ==
  ASSUME NEW h \in Handles, NEW c \in CtxOf(h), NEW pkt \in PacketFrom(Peer(h))
  PROVE  /\ ParseConnect(h, c, pkt) \in CtxOf(h)
         /\ Is(ParseConnect(h, c, pkt), c.self.mode, c.self.state, c.self.object,
               c.frames, c.input, c.out, c.seen)
<1> DEFINE mtu == IF pkt.mtu < MtuTxMax[h] THEN pkt.mtu ELSE MtuTxMax[h]
<1>1. mtu \in 0..MtuRx[Peer(h)]
  <2>1. MtuTxMax[h] \in Nat /\ MtuRx[Peer(h)] \in Nat
    BY MtuAssumption, PeerOfPeer
  <2>2. pkt.mtu \in {0, MtuRx[Peer(h)]}
    BY DEF PacketFrom
  <2>3. QED
    BY <2>1, <2>2
<1> HIDE DEF mtu
<1>2. /\ SetMtu(c, mtu) \in CtxOf(h)
      /\ Is(SetMtu(c, mtu), c.self.mode, c.self.state, c.self.object,
            c.frames, c.input, c.out, c.seen)
  BY <1>1, SetMtuIs
<1>3. Is(c, c.self.mode, c.self.state, c.self.object, c.frames, c.input, c.out, c.seen)
  BY DEF Is
<1>4. QED
  BY <1>2, <1>3 DEF ParseConnect, mtu

(* What the history keeps of an event.                                     *)
Note(ev, rsp, o) == [ev |-> ev, id |-> o.id, rsp |-> rsp, n |-> o.n, rx |-> o.rx]
Notes(ev, rsp, o) ==
  IF o = NULL \/ ev \notin Ends \cup {"REQ"} THEN {} ELSE {Note(ev, rsp, o)}
Called(ev, at, pkt, o) == [ev |-> ev, at |-> at, pkt |-> pkt, id |-> IdOf(o)]

\* The application is called: a frame, and a note in the history.
LEMMA DeliverIs ==
  ASSUME NEW h \in Handles, NEW c \in CtxOf(h), NEW ev \in Events, NEW rsp \in Ops,
         NEW at \in Labels, NEW pkt \in PacketFrom(Peer(h))
  PROVE  /\ Deliver(c, ev, rsp, at, pkt) \in CtxOf(h)
         /\ Is(Deliver(c, ev, rsp, at, pkt), c.self.mode, c.self.state, c.self.object,
               Append(c.frames, Called(ev, at, pkt, c.self.object)), c.input, c.out,
               c.seen \cup Notes(ev, rsp, c.self.object))
<1>1. Deliver(c, ev, rsp, at, pkt) \in CtxOf(h)
  BY DeliverCtx
<1> DEFINE o == c.self.object
           fr == Append(c.frames, Called(ev, at, pkt, o))
           sn == c.seen \cup Notes(ev, rsp, o)
<1>2. Deliver(c, ev, rsp, at, pkt) = [c EXCEPT !.frames = fr, !.seen = sn]
  BY DEF Deliver, CtxOf, Called, Notes, Note
<1> HIDE DEF fr, sn, o
<1>3. LET d == [c EXCEPT !.frames = fr, !.seen = sn]
      IN  /\ d.self = c.self /\ d.frames = fr /\ d.input = c.input /\ d.out = c.out
          /\ d.seen = sn
  BY DEF CtxOf
<1>4. QED
  BY <1>1, <1>2, <1>3 DEF Is, fr, sn, o

\* ... and the object is let go.
LEMMA DeliverLastIs ==
  ASSUME NEW h \in Handles, NEW c \in CtxOf(h), NEW ev \in Events, NEW rsp \in Ops,
         NEW at \in Labels
  PROVE  /\ DeliverLast(c, ev, rsp, at) \in CtxOf(h)
         /\ Is(DeliverLast(c, ev, rsp, at), c.self.mode, c.self.state, NULL,
               Append(c.frames, Called(ev, at, NoPacket, c.self.object)), c.input, c.out,
               c.seen \cup Notes(ev, rsp, c.self.object))
<1>1. NoPacket \in PacketFrom(Peer(h))
  BY NoPacketFrom, PeerOfPeer
<1> DEFINE d == Deliver(c, ev, rsp, at, NoPacket)
<1>2. /\ d \in CtxOf(h)
      /\ Is(d, c.self.mode, c.self.state, c.self.object,
            Append(c.frames, Called(ev, at, NoPacket, c.self.object)), c.input, c.out,
            c.seen \cup Notes(ev, rsp, c.self.object))
  BY <1>1, DeliverIs
<1> HIDE DEF d
<1>3. /\ SetObject(d, NULL) \in CtxOf(h)
      /\ Is(SetObject(d, NULL), d.self.mode, d.self.state, NULL, d.frames, d.input,
            d.out, d.seen)
  BY <1>2, SetObjectIs
<1>4. DeliverLast(c, ev, rsp, at) = SetObject(d, NULL)
  BY DEF DeliverLast, d
<1>5. QED
  BY <1>2, <1>3, <1>4 DEF Is

-----------------------------------------------------------------------------
(* No handler misses its object, and an aborted request stops, whatever is  *)
(* suspended and cancelled and whatever fails.                              *)

(* The application calls the library outside of callbacks, closes the       *)
(* transport on OBEX_EV_LINKERR, as obex_cancelrequest asks of it, and does *)
(* not use the handle of a server again after that.                         *)
Proper == CallsBack = {} /\ "LINKERR" \in ClosesOn /\ Srv \notin ReusedHandles

(* The application of the handle suspends nothing.                          *)
Kind(q) == \A i \in 1..Len(q) : q[i] \in {"header", "stream"}
Steady(h) ==
  /\ h \notin Suspenders /\ ~SuspendsFirst
  /\ \A q \in RequestQueues \cup ResponseQueues : Kind(q)
Level(h, o) == Steady(h) => Kind(o.tx) /\ ~o.suspend

(* A callback is about the object the handle has.  A handle without one is  *)
(* idle, will be when the callback returns, or has told of a link error.    *)
(* An aborted request waits for its answer.                                 *)
Guarded(h, c) ==
  LET o == c.self.object
      f == c.frames[1]
  IN  /\ Len(c.frames) <= 1
      /\ o # NULL =>
           /\ Level(h, o)
           /\ Steady(h) /\ o.abort =>
                c.frames = <<>> /\ c.self.mode = "CLI" /\ c.self.state = "REC"
           /\ c.frames # <<>> => f.id = o.id /\ (f.at = "hint" => c.self.state = "IDLE")
      /\ o = NULL /\ c.frames # <<>> =>
           /\ f.at \in {"done", "continue", "cancel", "resumedone"}
           /\ \/ f.ev = "LINKERR" \/ f.at \in {"cancel", "resumedone"}
              \/ c.self.state = "IDLE"
Idles(c) == c.frames = <<>> /\ c.self.object = NULL => c.self.state = "IDLE"

(* Nobody has sent anything on the connection, and the server has no object.*)
Quiet == chan[Cli] = <<>> /\ chan[Srv] = <<>>
Vacant == Quiet /\ obex[Srv].object = NULL

(* What a handler leaves.                                                   *)
Leaves(h) ==
  \E c \in CtxOf(h) : Guarded(h, c) /\ (Idles(c) \/ link[h] = "closed") /\ Commit(h, c)

(* The invariant.  A handle that was told of a link error and has no object *)
(* is closed, or was connected again and nobody has sent anything.          *)
Guards(h) ==
  /\ Guarded(h, Ctx(h))
  /\ \/ Idles(Ctx(h)) \/ link[h] = "closed"
     \/ h = Cli /\ Vacant
Sound == crashed = {} /\ \A h \in Handles : Guards(h)

\* One callback.
LEMMA OneFrame ==
  ASSUME NEW f
  PROVE  Append(<<>>, f) # <<>> /\ Len(Append(<<>>, f)) = 1 /\ Append(<<>>, f)[1] = f
OBVIOUS

\* A handler ends without calling the application.
LEMMA LeavesObject ==
  ASSUME NEW h \in Handles, NEW c \in CtxOf(h), c.frames = <<>>, c.self.object \in Object,
         Level(h, c.self.object),
         Steady(h) /\ c.self.object.abort => c.self.mode = "CLI" /\ c.self.state = "REC",
         Commit(h, c)
  PROVE  Leaves(h)
<1>1. c.self.object # NULL /\ Len(c.frames) <= 1
  BY NullAssumption
<1> QED
  BY <1>1 DEF Leaves, Guarded, Idles

\* It calls the application and goes on with the object.
LEMMA LeavesCallback ==
  ASSUME NEW h \in Handles, NEW c \in CtxOf(h), c.frames = <<>>, c.self.object \in Object,
         Level(h, c.self.object), Steady(h) => ~c.self.object.abort,
         NEW ev \in Events, NEW rsp \in Ops, NEW at \in Labels,
         NEW pkt \in PacketFrom(Peer(h)), at = "hint" => c.self.state = "IDLE",
         Commit(h, Deliver(c, ev, rsp, at, pkt))
  PROVE  Leaves(h)
<1> DEFINE d == Deliver(c, ev, rsp, at, pkt)
           f == Called(ev, at, pkt, c.self.object)
<1>1. /\ d \in CtxOf(h)
      /\ d.self.state = c.self.state /\ d.self.object = c.self.object
      /\ d.frames = Append(<<>>, f)
  BY DeliverIs DEF Is
<1>2. f.at = at /\ f.id = c.self.object.id /\ c.self.object # NULL
  BY NullAssumption DEF Called, IdOf
<1> HIDE DEF d, f
<1>3. d.frames # <<>> /\ Len(d.frames) <= 1 /\ d.frames[1] = f
  BY <1>1, OneFrame
<1>4. Guarded(h, d) /\ Idles(d)
  BY <1>1, <1>2, <1>3 DEF Guarded, Idles
<1> QED
  BY <1>1, <1>4 DEF Leaves, d

\* It tells the application of the end of the object.
LEMMA LeavesNone ==
  ASSUME NEW h \in Handles, NEW c \in CtxOf(h), c.frames = <<>>,
         NEW ev \in Events, NEW rsp \in Ops,
         NEW at \in {"done", "continue", "cancel", "resumedone"},
         \/ ev = "LINKERR" \/ at \in {"cancel", "resumedone"} \/ c.self.state = "IDLE",
         Commit(h, DeliverLast(c, ev, rsp, at))
  PROVE  Leaves(h)
<1> DEFINE d == DeliverLast(c, ev, rsp, at)
           f == Called(ev, at, NoPacket, c.self.object)
<1>1. at \in Labels
  BY DEF Labels
<1>2. /\ d \in CtxOf(h)
      /\ d.self.state = c.self.state /\ d.self.object = NULL
      /\ d.frames = Append(<<>>, f)
  BY <1>1, DeliverLastIs DEF Is
<1>3. f.at = at /\ f.ev = ev
  BY DEF Called
<1> HIDE DEF d, f
<1>4. d.frames # <<>> /\ Len(d.frames) <= 1 /\ d.frames[1] = f
  BY <1>2, OneFrame
<1>5. Guarded(h, d) /\ Idles(d)
  BY <1>2, <1>3, <1>4 DEF Guarded, Idles
<1> QED
  BY <1>2, <1>5 DEF Leaves, d

-----------------------------------------------------------------------------
(* The operations keep what the invariant needs of an object.               *)

(* The same request, not suspended and not aborted by this.                 *)
Follows(h, o, p) == p.id = o.id /\ p.abort = o.abort /\ (Level(h, o) => Level(h, p))

\* The rest of a queue with nothing that suspends.
LEMMA KindTail ==
  ASSUME NEW q \in Seq(Kinds), q # <<>>, Kind(q)
  PROVE  Tail(q) \in Seq(Kinds) /\ Kind(Tail(q)) /\ Head(q) # "suspend"
<1>1. /\ Len(q) \in Nat \ {0} /\ Tail(q) \in Seq(Kinds) /\ Len(Tail(q)) = Len(q) - 1
      /\ Head(q) = q[1] /\ \A i \in 1..Len(q) - 1 : Tail(q)[i] = q[i + 1]
  BY LenProperties, EmptySeq, HeadTailProperties
<1>2. 1 \in 1..Len(q) /\ \A i \in 1..Len(q) - 1 : i + 1 \in 1..Len(q)
  BY <1>1
<1> QED
  BY <1>1, <1>2 DEF Kind

\* The loop over tx_headerq.
LEMMA FillsKeep ==
  ASSUME NEW h \in Handles, NEW o \in Object, NEW f \in Fills(h, o)
  PROVE  f.obj \in Object /\ Follows(h, o, f.obj)
<1>1. o.n \in Nat /\ o.n + 1 \in Nat /\ o.tx \in Seq(Kinds)
  BY DEF Object
<1>2. f.obj \in Object
  BY FillsObject
<1> DEFINE take(tx, suspend) == [o EXCEPT !.tx = tx, !.n = @ + 1, !.suspend = suspend]
<1>3. ASSUME NEW tx \in Seq(Kinds), NEW suspend \in BOOLEAN,
             Kind(o.tx) => Kind(tx) /\ ~suspend
      PROVE  Follows(h, o, take(tx, suspend))
  <2>1. /\ take(tx, suspend).id = o.id /\ take(tx, suspend).abort = o.abort
        /\ take(tx, suspend).tx = tx /\ take(tx, suspend).suspend = suspend
    BY DEF Object
  <2> QED
    BY <1>3, <2>1 DEF Follows, Level
<1>4. CASE f.obj = o
  BY <1>2, <1>4 DEF Follows
<1>5. CASE h \in Suspenders /\ f.obj = [o EXCEPT !.suspend = TRUE]
  BY <1>2, <1>5 DEF Follows, Level, Steady, Object
<1>6. CASE o.tx # <<>> /\ f.obj = take(Tail(o.tx), Head(o.tx) = "suspend")
  <2>1. /\ Tail(o.tx) \in Seq(Kinds) /\ (Head(o.tx) = "suspend") \in BOOLEAN
        /\ Kind(o.tx) => Kind(Tail(o.tx)) /\ Head(o.tx) # "suspend"
    BY <1>1, <1>6, KindTail
  <2> QED
    BY <1>2, <1>3, <1>6, <2>1
<1>7. CASE f.obj = take(o.tx, FALSE)
  BY <1>1, <1>2, <1>3, <1>7
<1> HIDE DEF take
<1>8. \/ f = [ok |-> TRUE, cost |-> 0, n |-> 0, obj |-> o]
      \/ /\ h \in Suspenders
         /\ f = [ok |-> TRUE, cost |-> 1, n |-> 0, obj |-> [o EXCEPT !.suspend = TRUE]]
      \/ f = [ok |-> FALSE, cost |-> 1, n |-> 0, obj |-> o]
      \/ /\ o.tx # <<>>
         /\ f = [ok |-> TRUE, cost |-> 0, n |-> o.n + 1,
                 obj |-> take(Tail(o.tx), Head(o.tx) = "suspend")]
      \/ f = [ok |-> TRUE, cost |-> 0, n |-> o.n + 1, obj |-> take(o.tx, FALSE)]
  BY DEF Fills, take
<1>9. \/ f.obj = o
      \/ h \in Suspenders /\ f.obj = [o EXCEPT !.suspend = TRUE]
      \/ o.tx # <<>> /\ f.obj = take(Tail(o.tx), Head(o.tx) = "suspend")
      \/ f.obj = take(o.tx, FALSE)
  <2>1. CASE f = [ok |-> TRUE, cost |-> 0, n |-> 0, obj |-> o]
    BY <2>1
  <2>2. CASE /\ h \in Suspenders
             /\ f = [ok |-> TRUE, cost |-> 1, n |-> 0, obj |-> [o EXCEPT !.suspend = TRUE]]
    BY <2>2
  <2>3. CASE f = [ok |-> FALSE, cost |-> 1, n |-> 0, obj |-> o]
    BY <2>3
  <2>4. CASE /\ o.tx # <<>>
             /\ f = [ok |-> TRUE, cost |-> 0, n |-> o.n + 1,
                     obj |-> take(Tail(o.tx), Head(o.tx) = "suspend")]
    BY <2>4
  <2>5. CASE f = [ok |-> TRUE, cost |-> 0, n |-> o.n + 1, obj |-> take(o.tx, FALSE)]
    BY <2>5
  <2> QED
    BY <1>8, <2>1, <2>2, <2>3, <2>4, <2>5
<1> QED
  BY <1>4, <1>5, <1>6, <1>7, <1>9

\* The context an operation on an object leaves.
Kept(h, c, d) ==
  /\ d \in CtxOf(h) /\ d.self.object \in Object
  /\ d.frames = c.frames /\ d.self.mode = c.self.mode /\ d.self.state = c.self.state
  /\ Follows(h, c.self.object, d.self.object)

\* A packet is written or not.
LEMMA WritesKeep ==
  ASSUME NEW h \in Handles, NEW c \in CtxOf(h), NEW pkt \in PacketFrom(h), Linked(h),
         NEW w \in Writes(h, c, pkt)
  PROVE  w.ctx \in CtxOf(h) /\ w.ctx.self = c.self /\ w.ctx.frames = c.frames
<1> DEFINE d == [c EXCEPT !.out = Append(@, pkt)]
<1>1. w.ctx = c \/ w.ctx = d
  BY DEF Writes, Linked
<1>2. d.frames = c.frames
  BY DEF CtxOf
<1> HIDE DEF d
<1> QED
  BY <1>1, <1>2, WritesCtx

\* obex_object_send: the request it was, suspended only by those who suspend.
LEMMA ObjectSendKeeps ==
  ASSUME NEW h \in Handles, NEW c \in CtxOf(h), c.self.object \in Object, Linked(h),
         NEW allowfinalcmd \in BOOLEAN, NEW forcefinalbit \in BOOLEAN,
         NEW r \in ObjectSend(h, c, allowfinalcmd, forcefinalbit)
  PROVE  Kept(h, c, r.ctx) /\ r.ret \in {-1, 0, 1}
<1> DEFINE o == c.self.object
<1>1. CASE o.suspend
  <2>1. r = [ret |-> 0, ctx |-> c]
    BY <1>1 DEF ObjectSend
  <2> QED
    BY <2>1 DEF Kept, Follows
<1>2. CASE ~o.suspend
  <2> DEFINE done(f) == Finished(f.obj, allowfinalcmd)
             pkt(f)  == Packed(h, f, IF done(f) THEN o.lastopcode ELSE o.opcode,
                               forcefinalbit)
             obj(f)  == [f.obj EXCEPT !.nonhdr = FALSE]
             left(f) == [SetObject(c, obj(f)) EXCEPT !.faults = @ + f.cost]
  <2>1. PICK f \in Fills(h, o) :
          /\ c.faults + f.cost <= MaxFaults
          /\ r \in IF f.ok
                   THEN {[ret |-> IF ~w.ok THEN -1 ELSE IF done(f) THEN 1 ELSE 0,
                          ctx |-> w.ctx] : w \in Writes(h, left(f), pkt(f))}
                   ELSE {[ret |-> -1, ctx |-> left(f)]}
    BY <1>2 DEF ObjectSend
  <2>2. /\ f.obj \in Object /\ f.n \in Nat /\ f.cost \in {0, 1} /\ Follows(h, o, f.obj)
    BY FillsObject, FillsKeep
  <2>3. pkt(f) \in PacketFrom(h)
    <3>1. (IF done(f) THEN o.lastopcode ELSE o.opcode) \in Ops
      BY DEF Object
    <3> QED
      BY <2>2, <3>1, PackedFrom
  <2>4. obj(f) \in Object /\ Follows(h, o, obj(f))
    BY <2>2 DEF Object, Follows, Level
  <2>5. c.faults + f.cost \in 0..MaxFaults
    <3>1. MaxFaults \in Nat
      BY BoundsAssumption
    <3>2. c.faults \in 0..MaxFaults
      BY DEF CtxOf
    <3> QED
      BY <2>1, <2>2, <3>1, <3>2
  <2>6. /\ SetObject(c, obj(f)) \in CtxOf(h)
        /\ Is(SetObject(c, obj(f)), c.self.mode, c.self.state, obj(f), c.frames, c.input,
              c.out, c.seen)
        /\ SetObject(c, obj(f)).faults = c.faults
    <3>1. SetObject(c, obj(f)).faults = c.faults
      BY DEF SetObject, CtxOf
    <3> QED
      BY <2>4, <3>1, SetObjectIs
  <2> HIDE DEF obj
  <2>7. Kept(h, c, left(f))
    <3>1. /\ left(f) \in CtxOf(h) /\ left(f).self = SetObject(c, obj(f)).self
          /\ left(f).frames = c.frames
      BY <2>5, <2>6 DEF CtxOf, Is
    <3> HIDE DEF left
    <3> QED
      BY <2>4, <2>6, <3>1 DEF Kept, Is
  <2> HIDE DEF left, pkt, done
  <2>8. CASE f.ok
    <3>1. PICK w \in Writes(h, left(f), pkt(f)) :
            r = [ret |-> IF ~w.ok THEN -1 ELSE IF done(f) THEN 1 ELSE 0, ctx |-> w.ctx]
      BY <2>1, <2>8
    <3>2. /\ w.ctx \in CtxOf(h) /\ w.ctx.self = left(f).self
          /\ w.ctx.frames = left(f).frames
      BY <2>3, <2>7, WritesKeep DEF Kept
    <3> QED
      BY <2>7, <3>1, <3>2 DEF Kept
  <2>9. CASE ~f.ok
    BY <2>1, <2>7, <2>9
  <2> QED
    BY <2>8, <2>9
<1> QED
  BY <1>1, <1>2

\* obex_object_receive sends nothing.
LEMMA ObjectReceiveKeeps ==
  ASSUME NEW h \in Handles, NEW c \in CtxOf(h), c.self.object \in Object,
         NEW pkt \in PacketFrom(Peer(h)), NEW r \in ObjectReceive(c, pkt)
  PROVE  Kept(h, c, r.ctx) /\ r.ctx.self.object.n = c.self.object.n
<1> DEFINE o  == c.self.object
           rx == IF pkt.n = 0 THEN o.rx ELSE Append(o.rx, <<pkt.id, pkt.n>>)
           p  == [o EXCEPT !.rx = rx]
<1>1. r.ctx \in CtxOf(h) /\ r.ctx.self.object \in Object
  BY ObjectReceiveCtx
<1>2. rx \in Seq(Ids \X Nat)
  <2>1. <<pkt.id, pkt.n>> \in Ids \X Nat
    BY DEF PacketFrom
  <2>2. o.rx \in Seq(Ids \X Nat)
    BY DEF Object
  <2> QED
    BY <2>1, <2>2, AppendProperties
<1>3. p \in Object /\ Follows(h, o, p) /\ p.n = o.n
  BY <1>2 DEF Object, Follows, Level
<1>4. \/ r.ctx = SetObject(c, p)
      \/ c.faults < MaxFaults /\ r.ctx = Fault(c)
  BY DEF ObjectReceive
<1> HIDE DEF p
<1>5. CASE r.ctx = SetObject(c, p)
  BY <1>1, <1>3, <1>5, SetObjectIs DEF Kept, Is
<1>6. CASE c.faults < MaxFaults /\ r.ctx = Fault(c)
  <2>1. r.ctx.self = c.self /\ r.ctx.frames = c.frames
    BY <1>6 DEF Fault, CtxOf
  <2> QED
    BY <1>1, <2>1 DEF Kept, Follows
<1> QED
  BY <1>4, <1>5, <1>6

-----------------------------------------------------------------------------
(* obex_client and obex_server leave what the invariant says.               *)

\* The context a handler starts from, that of a request that is not aborted,
\* and what the operations make of it.
Ready(h, c) ==
  /\ c \in CtxOf(h) /\ c.frames = <<>> /\ c.self.object \in Object
  /\ Level(h, c.self.object)
Fresh(h, c) == Ready(h, c) /\ (Steady(h) => ~c.self.object.abort)

\* An operation keeps a context ready.
LEMMA KeptReady ==
  ASSUME NEW h \in Handles, NEW c, NEW d, Kept(h, c, d)
  PROVE  (Ready(h, c) => Ready(h, d)) /\ (Fresh(h, c) => Fresh(h, d))
BY DEF Kept, Ready, Fresh, Follows

\* A new object, state or MTU.
LEMMA ChangesReady ==
  ASSUME NEW h \in Handles, NEW c \in CtxOf(h), c.frames = <<>>,
         NEW o \in Object, Level(h, o)
  PROVE  /\ Ready(h, SetObject(c, o)) /\ SetObject(c, o).self.object = o
         /\ SetObject(c, o).self.mode = c.self.mode
         /\ SetObject(c, o).self.state = c.self.state
BY SetObjectIs DEF Ready, Is

\* Another mode and state.
LEMMA StatesReady ==
  ASSUME NEW h \in Handles, NEW c \in CtxOf(h), NEW mode \in {"SRV", "CLI"},
         NEW state \in {"IDLE", "START", "SEND", "REC"},
         state = "SEND" => mode = "SRV"
  PROVE  /\ SetState(c, mode, state) \in CtxOf(h)
         /\ SetState(c, mode, state).frames = c.frames
         /\ SetState(c, mode, state).self.state = state
         /\ SetState(c, mode, state).self.mode = mode
         /\ SetState(c, mode, state).self.object = c.self.object
         /\ Ready(h, c) => Ready(h, SetState(c, mode, state))
         /\ Fresh(h, c) => Fresh(h, SetState(c, mode, state))
BY SetStateIs DEF Ready, Fresh, Is

\* A response does not change the handle.
LEMMA RespondKeeps ==
  ASSUME NEW h \in Handles, NEW c \in CtxOf(h), NEW rsp \in Ops
  PROVE  /\ Respond(h, c, rsp) \in CtxOf(h) /\ Respond(h, c, rsp).self = c.self
         /\ Respond(h, c, rsp).frames = c.frames
<1>1. Respond(h, c, rsp).frames = c.frames
  BY DEF Respond, CtxOf
<1> QED
  BY <1>1, RespondCtx

\* obex_client, STATE_START.
LEMMA ClientStartLeaves ==
  ASSUME NEW h \in Handles, NEW c, Fresh(h, c), Linked(h), c.self.mode = "CLI",
         ClientStart(h, c)
  PROVE  Leaves(h)
<1>1. PICK r \in ObjectSend(h, c, TRUE, FALSE) :
        \/ Commit(h, DeliverLast(SetState(r.ctx, "CLI", "IDLE"), "LINKERR",
                                r.ctx.self.object.opcode, "done"))
        \/ Commit(h, Deliver(SetObject(r.ctx, [r.ctx.self.object EXCEPT !.sent = TRUE]),
                            "PROGRESS", r.ctx.self.object.opcode, "start", NoPacket))
  BY DEF ClientStart
<1> DEFINE o == [r.ctx.self.object EXCEPT !.sent = TRUE]
<1>2. Fresh(h, r.ctx)
  BY ObjectSendKeeps, KeptReady DEF Fresh, Ready
<1>3. r.ctx.self.object.opcode \in Ops /\ o \in Object /\ Level(h, o)
      /\ (Steady(h) => ~o.abort)
  BY <1>2 DEF Fresh, Ready, Object, Level
<1>4. CASE Commit(h, DeliverLast(SetState(r.ctx, "CLI", "IDLE"), "LINKERR",
                                 r.ctx.self.object.opcode, "done"))
  BY <1>2, <1>3, <1>4, StatesReady, LeavesNone DEF Fresh, Ready, Events
<1>5. CASE Commit(h, Deliver(SetObject(r.ctx, o), "PROGRESS", r.ctx.self.object.opcode,
                             "start", NoPacket))
  <2> HIDE DEF o
  <2>1. NoPacket \in PacketFrom(Peer(h))
    BY NoPacketFrom, PeerOfPeer
  <2>2. Ready(h, SetObject(r.ctx, o)) /\ SetObject(r.ctx, o).self.object = o
    BY <1>2, <1>3, ChangesReady DEF Fresh, Ready
  <2> QED
    BY <1>3, <1>5, <2>1, <2>2, LeavesCallback DEF Ready, Events, Labels
<1> QED
  BY <1>1, <1>4, <1>5

\* The answer cannot be read, or it is the last one.
LEMMA ClientParseErrorLeaves ==
  ASSUME NEW h \in Handles, NEW c, Ready(h, c), ClientParseError(h, c)
  PROVE  Leaves(h)
BY StatesReady, LeavesNone DEF ClientParseError, Ready, Events, Ops, Rsps

\* The last answer.
LEMMA ClientDoneLeaves ==
  ASSUME NEW h \in Handles, NEW c, Ready(h, c), NEW rsp \in Ops, ClientDone(h, c, rsp)
  PROVE  Leaves(h)
<1>1. PICK ev \in {"REQDONE", "ABORT", "LINKERR"} :
        Commit(h, DeliverLast(SetState(c, "SRV", "IDLE"), ev, rsp, "done"))
  BY DEF ClientDone
<1> QED
  BY <1>1, StatesReady, LeavesNone DEF Ready, Events

\* CONTINUE: an aborted request is held back.
LEMMA ClientContinueLeaves ==
  ASSUME NEW h \in Handles, NEW c, Ready(h, c), Linked(h), c.self.mode = "CLI",
         c.self.state = "REC", ClientContinue(h, c)
  PROVE  Leaves(h)
<1> DEFINE o  == SetContinue(c.self.object)
           c1 == SetObject(c, o)
<1>1. /\ o \in Object /\ o.opcode \in Ops /\ Level(h, o)
      /\ o.abort = c.self.object.abort
  BY DEF SetContinue, Object, Ready, Level
<1>2. /\ Ready(h, c1) /\ c1.self.object = o
      /\ c1.self.mode = "CLI" /\ c1.self.state = "REC"
  BY <1>1, ChangesReady DEF Ready
<1> HIDE DEF o, c1
<1>3. CASE Commit(h, c1)
  BY <1>2, <1>3, LeavesObject DEF Ready
<1>4. ASSUME ~o.abort, NEW r \in ObjectSend(h, c1, TRUE, FALSE),
             \/ Commit(h, DeliverLast(r.ctx, "LINKERR", o.opcode, "continue"))
             \/ Commit(h, Deliver(r.ctx, "PROGRESS", o.opcode, "continue", NoPacket))
      PROVE  Leaves(h)
  <2>1. Fresh(h, r.ctx)
    BY <1>2, <1>4, ObjectSendKeeps, KeptReady DEF Fresh, Ready
  <2>2. CASE Commit(h, DeliverLast(r.ctx, "LINKERR", o.opcode, "continue"))
    BY <1>1, <2>1, <2>2, LeavesNone DEF Fresh, Ready, Events
  <2>3. CASE Commit(h, Deliver(r.ctx, "PROGRESS", o.opcode, "continue", NoPacket))
    <3>1. NoPacket \in PacketFrom(Peer(h))
      BY NoPacketFrom, PeerOfPeer
    <3> QED
      BY <1>1, <2>1, <2>3, <3>1, LeavesCallback DEF Fresh, Ready, Events, Labels
  <2> QED
    BY <1>4, <2>2, <2>3
<1> QED
  BY <1>3, <1>4 DEF ClientContinue, HeldBack, o, c1

\* The answer of a request.
LEMMA ClientRecLeaves ==
  ASSUME NEW h \in Handles, NEW c, Ready(h, c), Linked(h), c.self.mode = "CLI",
         c.self.state = "REC", NEW pkt \in PacketFrom(Peer(h)), ClientRec(h, c, pkt)
  PROVE  Leaves(h)
<1> DEFINE o  == c.self.object
           c1 == IF o.opcode = "CONNECT" THEN ParseConnect(h, c, pkt)
                 ELSE IF o.opcode = "DISCONNECT" THEN SetMtu(c, MinimumMtu) ELSE c
<1>1. pkt.op \in Ops
  BY DEF PacketFrom
<1>2. Ready(h, c1) /\ c1.self.mode = "CLI" /\ c1.self.state = "REC"
  BY ParseConnectIs, MinimumIs DEF Ready, Is
<1> HIDE DEF c1, o
<1>3. CASE ClientParseError(h, c)
  BY <1>3, ClientParseErrorLeaves
<1>4. ASSUME NEW r \in ObjectReceive(c1, pkt),
             \/ ClientParseError(h, r.ctx) \/ ClientContinue(h, r.ctx)
             \/ ClientDone(h, r.ctx, pkt.op)
      PROVE  Leaves(h)
  <2>1. Ready(h, r.ctx) /\ r.ctx.self.mode = "CLI" /\ r.ctx.self.state = "REC"
    <3>1. Kept(h, c1, r.ctx)
      BY <1>2, ObjectReceiveKeeps DEF Ready
    <3> QED
      BY <1>2, <3>1, KeptReady DEF Kept
  <2> QED
    BY <1>1, <1>4, <2>1, ClientParseErrorLeaves, ClientContinueLeaves, ClientDoneLeaves
<1> QED
  BY <1>3, <1>4 DEF ClientRec, c1, o

\* A refused packet.
LEMMA ServerBailLeaves ==
  ASSUME NEW h \in Handles, NEW c \in CtxOf(h), c.frames = <<>>, NEW rsp \in Ops,
         NEW ev \in Events, NEW code \in Ops, ServerBail(h, c, rsp, ev, code)
  PROVE  Leaves(h)
<1> DEFINE d == Respond(h, c, rsp)
<1>1. d \in CtxOf(h) /\ d.frames = <<>>
  BY RespondKeeps
<1>2. Commit(h, DeliverLast(SetState(d, "SRV", "IDLE"), ev, code, "done"))
  BY DEF ServerBail
<1> HIDE DEF d
<1> QED
  BY <1>1, <1>2, StatesReady, LeavesNone

\* The next packet of the response.
LEMMA ServerReplyLeaves ==
  ASSUME NEW h \in Handles, NEW c, Fresh(h, c), Linked(h), NEW cmd \in Ops,
         ServerReply(h, c, cmd)
  PROVE  Leaves(h)
<1> DEFINE o  == SetContinue(c.self.object)
           c1 == SetObject(c, o)
           c2(r) == IF cmd = "DISCONNECT" THEN SetMtu(r.ctx, MinimumMtu) ELSE r.ctx
<1>1. /\ o \in Object /\ o.lastopcode \in Ops /\ Level(h, o)
      /\ o.abort = c.self.object.abort
  BY DEF SetContinue, Object, Fresh, Ready, Level
<1>2. Fresh(h, c1)
  BY <1>1, ChangesReady DEF Fresh, Ready
<1> HIDE DEF o, c1
<1>3. CASE Commit(h, c1)
  BY <1>2, <1>3, LeavesObject DEF Fresh, Ready
<1>4. ASSUME NEW r \in ObjectSend(h, c1, TRUE, TRUE)
      PROVE  Fresh(h, r.ctx)
  BY <1>2, ObjectSendKeeps, KeptReady DEF Fresh, Ready
<1>5. ASSUME NEW r \in ObjectSend(h, c1, TRUE, TRUE),
             Commit(h, Deliver(r.ctx, "PROGRESS", cmd, "sendprogress", NoPacket))
      PROVE  Leaves(h)
  <2>1. NoPacket \in PacketFrom(Peer(h))
    BY NoPacketFrom, PeerOfPeer
  <2> QED
    BY <1>4, <1>5, <2>1, LeavesCallback DEF Fresh, Ready, Events, Labels
<1>6. ASSUME NEW r \in ObjectSend(h, c1, TRUE, TRUE),
             Commit(h, DeliverLast(r.ctx, "LINKERR", cmd, "done"))
      PROVE  Leaves(h)
  BY <1>4, <1>6, LeavesNone DEF Fresh, Ready, Events
<1>7. ASSUME NEW r \in ObjectSend(h, c1, TRUE, TRUE),
             Commit(h, DeliverLast(SetState(c2(r), "SRV", "IDLE"), "REQDONE",
                                   o.lastopcode, "done"))
      PROVE  Leaves(h)
  <2>1. c2(r) \in CtxOf(h) /\ c2(r).frames = <<>>
    BY <1>4, MinimumIs DEF Fresh, Ready, Is
  <2> HIDE DEF c2
  <2> QED
    BY <1>1, <1>7, <2>1, StatesReady, LeavesNone DEF Events
<1> QED
  BY <1>3, <1>5, <1>6, <1>7 DEF ServerReply, o, c1

\* A packet in STATE_SEND.
LEMMA ServerSendLeaves ==
  ASSUME NEW h \in Handles, NEW c, Fresh(h, c), Linked(h),
         NEW pkt \in PacketFrom(Peer(h)), NEW data, ServerSend(h, c, pkt, data)
  PROVE  Leaves(h)
<1>1. pkt.op \in Ops
  BY DEF PacketFrom
<1>2. CASE \/ ServerBail(h, c, "SUCCESS", "ABORT", "ABORT")
           \/ ServerBail(h, c, "BAD_REQUEST", "PARSEERR", "BAD_REQUEST")
  BY <1>2, ServerBailLeaves DEF Fresh, Ready, Events, Ops, Rsps
<1>3. CASE ServerReply(h, c, pkt.op)
  BY <1>1, <1>3, ServerReplyLeaves
<1>4. ASSUME NEW r \in ObjectReceive(c, pkt)
      PROVE  Fresh(h, r.ctx)
  BY ObjectReceiveKeeps, KeptReady DEF Fresh, Ready
<1>5. ASSUME NEW r \in ObjectReceive(c, pkt),
             \/ ServerBail(h, r.ctx, "BAD_REQUEST", "PARSEERR", "BAD_REQUEST")
             \/ Commit(h, Deliver(r.ctx, "UNEXPECTED", pkt.op, "unexpected", pkt))
      PROVE  Leaves(h)
  BY <1>1, <1>4, <1>5, ServerBailLeaves, LeavesCallback
     DEF Fresh, Ready, Events, Labels, Ops, Rsps
<1> QED
  BY <1>2, <1>3, <1>5 DEF ServerSend

\* The last packet of a request.
LEMMA ServerFinalLeaves ==
  ASSUME NEW h \in Handles, NEW c, Fresh(h, c), Linked(h),
         NEW pkt \in PacketFrom(Peer(h)), NEW deny, ServerFinal(h, c, pkt, deny)
  PROVE  Leaves(h)
<1> DEFINE o  == [c.self.object EXCEPT !.nonhdr = @ \/ pkt.op = "CONNECT"]
           c1 == SetObject(c, o)
<1>1. pkt.op \in Ops /\ [pkt EXCEPT !.n = 0] \in PacketFrom(Peer(h))
  BY DEF PacketFrom
<1>2. o \in Object /\ Level(h, o) /\ o.abort = c.self.object.abort
  BY DEF Object, Fresh, Ready, Level
<1>3. Fresh(h, c1)
  BY <1>2, ChangesReady DEF Fresh, Ready
<1> HIDE DEF o, c1
<1>4. CASE ServerSend(h, c, [pkt EXCEPT !.n = 0], HasData(pkt))
  BY <1>1, <1>4, ServerSendLeaves
<1>5. CASE Commit(h, Deliver(c1, "REQ", pkt.op, "req", pkt))
  BY <1>1, <1>3, <1>5, LeavesCallback DEF Fresh, Ready, Events, Labels
<1>6. CASE ServerSend(h, SetState(c1, "SRV", "SEND"), pkt, FALSE)
  <2>1. Fresh(h, SetState(c1, "SRV", "SEND"))
    BY <1>3, StatesReady DEF Fresh, Ready
  <2> QED
    BY <1>6, <2>1, ServerSendLeaves
<1> QED
  BY <1>4, <1>5, <1>6 DEF ServerFinal, o, c1

\* What the application decided.
LEMMA ServerDecideLeaves ==
  ASSUME NEW h \in Handles, NEW c, Fresh(h, c), Linked(h),
         NEW pkt \in PacketFrom(Peer(h)), ServerDecide(h, c, pkt)
  PROVE  Leaves(h)
<1>1. pkt.op \in Ops /\ NoPacket \in PacketFrom(Peer(h))
  BY NoPacketFrom, PeerOfPeer DEF PacketFrom
<1>2. CASE ServerFinal(h, c, pkt, TRUE)
  BY <1>2, ServerFinalLeaves
<1>3. ASSUME NEW r \in ObjectSend(h, c, FALSE, TRUE)
      PROVE  Fresh(h, r.ctx)
  BY ObjectSendKeeps, KeptReady DEF Fresh, Ready
<1>4. ASSUME NEW r \in ObjectSend(h, c, FALSE, TRUE),
             \/ Commit(h, DeliverLast(r.ctx, "LINKERR", pkt.op, "done"))
             \/ Commit(h, Deliver(r.ctx, "PROGRESS", pkt.op, "done", NoPacket))
      PROVE  Leaves(h)
  BY <1>1, <1>3, <1>4, LeavesNone, LeavesCallback DEF Fresh, Ready, Events, Labels
<1> QED
  BY <1>2, <1>4 DEF ServerDecide

\* A packet in STATE_REC.
LEMMA ServerRecLeaves ==
  ASSUME NEW h \in Handles, NEW c, Fresh(h, c), Linked(h),
         NEW pkt \in PacketFrom(Peer(h)), ServerRec(h, c, pkt)
  PROVE  Leaves(h)
<1>1. pkt.op \in Ops
  BY DEF PacketFrom
<1>2. CASE \/ ServerBail(h, c, "SUCCESS", "ABORT", "ABORT")
           \/ ServerBail(h, c, "BAD_REQUEST", "PARSEERR", "BAD_REQUEST")
  BY <1>2, ServerBailLeaves DEF Fresh, Ready, Events, Ops, Rsps
<1>3. ASSUME NEW r \in ObjectReceive(c, pkt)
      PROVE  Fresh(h, r.ctx)
  BY ObjectReceiveKeeps, KeptReady DEF Fresh, Ready
<1>4. ASSUME NEW r \in ObjectReceive(c, pkt),
             \/ ServerBail(h, r.ctx, "BAD_REQUEST", "PARSEERR", "BAD_REQUEST")
             \/ ServerFinal(h, r.ctx, pkt, FALSE)
             \/ ServerDecide(h, r.ctx, pkt)
             \/ Commit(h, Deliver(r.ctx, "REQCHECK", pkt.op, "check", pkt))
      PROVE  Leaves(h)
  <2>1. CASE ServerBail(h, r.ctx, "BAD_REQUEST", "PARSEERR", "BAD_REQUEST")
    BY <1>3, <2>1, ServerBailLeaves DEF Fresh, Ready, Events, Ops, Rsps
  <2>2. CASE ServerFinal(h, r.ctx, pkt, FALSE) \/ ServerDecide(h, r.ctx, pkt)
    BY <1>3, <2>2, ServerFinalLeaves, ServerDecideLeaves
  <2>3. CASE Commit(h, Deliver(r.ctx, "REQCHECK", pkt.op, "check", pkt))
    BY <1>1, <1>3, <2>3, LeavesCallback DEF Fresh, Ready, Events, Labels
  <2> QED
    BY <1>4, <2>1, <2>2, <2>3
<1> QED
  BY <1>2, <1>4 DEF ServerRec

\* A packet in STATE_IDLE.
LEMMA ServerIdleLeaves ==
  ASSUME NEW h \in Handles, NEW c \in CtxOf(h), c.frames = <<>>, Linked(h),
         c.self.object # NULL => Fresh(h, c), c.self.state = "IDLE",
         NEW pkt \in PacketFrom(Peer(h)), ServerIdle(h, c, pkt)
  PROVE  Leaves(h)
<1> DEFINE d == Respond(h, c, "INTERNAL_SERVER_ERROR")
           o == NewObject(pkt.id, pkt.op)
<1>1. /\ d \in CtxOf(h) /\ d.self = c.self /\ d.frames = <<>> /\ d.faults = c.faults
  BY RespondKeeps, RespondCtx DEF Ops, Rsps
<1>2. o \in Object /\ pkt.op \in Ops /\ ~o.abort /\ Level(h, o)
  <2>1. ~o.abort /\ ~o.suspend /\ o.tx = <<>>
    BY DEF NewObject
  <2>2. Kind(<<>>)
    BY DEF Kind
  <2> QED
    BY <2>1, <2>2, NewObjectIsObject DEF PacketFrom, Level
<1> HIDE DEF d, o
<1>3. CASE c.self.object # NULL /\ Commit(h, d)
  BY <1>1, <1>3, LeavesObject DEF Fresh, Ready
<1>4. CASE c.self.object = NULL /\ c.faults < MaxFaults /\ Commit(h, Fault(d))
  <2>1. /\ Fault(d) \in CtxOf(h) /\ Fault(d).self = c.self /\ Fault(d).frames = <<>>
    <3>1. Fault(d).frames = d.frames
      BY <1>1 DEF Fault, CtxOf
    <3> QED
      BY <1>1, <1>4, <3>1, FaultCtx
  <2>2. Guarded(h, Fault(d)) /\ Idles(Fault(d))
    BY <1>4, <2>1 DEF Guarded, Idles
  <2> QED
    BY <1>4, <2>1, <2>2 DEF Leaves
<1>5. CASE Commit(h, Deliver(SetObject(c, o), "REQHINT", pkt.op, "hint", pkt))
  <2>1. /\ Ready(h, SetObject(c, o)) /\ SetObject(c, o).self.object = o
        /\ SetObject(c, o).self.state = "IDLE"
    BY <1>2, ChangesReady
  <2> QED
    BY <1>2, <1>5, <2>1, LeavesCallback DEF Ready, Events, Labels
<1> QED
  BY <1>3, <1>4, <1>5 DEF ServerIdle, d, o

-----------------------------------------------------------------------------
(* So do the application's calls and the callbacks that return.             *)

\* A handle outside of callbacks, or with an object.
LEMMA CallReady ==
  ASSUME IInv, Sound, NEW h \in Handles
  PROVE  /\ Ctx(h) \in CtxOf(h) /\ Linked(h) /\ Ctx(h).self = obex[h]
         /\ Ctx(h).frames = stack[h] /\ Guarded(h, Ctx(h)) /\ Fault(Ctx(h)).frames = stack[h]
         /\ HasObject(h) => /\ obex[h].object \in Object /\ Level(h, obex[h].object)
                            /\ (InCallback(h) => (Steady(h) => ~obex[h].object.abort))
         /\ HasObject(h) /\ ~InCallback(h) => Ready(h, Ctx(h))
<1>1. Ctx(h).frames = stack[h] /\ Fault(Ctx(h)).frames = stack[h]
  BY DEF Ctx, Fault
<1>2. Guarded(h, Ctx(h))
  BY DEF Sound, Guards
<1> QED
  BY <1>1, <1>2, CallCtx DEF Guarded, HasObject, InCallback, Ready

\* OBEX_Request.
LEMMA RequestLeaves ==
  ASSUME Proper, IInv, Sound, NEW h \in Handles, Request(h)
  PROVE  Leaves(h)
<1>1. nextId \in Ids
  BY BoundsAssumption DEF Request, IInv, TypeOK, Ids
<1>2. PICK cmd \in Commands, tx \in RequestQueues, suspend \in BOOLEAN :
        /\ suspend => SuspendsFirst /\ MayFault
        /\ LET o == [NewObject(nextId, cmd) EXCEPT
                       !.opcode = cmd, !.lastopcode = cmd, !.tx = tx,
                       !.nonhdr = (cmd = "CONNECT"), !.suspend = suspend]
               c == [Ctx(h) EXCEPT !.faults = IF suspend THEN @ + 1 ELSE @]
           IN  ClientStart(h, SetObject(SetState(c, "CLI", "START"), o))
  BY DEF Request
<1> DEFINE o == [NewObject(nextId, cmd) EXCEPT
                   !.opcode = cmd, !.lastopcode = cmd, !.tx = tx,
                   !.nonhdr = (cmd = "CONNECT"), !.suspend = suspend]
           c == [Ctx(h) EXCEPT !.faults = IF suspend THEN @ + 1 ELSE @]
           s == SetState(c, "CLI", "START")
<1>3. o \in Object /\ o.tx = tx /\ o.suspend = suspend /\ ~o.abort
  <2>1. cmd \in Ops /\ tx \in Seq(Kinds)
    BY CommandsAssumption, QueuesAssumption DEF Ops
  <2>2. NewObject(nextId, cmd) \in Object /\ ~NewObject(nextId, cmd).abort
    BY <1>1, <2>1, NewObjectIsObject DEF NewObject
  <2> QED
    BY <2>1, <2>2 DEF Object
<1>4. c \in CtxOf(h) /\ c.frames = <<>>
  <2>1. MaxFaults \in Nat /\ faults \in 0..MaxFaults
    BY BoundsAssumption DEF IInv, TypeOK
  <2>2. (IF suspend THEN faults + 1 ELSE faults) \in 0..MaxFaults
    BY <1>2, <2>1 DEF MayFault
  <2>3. stack[h] = <<>>
    BY DEF Request, MayCall, InCallback, Proper
  <2> QED
    BY <2>2, <2>3, CallCtx DEF CtxOf, Ctx
<1>5. Level(h, o)
  BY <1>2, <1>3 DEF Level, Steady
<1> HIDE DEF o, c
<1>6. s \in CtxOf(h) /\ s.self.mode = "CLI" /\ s.frames = <<>>
  BY <1>4, StatesReady
<1> HIDE DEF s
<1>7. Fresh(h, SetObject(s, o)) /\ SetObject(s, o).self.mode = "CLI"
  BY <1>3, <1>5, <1>6, ChangesReady DEF Fresh
<1>8. ClientStart(h, SetObject(s, o))
  BY <1>2 DEF s, c, o
<1> QED
  BY <1>7, <1>8, CallReady, ClientStartLeaves

\* A call that changes nothing but the queue and the codes of an object, or
\* suspends it.
LEMMA ChangeLeaves ==
  ASSUME IInv, Sound, NEW h \in Handles, HasObject(h), NEW c \in CtxOf(h),
         c.self = obex[h], c.frames = stack[h],
         NEW o \in Object, o.id = obex[h].object.id, o.abort = obex[h].object.abort,
         Level(h, o), Commit(h, SetObject(c, o))
  PROVE  Leaves(h)
<1> DEFINE d == SetObject(c, o)
<1>1. /\ d \in CtxOf(h) /\ d.self.object = o /\ d.self.mode = obex[h].mode
      /\ d.self.state = obex[h].state /\ d.frames = stack[h]
  BY SetObjectIs DEF Is
<1>2. Guarded(h, Ctx(h)) /\ Ctx(h).self = obex[h] /\ Ctx(h).frames = stack[h]
  BY CallReady
<1>3. o # NULL
  BY NullAssumption
<1> HIDE DEF d
<1>4. Guarded(h, d) /\ Idles(d)
  BY <1>1, <1>2, <1>3 DEF Guarded, Idles, HasObject
<1> QED
  BY <1>1, <1>4 DEF Leaves, d

\* OBEX_ObjectSetRsp, OBEX_ObjectAddHeader, obex_object_suspend.
LEMMA SetRspLeaves ==
  ASSUME IInv, Sound, NEW h \in Handles, SetRsp(h)
  PROVE  Leaves(h)
<1> DEFINE o == obex[h].object
           accepted == [o EXCEPT !.opcode = "CONTINUE", !.lastopcode = "SUCCESS"]
           refused(rsp) == [o EXCEPT !.opcode = rsp, !.lastopcode = rsp]
<1>1. PICK rsp \in Answers :
        Commit(h, SetObject(Ctx(h), IF rsp = "SUCCESS" THEN accepted ELSE refused(rsp)))
  BY DEF SetRsp
<1>2. HasObject(h) /\ o \in Object /\ Level(h, o)
  BY CallReady DEF SetRsp
<1>3. /\ accepted \in Object /\ refused(rsp) \in Object
      /\ accepted.id = o.id /\ accepted.abort = o.abort /\ Level(h, accepted)
      /\ refused(rsp).id = o.id /\ refused(rsp).abort = o.abort /\ Level(h, refused(rsp))
  BY <1>2, AnswersAssumption DEF Object, Ops, Rsps, Level
<1> HIDE DEF accepted, refused
<1> QED
  BY <1>1, <1>2, <1>3, CallReady, ChangeLeaves

\* OBEX_ObjectAddHeader.
LEMMA AddHeadersLeaves ==
  ASSUME IInv, Sound, NEW h \in Handles, AddHeaders(h)
  PROVE  Leaves(h)
<1> DEFINE o == obex[h].object
           with(tx) == [o EXCEPT !.tx = tx]
<1>1. HasObject(h) /\ o \in Object /\ Level(h, o)
  BY CallReady DEF AddHeaders
<1>2. ASSUME NEW tx \in Seq(Kinds), Steady(h) => Kind(tx)
      PROVE  /\ with(tx) \in Object /\ with(tx).id = o.id /\ with(tx).abort = o.abort
             /\ Level(h, with(tx))
  BY <1>1, <1>2 DEF Object, Level
<1>3. ASSUME NEW tx \in ResponseQueues, Commit(h, SetObject(Ctx(h), with(tx)))
      PROVE  Leaves(h)
  <2>1. tx \in Seq(Kinds) /\ (Steady(h) => Kind(tx))
    BY QueuesAssumption DEF Steady
  <2> HIDE DEF with
  <2> QED
    BY <1>1, <1>2, <1>3, <2>1, CallReady, ChangeLeaves
<1>4. ASSUME MayFault, Commit(h, SetObject(Fault(Ctx(h)), with(<<"header">>)))
      PROVE  Leaves(h)
  <2>1. <<"header">> \in Seq(Kinds) /\ Kind(<<"header">>)
    BY DEF Kinds, Kind
  <2>2. Fault(Ctx(h)) \in CtxOf(h) /\ Fault(Ctx(h)).self = obex[h]
    BY <1>4, CallCtx, FaultCtx DEF MayFault
  <2> HIDE DEF with
  <2> QED
    BY <1>1, <1>2, <1>4, <2>1, <2>2, CallReady, ChangeLeaves
<1> QED
  BY <1>3, <1>4 DEF AddHeaders

\* obex_object_suspend.
LEMMA SuspendLeaves ==
  ASSUME IInv, Sound, NEW h \in Handles, Suspend(h)
  PROVE  Leaves(h)
<1> DEFINE o == [obex[h].object EXCEPT !.suspend = TRUE]
<1>1. HasObject(h) /\ obex[h].object \in Object /\ ~Steady(h)
  BY CallReady DEF Suspend, Steady
<1>2. o \in Object /\ o.id = obex[h].object.id /\ o.abort = obex[h].object.abort
      /\ Level(h, o)
  BY <1>1 DEF Object, Level
<1>3. Fault(Ctx(h)) \in CtxOf(h) /\ Fault(Ctx(h)).self = obex[h]
  BY CallCtx, FaultCtx DEF MayFault, Suspend
<1>4. Commit(h, SetObject(Fault(Ctx(h)), o))
  BY DEF Suspend
<1> HIDE DEF o
<1> QED
  BY <1>1, <1>2, <1>3, <1>4, CallReady, ChangeLeaves

\* obex_object_resume.
LEMMA ResumeLeaves ==
  ASSUME Proper, IInv, Sound, NEW h \in Handles, Resume(h)
  PROVE  Leaves(h)
<1> DEFINE o == [obex[h].object EXCEPT !.suspend = FALSE]
           c == SetObject(Ctx(h), o)
<1>1. /\ HasObject(h) /\ obex[h].object \in Object /\ obex[h].object.suspend
      /\ stack[h] = <<>> /\ ~Steady(h)
  BY CallReady DEF Resume, MayCall, InCallback, Proper, Level
<1>2. o \in Object /\ o.opcode \in Ops /\ o.lastopcode \in Ops /\ Level(h, o)
  BY <1>1 DEF Object, Level
<1>3. Fresh(h, c) /\ c.self.object = o /\ Linked(h)
  BY <1>1, <1>2, CallReady, ChangesReady DEF Fresh
<1>4. ASSUME NEW r \in ObjectSend(h, c, TRUE, FALSE)
      PROVE  Fresh(h, r.ctx)
  <2> HIDE DEF o, c
  <2> QED
    BY <1>3, ObjectSendKeeps, KeptReady DEF Fresh, Ready
<1>5. \/ Commit(h, c)
      \/ \E r \in ObjectSend(h, c, TRUE, FALSE) :
           \/ Commit(h, DeliverLast(r.ctx, "LINKERR", o.opcode, "done"))
           \/ Commit(h, Deliver(r.ctx, "PROGRESS", o.opcode, "resume", NoPacket))
           \/ Commit(h, DeliverLast(r.ctx, "REQDONE", o.lastopcode, "resumedone"))
           \/ Commit(h, SetState(r.ctx, "CLI", "REC"))
  BY DEF Resume
<1> HIDE DEF o, c
<1>6. CASE Commit(h, c)
  BY <1>3, <1>6, LeavesObject DEF Fresh, Ready
<1>7. ASSUME NEW r \in ObjectSend(h, c, TRUE, FALSE),
             \/ Commit(h, DeliverLast(r.ctx, "LINKERR", o.opcode, "done"))
             \/ Commit(h, DeliverLast(r.ctx, "REQDONE", o.lastopcode, "resumedone"))
      PROVE  Leaves(h)
  BY <1>2, <1>4, <1>7, LeavesNone DEF Fresh, Ready, Events
<1>8. ASSUME NEW r \in ObjectSend(h, c, TRUE, FALSE),
             Commit(h, Deliver(r.ctx, "PROGRESS", o.opcode, "resume", NoPacket))
      PROVE  Leaves(h)
  <2>1. NoPacket \in PacketFrom(Peer(h))
    BY NoPacketFrom, PeerOfPeer
  <2> QED
    BY <1>2, <1>4, <1>8, <2>1, LeavesCallback DEF Fresh, Ready, Events, Labels
<1>9. ASSUME NEW r \in ObjectSend(h, c, TRUE, FALSE), Commit(h, SetState(r.ctx, "CLI", "REC"))
      PROVE  Leaves(h)
  <2>1. Fresh(h, r.ctx)
    BY <1>4
  <2>2. r.ctx \in CtxOf(h)
    BY <2>1 DEF Fresh, Ready
  <2>3. Fresh(h, SetState(r.ctx, "CLI", "REC"))
    BY <2>1, <2>2, StatesReady
  <2> QED
    BY <1>9, <2>3, LeavesObject DEF Fresh, Ready
<1> QED
  BY <1>5, <1>6, <1>7, <1>8, <1>9

\* OBEX_CancelRequest, with an ABORT and without one.
LEMMA CancelNiceLeaves ==
  ASSUME Proper, IInv, Sound, NEW h \in Handles, CancelNice(h)
  PROVE  Leaves(h)
<1> DEFINE pkt == [op |-> "ABORT", final |-> TRUE, id |-> obex[h].object.id, n |-> 0,
                   mtu |-> 0]
           o == [obex[h].object EXCEPT !.abort = TRUE]
<1>1. PICK w \in Writes(h, Fault(Ctx(h)), pkt) :
        Commit(h, SetState(SetObject(w.ctx, o), "CLI", "REC"))
  BY DEF CancelNice
<1>2. /\ HasObject(h) /\ obex[h].object \in Object /\ Level(h, obex[h].object)
      /\ stack[h] = <<>>
  BY CallReady DEF CancelNice, MayCall, InCallback, Proper
<1>3. o \in Object /\ Level(h, o) /\ pkt \in PacketFrom(h)
  BY <1>2 DEF Object, PacketFrom, Ops, Level
<1>4. Fault(Ctx(h)) \in CtxOf(h) /\ Fault(Ctx(h)).frames = <<>>
  BY <1>2, CallCtx, CallReady, FaultCtx DEF MayFault, CancelNice
<1> HIDE DEF o, pkt
<1>5. w.ctx \in CtxOf(h) /\ w.ctx.frames = <<>>
  BY <1>1, <1>3, <1>4, CallCtx, WritesKeep
<1> DEFINE e == SetObject(w.ctx, o)
           d == SetState(e, "CLI", "REC")
<1>6. Ready(h, e)
  BY <1>3, <1>5, ChangesReady
<1>7. Commit(h, d)
  BY <1>1
<1> HIDE DEF e
<1>8. e \in CtxOf(h)
  BY <1>6 DEF Ready
<1>9. Ready(h, d) /\ d.self.mode = "CLI" /\ d.self.state = "REC"
  BY <1>6, <1>8, StatesReady
<1> HIDE DEF d
<1> QED
  BY <1>7, <1>9, LeavesObject DEF Ready

\* OBEX_CancelRequest without an ABORT.
LEMMA CancelHardLeaves ==
  ASSUME Proper, IInv, Sound, NEW h \in Handles, CancelHard(h)
  PROVE  Leaves(h)
<1>1. Fault(Ctx(h)) \in CtxOf(h) /\ Fault(Ctx(h)).frames = <<>>
  BY CallCtx, CallReady, FaultCtx DEF MayFault, CancelHard, MayCall, InCallback, Proper
<1> QED
  BY <1>1, LeavesNone DEF CancelHard, Events, Ops

\* The end of a lost connection.
LEMMA ReadErrorLeaves ==
  ASSUME IInv, Sound, NEW h \in Handles, ReadError(h)
  PROVE  Leaves(h)
<1>1. Ctx(h) \in CtxOf(h) /\ Ctx(h).frames = <<>>
  BY CallReady DEF ReadError, InCallback
<1> QED
  BY <1>1, LeavesNone DEF ReadError, Events, Ops

\* A packet that arrives: a handle that listens to one is open, and was not
\* connected again without a request.
LEMMA HandleInputLeaves ==
  ASSUME IInv, Sound, NEW h \in Handles, HandleInput(h)
  PROVE  Leaves(h)
<1> DEFINE c == [Ctx(h) EXCEPT !.input = Tail(@)]
           pkt == Head(chan[h])
<1>1. Ctx(h) \in CtxOf(h) /\ Linked(h) /\ stack[h] = <<>> /\ Ctx(h).self = obex[h]
      /\ Ctx(h).frames = <<>> /\ Guarded(h, Ctx(h))
  BY CallReady DEF HandleInput, InCallback
<1>2. chan[h] \in Seq(PacketFrom(Peer(h))) /\ chan[h] # <<>>
  BY <1>1, CtxFields DEF HandleInput
<1>3. pkt \in PacketFrom(Peer(h)) /\ Tail(chan[h]) \in Seq(PacketFrom(Peer(h)))
  BY <1>2, HeadTailProperties
<1>4. c \in CtxOf(h) /\ c.self = obex[h] /\ c.frames = <<>>
  BY <1>1, <1>3 DEF Ctx, CtxOf
<1>5. \/ obex[h].mode = "SRV" /\ Server(h, c, pkt)
      \/ obex[h].mode = "CLI" /\ Client(h, c, pkt)
  BY <1>4 DEF HandleInput
<1>6. obex[h].object = NULL => obex[h].state = "IDLE"
  <2>1. ~(h = Cli /\ Vacant)
    BY <1>2 DEF Vacant, Quiet
  <2>2. link[h] # "closed"
    BY DEF HandleInput
  <2> QED
    BY <1>1, <2>1, <2>2 DEF Sound, Guards, Idles
<1>7. obex[h].object # NULL =>
        /\ Ready(h, c)
        /\ Steady(h) /\ obex[h].object.abort => obex[h].mode = "CLI" /\ obex[h].state = "REC"
  BY <1>1, <1>4, CallReady DEF Ready, Guarded, HasObject
<1> HIDE DEF c, pkt
<1>8. CASE obex[h].mode = "SRV" /\ Server(h, c, pkt)
  <2>1. obex[h].object # NULL => Fresh(h, c)
    BY <1>4, <1>7, <1>8 DEF Fresh
  <2>2. CASE c.self.state = "IDLE" /\ ServerIdle(h, c, pkt)
    BY <1>1, <1>3, <1>4, <2>1, <2>2, ServerIdleLeaves
  <2>3. CASE /\ c.self.object # NULL
             /\ ServerRec(h, c, pkt) \/ ServerSend(h, c, pkt, HasData(pkt))
    BY <1>1, <1>3, <1>4, <2>1, <2>3, ServerRecLeaves, ServerSendLeaves
  <2> QED
    BY <1>4, <1>6, <1>8, <2>2, <2>3 DEF Server
<1>9. CASE obex[h].mode = "CLI" /\ Client(h, c, pkt)
  <2>1. pkt.op \in Ops
    BY <1>3 DEF PacketFrom
  <2>2. CASE c.self.state = "IDLE" /\ Commit(h, DeliverLast(c, "PARSEERR", pkt.op, "done"))
    BY <1>4, <2>1, <2>2, LeavesNone DEF Events
  <2>3. CASE c.self.state = "REC" /\ c.self.object # NULL /\ ClientRec(h, c, pkt)
    BY <1>1, <1>3, <1>4, <1>7, <1>9, <2>3, ClientRecLeaves
  <2> QED
    BY <1>4, <1>6, <1>9, <2>2, <2>3 DEF Client
<1> QED
  BY <1>5, <1>8, <1>9

-----------------------------------------------------------------------------
(* So do the callbacks that return.                                         *)

\* The context of a callback that returns: it has the object it was about, or it
\* is one of those after which none is needed.
LEMMA PoppedIs ==
  ASSUME IInv, Sound, NEW h \in Handles, NEW at \in Labels, Returning(h, at)
  PROVE  /\ Popped(h) \in CtxOf(h) /\ Popped(h).frames = <<>> /\ Popped(h).self = obex[h]
         /\ Linked(h) /\ Top(h).pkt \in PacketFrom(Peer(h))
         /\ HasObject(h) => /\ Fresh(h, Popped(h)) /\ Top(h).id = obex[h].object.id
                            /\ at = "hint" => obex[h].state = "IDLE"
         /\ ~HasObject(h) => /\ at \in {"done", "continue", "cancel", "resumedone"}
                             /\ \/ Top(h).ev = "LINKERR" \/ at \in {"cancel", "resumedone"}
                                \/ obex[h].state = "IDLE"
<1>1. /\ Popped(h) \in CtxOf(h) /\ Popped(h).self = obex[h] /\ Linked(h)
      /\ Top(h).pkt \in PacketFrom(Peer(h))
      /\ HasObject(h) => obex[h].object \in Object
  BY PoppedCtx
<1>2. /\ stack[h] # <<>> /\ Guarded(h, Ctx(h)) /\ Ctx(h).self = obex[h]
      /\ Ctx(h).frames = stack[h] /\ Top(h).at = at
      /\ stack[h] \in Seq(FrameOf(h))
  BY CallReady, CtxFields DEF Returning, InCallback
<1>3. Len(stack[h]) = 1
  <2>1. Len(stack[h]) \in Nat \ {0}
    BY <1>2, EmptySeq
  <2>2. Len(Ctx(h).frames) <= 1
    BY <1>2, Zenon DEF Guarded
  <2>3. Ctx(h).frames = stack[h]
    BY <1>2
  <2>4. Len(stack[h]) <= 1
    BY <2>2, <2>3, Zenon
  <2>5. \A n \in Nat \ {0} : n <= 1 => n = 1
    OBVIOUS
  <2> QED
    BY <2>1, <2>4, <2>5, Zenon
<1>4. Popped(h).frames = <<>> /\ Top(h) = stack[h][1]
  <2>1. Popped(h).frames = SubSeq(stack[h], 1, Len(stack[h]) - 1)
    BY DEF Popped, Ctx
  <2>2. SubSeq(stack[h], 1, 0) = <<>>
    BY <1>2
  <2> QED
    BY <1>3, <2>1, <2>2 DEF Top
<1>5. HasObject(h) => /\ Level(h, obex[h].object) /\ (Steady(h) => ~obex[h].object.abort)
                      /\ Top(h).id = obex[h].object.id
                      /\ at = "hint" => obex[h].state = "IDLE"
  BY <1>2, <1>4 DEF Guarded, HasObject
<1>6. ~HasObject(h) => /\ at \in {"done", "continue", "cancel", "resumedone"}
                       /\ \/ Top(h).ev = "LINKERR" \/ at \in {"cancel", "resumedone"}
                          \/ obex[h].state = "IDLE"
  BY <1>2, <1>4 DEF Guarded, HasObject
<1> QED
  BY <1>1, <1>4, <1>5, <1>6 DEF Fresh, Ready

\* Nothing follows the callback, or only a state does.
LEMMA ReturnsLeave ==
  ASSUME NEW h \in Handles, NEW c \in CtxOf(h), c.frames = <<>>,
         c.self.object # NULL => Fresh(h, c),
         c.self.object = NULL => c.self.state = "IDLE" \/ link[h] = "closed",
         Commit(h, c)
  PROVE  Leaves(h)
<1>1. CASE c.self.object # NULL
  BY <1>1, LeavesObject DEF Fresh, Ready
<1>2. CASE c.self.object = NULL
  <2>1. Guarded(h, c) /\ (Idles(c) \/ link[h] = "closed")
    BY <1>2 DEF Guarded, Idles
  <2> QED
    BY <2>1 DEF Leaves
<1> QED
  BY <1>1, <1>2

\* After the last event of a request, the start of one and a cancel.
LEMMA ReturnSimpleLeaves ==
  ASSUME Proper, IInv, Sound, NEW h \in Handles,
         \/ ReturnDone(h) \/ ReturnStart(h) \/ ReturnResumeDone(h) \/ ReturnCancel(h)
  PROVE  Leaves(h)
<1> DEFINE c == Popped(h)
<1>1. CASE ReturnDone(h)
  <2>1. Commit(h, c) /\ Returning(h, "done")
    BY <1>1 DEF ReturnDone
  <2>2. c \in CtxOf(h) /\ c.frames = <<>> /\ c.self = obex[h]
        /\ (HasObject(h) => Fresh(h, c))
        /\ (~HasObject(h) => Top(h).ev = "LINKERR" \/ obex[h].state = "IDLE")
    BY <2>1, PoppedIs DEF Labels
  <2>3. Top(h).ev = "LINKERR" => link[h] = "closed"
    BY <2>1 DEF Returning, Proper
  <2> HIDE DEF c
  <2> QED
    BY <2>1, <2>2, <2>3, ReturnsLeave DEF HasObject
<1>2. CASE ReturnStart(h)
  <2>1. Commit(h, SetState(c, "CLI", "REC")) /\ Returning(h, "start")
    BY <1>2 DEF ReturnStart
  <2>2. c \in CtxOf(h) /\ c.frames = <<>> /\ Fresh(h, c)
    BY <2>1, PoppedIs DEF Labels
  <2> HIDE DEF c
  <2>3. Fresh(h, SetState(c, "CLI", "REC"))
    BY <2>2, StatesReady
  <2> QED
    BY <2>1, <2>3, LeavesObject DEF Fresh, Ready
<1>3. CASE ReturnResumeDone(h)
  <2> DEFINE d == SetState(c, "SRV", "IDLE")
  <2>1. Commit(h, d) /\ Returning(h, "resumedone")
    BY <1>3 DEF ReturnResumeDone
  <2>2. c \in CtxOf(h) /\ c.frames = <<>> /\ c.self = obex[h] /\ (HasObject(h) => Fresh(h, c))
    BY <2>1, PoppedIs DEF Labels
  <2> HIDE DEF c
  <2>3. d \in CtxOf(h) /\ d.frames = <<>> /\ d.self.state = "IDLE"
        /\ d.self.object = obex[h].object /\ (HasObject(h) => Fresh(h, d))
    BY <2>2, StatesReady
  <2> HIDE DEF d
  <2> QED
    BY <2>1, <2>3, ReturnsLeave DEF HasObject
<1>4. CASE ReturnCancel(h)
  <2>1. Commit(h, Deliver(c, "LINKERR", "ABORT", "done", NoPacket)) /\ Returning(h, "cancel")
    BY <1>4 DEF ReturnCancel
  <2>2. c \in CtxOf(h) /\ c.frames = <<>> /\ c.self = obex[h] /\ (HasObject(h) => Fresh(h, c))
    BY <2>1, PoppedIs DEF Labels
  <2>3. NoPacket \in PacketFrom(Peer(h))
    BY NoPacketFrom, PeerOfPeer
  <2> HIDE DEF c
  <2>4. CASE HasObject(h)
    BY <2>1, <2>2, <2>3, <2>4, LeavesCallback DEF Events, Labels, Ops, Fresh, Ready
  <2>5. CASE ~HasObject(h)
    <3> DEFINE d == Deliver(c, "LINKERR", "ABORT", "done", NoPacket)
               f == Called("LINKERR", "done", NoPacket, c.self.object)
    <3>1. "LINKERR" \in Events /\ "ABORT" \in Ops /\ "done" \in Labels
      BY DEF Events, Ops, Labels
    <3>2. d \in CtxOf(h) /\ d.self.object = NULL /\ d.frames = Append(<<>>, f)
      BY <2>2, <2>3, <2>5, <3>1, DeliverIs DEF Is, HasObject
    <3>3. f.at = "done" /\ f.ev = "LINKERR"
      BY DEF Called
    <3> HIDE DEF d, f
    <3>4. d.frames # <<>> /\ Len(d.frames) <= 1 /\ d.frames[1] = f
      BY <3>2, OneFrame
    <3>5. Guarded(h, d) /\ Idles(d)
      BY <3>2, <3>3, <3>4 DEF Guarded, Idles
    <3> QED
      BY <2>1, <3>2, <3>5 DEF Leaves, d
  <2> QED
    BY <2>4, <2>5
<1> QED
  BY <1>1, <1>2, <1>3, <1>4

\* After OBEX_EV_PROGRESS of a packet.
LEMMA ReturnNoteLeaves ==
  ASSUME Proper, IInv, Sound, NEW h \in Handles,
         ReturnContinue(h) \/ ReturnSendProgress(h) \/ ReturnResume(h)
  PROVE  Leaves(h)
<1> DEFINE c == Popped(h)
           o == [obex[h].object EXCEPT !.cont = FALSE]
           p == [obex[h].object EXCEPT !.sent = TRUE, !.cont = FALSE]
<1>1. ASSUME HasObject(h), Fresh(h, c), c.self = obex[h]
      PROVE  /\ o \in Object /\ Level(h, o) /\ (Steady(h) => ~o.abort)
             /\ p \in Object /\ Level(h, p) /\ (Steady(h) => ~p.abort)
  BY <1>1 DEF Fresh, Ready, Object, Level
<1>2. CASE ReturnContinue(h)
  <2>1. /\ Returning(h, "continue")
        /\ Commit(h, IF HasObject(h) THEN SetObject(c, o) ELSE c)
    BY <1>2 DEF ReturnContinue
  <2>2. c \in CtxOf(h) /\ c.frames = <<>> /\ c.self = obex[h]
        /\ (HasObject(h) => Fresh(h, c))
        /\ (~HasObject(h) => Top(h).ev = "LINKERR" \/ obex[h].state = "IDLE")
    BY <2>1, PoppedIs DEF Labels
  <2>3. Top(h).ev = "LINKERR" => link[h] = "closed"
    BY <2>1 DEF Returning, Proper
  <2>4. CASE HasObject(h)
    <3>1. o \in Object /\ Level(h, o) /\ (Steady(h) => ~o.abort)
      BY <1>1, <2>2, <2>4
    <3>2. Commit(h, SetObject(c, o))
      BY <2>1, <2>4
    <3> HIDE DEF c, o
    <3>3. Ready(h, SetObject(c, o)) /\ SetObject(c, o).self.object = o
      BY <2>2, <3>1, ChangesReady
    <3> QED
      BY <3>1, <3>2, <3>3, LeavesObject DEF Ready
  <2>5. CASE ~HasObject(h)
    <3>1. Commit(h, c)
      BY <2>1, <2>5
    <3> HIDE DEF c
    <3> QED
      BY <2>2, <2>3, <2>5, <3>1, ReturnsLeave DEF HasObject
  <2> QED
    BY <2>4, <2>5
<1>3. CASE ReturnSendProgress(h)
  <2>1. c \in CtxOf(h) /\ c.frames = <<>> /\ c.self = obex[h] /\ HasObject(h) /\ Fresh(h, c)
    BY <1>3, PoppedIs DEF ReturnSendProgress, Labels
  <2>2. Commit(h, SetObject(c, p))
    BY <1>3, <2>1 DEF ReturnSendProgress
  <2>3. p \in Object /\ Level(h, p) /\ (Steady(h) => ~p.abort)
    BY <1>1, <2>1
  <2> HIDE DEF c, p
  <2>4. Ready(h, SetObject(c, p)) /\ SetObject(c, p).self.object = p
    BY <2>1, <2>3, ChangesReady
  <2> QED
    BY <2>2, <2>3, <2>4, LeavesObject DEF Ready
<1>4. CASE ReturnResume(h)
  <2>1. c \in CtxOf(h) /\ c.frames = <<>> /\ c.self = obex[h] /\ HasObject(h) /\ Fresh(h, c)
        /\ Top(h).id = obex[h].object.id
    BY <1>4, PoppedIs DEF ReturnResume, Labels
  <2>2. Top(h).id = IdOf(obex[h].object)
    BY <2>1 DEF IdOf, HasObject
  <2>3. Commit(h, SetState(SetObject(c, p), obex[h].mode, "REC"))
    BY <1>4, <2>2 DEF ReturnResume
  <2>4. p \in Object /\ Level(h, p) /\ (Steady(h) => ~p.abort)
    BY <1>1, <2>1
  <2>5. obex[h].mode \in {"SRV", "CLI"}
    BY CallCtx
  <2> HIDE DEF c, p
  <2>6. Fresh(h, SetObject(c, p)) /\ SetObject(c, p) \in CtxOf(h)
    BY <2>1, <2>4, ChangesReady DEF Fresh, Ready
  <2>7. Fresh(h, SetState(SetObject(c, p), obex[h].mode, "REC"))
    BY <2>5, <2>6, StatesReady
  <2> QED
    BY <2>3, <2>7, LeavesObject DEF Fresh, Ready
<1> QED
  BY <1>2, <1>3, <1>4

\* After OBEX_EV_REQHINT.
LEMMA ReturnHintLeaves ==
  ASSUME IInv, Sound, NEW h \in Handles, ReturnHint(h)
  PROVE  Leaves(h)
<1> DEFINE pkt == Top(h).pkt
           c == Popped(h)
           d == IF pkt.op = "CONNECT" THEN ParseConnect(h, c, pkt) ELSE c
<1>1. /\ c \in CtxOf(h) /\ c.frames = <<>> /\ HasObject(h) /\ Fresh(h, c) /\ Linked(h)
      /\ pkt \in PacketFrom(Peer(h))
  BY PoppedIs DEF ReturnHint, Labels
<1>2. \/ Commit(h, DeliverLast(Respond(h, c, "BAD_REQUEST"), "PARSEERR", "BAD_REQUEST", "done"))
         /\ HasObject(h)
      \/ ServerRec(h, SetState(d, "SRV", "REC"), pkt)
  BY <1>1 DEF ReturnHint
<1>3. CASE Commit(h, DeliverLast(Respond(h, c, "BAD_REQUEST"), "PARSEERR", "BAD_REQUEST", "done"))
  <2> DEFINE e == Respond(h, c, "BAD_REQUEST")
  <2>1. c.self.state = "IDLE"
    BY PoppedIs, <1>1 DEF ReturnHint, Labels
  <2> HIDE DEF c
  <2>2. e \in CtxOf(h) /\ e.frames = <<>> /\ e.self.state = "IDLE"
    BY <1>1, <2>1, RespondKeeps DEF Ops, Rsps
  <2> HIDE DEF e
  <2>3. Commit(h, DeliverLast(e, "PARSEERR", "BAD_REQUEST", "done"))
    BY <1>3 DEF e
  <2> QED
    BY <2>2, <2>3, LeavesNone DEF Events, Ops, Rsps
<1>4. CASE ServerRec(h, SetState(d, "SRV", "REC"), pkt)
  <2>1. Fresh(h, d) /\ d \in CtxOf(h)
    <3> HIDE DEF c, pkt
    <3> QED
      BY <1>1, ParseConnectIs DEF Fresh, Ready, Is
  <2> HIDE DEF c, d, pkt
  <2>2. Fresh(h, SetState(d, "SRV", "REC"))
    BY <2>1, StatesReady
  <2> QED
    BY <1>1, <1>4, <2>2, ServerRecLeaves
<1> QED
  BY <1>2, <1>3, <1>4

\* After OBEX_EV_REQCHECK, OBEX_EV_REQ and OBEX_EV_UNEXPECTED.
LEMMA ReturnDecidedLeaves ==
  ASSUME IInv, Sound, NEW h \in Handles, ReturnCheck(h) \/ ReturnReq(h) \/ ReturnUnexpected(h)
  PROVE  Leaves(h)
<1> DEFINE c == Popped(h)
           pkt == Top(h).pkt
           o == [obex[h].object EXCEPT !.checked = TRUE]
<1>1. c \in CtxOf(h) /\ c.frames = <<>> /\ c.self = obex[h] /\ HasObject(h) /\ Fresh(h, c)
      /\ Linked(h) /\ pkt \in PacketFrom(Peer(h)) /\ pkt.op \in Ops
  BY PoppedIs DEF ReturnCheck, ReturnReq, ReturnUnexpected, Labels, PacketFrom
<1>2. o \in Object /\ Level(h, o) /\ (Steady(h) => ~o.abort)
  BY <1>1 DEF Fresh, Ready, Object, Level
<1>3. \/ ServerDecide(h, SetObject(c, o), pkt)
      \/ ServerSend(h, SetState(c, "SRV", "SEND"), pkt, FALSE)
      \/ ServerReply(h, c, pkt.op)
  BY <1>1 DEF ReturnCheck, ReturnReq, ReturnUnexpected
<1> HIDE DEF c, pkt, o
<1>4. Fresh(h, SetObject(c, o))
  BY <1>1, <1>2, ChangesReady DEF Fresh
<1>5. Fresh(h, SetState(c, "SRV", "SEND"))
  BY <1>1, StatesReady
<1> QED
  BY <1>1, <1>3, <1>4, <1>5, ServerDecideLeaves, ServerSendLeaves, ServerReplyLeaves

\* After every event.
LEMMA ReturnLeaves ==
  ASSUME Proper, IInv, Sound, NEW h \in Handles, Return(h)
  PROVE  Leaves(h)
BY ReturnSimpleLeaves, ReturnNoteLeaves, ReturnHintLeaves, ReturnDecidedLeaves DEF Return

-----------------------------------------------------------------------------
(* The invariant is one.                                                    *)

\* A step of one handle leaves the other as it is, except where it fills the
\* channels of a connection nobody has used.
LEMMA LeavesSound ==
  ASSUME IInv, Sound, NEW h \in Handles, Leaves(h), UNCHANGED link,
         h = Srv /\ Vacant => Vacant'
  PROVE  Sound'
<1>1. PICK c \in CtxOf(h) :
        Guarded(h, c) /\ (Idles(c) \/ link[h] = "closed") /\ Commit(h, c)
  BY DEF Leaves
<1>2. obex \in [Handles -> Self] /\ stack \in [Handles -> Seq(Frame)]
  BY DEF IInv, TypeOK
<1>3. /\ obex'[h] = c.self /\ stack'[h] = c.frames
      /\ \A g \in Handles \ {h} : obex'[g] = obex[g] /\ stack'[g] = stack[g]
      /\ crashed' = {}
  BY <1>1, <1>2 DEF Commit, Sound
<1>4. \A g \in Handles : /\ Ctx(g).self = obex[g] /\ Ctx(g).frames = stack[g]
                         /\ Ctx(g)'.self = obex'[g] /\ Ctx(g)'.frames = stack'[g]
  BY DEF Ctx
<1>5. (Guarded(h, Ctx(h)))' /\ ((Idles(Ctx(h)))' \/ link'[h] = "closed")
  BY <1>1, <1>3, <1>4 DEF Guarded, Idles
<1>6. ASSUME NEW g \in Handles, g # h
      PROVE  (Guards(g))'
  <2>1. Ctx(g)'.self = Ctx(g).self /\ Ctx(g)'.frames = Ctx(g).frames
    BY <1>3, <1>4, <1>6
  <2>2. Guards(g)
    BY DEF Sound
  <2>3. (Guarded(g, Ctx(g)))' /\ (Idles(Ctx(g)) => (Idles(Ctx(g)))')
    BY <2>1, <2>2 DEF Guards, Guarded, Idles
  <2>4. g = Cli /\ Vacant => Vacant'
    BY <1>6 DEF Handles
  <2> QED
    BY <2>2, <2>3, <2>4 DEF Guards
<1> QED
  BY <1>3, <1>5, <1>6 DEF Sound, Guards

\* A server without an object that has received nothing sends nothing.
LEMMA CommitSilent ==
  ASSUME IInv, Vacant, NEW c \in CtxOf(Srv), c.input = chan[Srv], c.out = <<>>,
         c.self.object = NULL, Commit(Srv, c)
  PROVE  Vacant'
<1>1. obex \in [Handles -> Self] /\ chan \in [Handles -> Seq(Packet)] /\ Srv \in Handles
      /\ Cli \in Handles /\ Cli # Srv
  BY HandlesDiffer DEF IInv, TypeOK, Handles
<1>2. chan'[Srv] = <<>> /\ chan'[Cli] = <<>> \o <<>> /\ obex'[Srv] = c.self
  BY <1>1 DEF Commit, Vacant, Quiet
<1> QED
  BY <1>2 DEF Vacant, Quiet

\* No step of such a server does.
LEMMA ServerSilent ==
  ASSUME IInv, Sound, Vacant,
         \/ SetRsp(Srv) \/ AddHeaders(Srv) \/ Suspend(Srv) \/ Resume(Srv) \/ CancelNice(Srv)
         \/ CancelHard(Srv) \/ Return(Srv) \/ HandleInput(Srv) \/ ReadError(Srv)
  PROVE  Vacant'
<1>1. ~HasObject(Srv) /\ obex[Srv].object = NULL /\ Srv \in Handles
  BY DEF HasObject, Vacant, Handles
<1>2. CASE ReadError(Srv)
  <2> DEFINE c == Ctx(Srv)
             d == DeliverLast(c, "LINKERR", "ABORT", "done")
  <2>1. c \in CtxOf(Srv) /\ c.input = chan[Srv] /\ c.out = <<>>
    BY <1>1, CallReady DEF Ctx
  <2> HIDE DEF c
  <2>2. d \in CtxOf(Srv) /\ d.input = chan[Srv] /\ d.out = <<>> /\ d.self.object = NULL
    BY <1>1, <2>1, DeliverLastIs DEF Is, Events, Ops, Labels
  <2>3. Commit(Srv, d)
    BY <1>2 DEF ReadError, c
  <2> HIDE DEF d
  <2> QED
    BY <2>2, <2>3, CommitSilent
<1>3. CASE Return(Srv)
  <2> DEFINE c == Popped(Srv)
             d == SetState(c, "SRV", "IDLE")
             e == Deliver(c, "LINKERR", "ABORT", "done", NoPacket)
  <2>1. PICK at \in Labels : Returning(Srv, at)
    BY <1>3 DEF Return, ReturnDone, ReturnStart, ReturnContinue, ReturnHint,
       ReturnCheck, ReturnReq, ReturnUnexpected, ReturnSendProgress, ReturnResume,
       ReturnResumeDone, ReturnCancel, Labels
  <2>2. c \in CtxOf(Srv) /\ c.self = obex[Srv]
        /\ at \in {"done", "continue", "cancel", "resumedone"}
    BY <1>1, <2>1, PoppedIs
  <2>3. c.input = chan[Srv] /\ c.out = <<>>
    BY DEF Popped, Ctx
  <2>4. at = Top(Srv).at
    BY <2>1 DEF Returning
  <2>5. Commit(Srv, c) \/ Commit(Srv, d) \/ Commit(Srv, e)
    BY <1>1, <1>3, <2>2, <2>4 DEF Return, Returning, ReturnDone, ReturnStart, ReturnContinue,
       ReturnHint, ReturnCheck, ReturnReq, ReturnUnexpected, ReturnSendProgress, ReturnResume,
       ReturnResumeDone, ReturnCancel
  <2> HIDE DEF c
  <2>6. d \in CtxOf(Srv) /\ d.input = chan[Srv] /\ d.out = <<>> /\ d.self.object = NULL
    BY <1>1, <2>2, <2>3, SetStateIs DEF Is
  <2>7. e \in CtxOf(Srv) /\ e.input = chan[Srv] /\ e.out = <<>> /\ e.self.object = NULL
    <3>1. /\ NoPacket \in PacketFrom(Peer(Srv)) /\ "LINKERR" \in Events /\ "ABORT" \in Ops
          /\ "done" \in Labels
      BY <1>1, NoPacketFrom, PeerOfPeer DEF Events, Ops, Labels
    <3> QED
      BY <1>1, <2>2, <2>3, <3>1, DeliverIs DEF Is
  <2> HIDE DEF d, e
  <2> QED
    BY <1>1, <2>2, <2>3, <2>5, <2>6, <2>7, CommitSilent
<1> QED
  BY <1>1, <1>2, <1>3 DEF SetRsp, AddHeaders, Suspend, Resume, CancelNice, CancelHard,
     HandleInput, Vacant, Quiet

\* The handles are idle at first.
LEMMA InitSound == Init => Sound
<1> SUFFICES ASSUME Init
             PROVE  Sound
  OBVIOUS
<1>1. ASSUME NEW h \in Handles
      PROVE  Guards(h)
  <2>1. Ctx(h).frames = <<>> /\ Ctx(h).self.object = NULL /\ Ctx(h).self.state = "IDLE"
    BY DEF Init, Ctx, NewHandle
  <2> QED
    BY <2>1 DEF Guards, Guarded, Idles
<1> QED
  BY <1>1 DEF Init, Sound

\* OBEX_TransportDisconnect closes one side.
LEMMA DisconnectSound ==
  ASSUME IInv, Sound, NEW h \in Handles, Disconnect(h)
  PROVE  Sound'
<1>1. /\ link'[h] = "closed" /\ crashed' = {} /\ UNCHANGED <<obex, stack>>
      /\ \A g \in Handles : link[g] = "closed" => link'[g] = "closed"
      /\ Vacant => Vacant'
  <2>1. chan \in [Handles -> Seq(Packet)]
    BY DEF IInv, TypeOK
  <2> QED
    BY <2>1 DEF Disconnect, Sound, Vacant, Quiet, Handles
<1>2. ASSUME NEW g \in Handles
      PROVE  (Guards(g))'
  <2>1. Ctx(g)'.self = Ctx(g).self /\ Ctx(g)'.frames = Ctx(g).frames
    BY <1>1 DEF Ctx
  <2>2. Guards(g)
    BY DEF Sound
  <2>3. (Guarded(g, Ctx(g)))' /\ (Idles(Ctx(g)) => (Idles(Ctx(g)))')
    BY <2>1, <2>2 DEF Guards, Guarded, Idles
  <2> QED
    BY <1>1, <2>2, <2>3 DEF Guards
<1> QED
  BY <1>1, <1>2 DEF Sound

\* The connection breaks.
LEMMA LinkBreaksSound ==
  ASSUME IInv, Sound, LinkBreaks
  PROVE  Sound'
<1>1. /\ crashed' = {} /\ UNCHANGED <<obex, stack>> /\ \A g \in Handles : link[g] = "up"
      /\ Vacant => Vacant'
  BY DEF LinkBreaks, Sound, Vacant, Quiet, Handles
<1>2. ASSUME NEW g \in Handles
      PROVE  (Guards(g))'
  <2>1. Ctx(g)'.self = Ctx(g).self /\ Ctx(g)'.frames = Ctx(g).frames
    BY <1>1 DEF Ctx
  <2>2. Guards(g) /\ link[g] # "closed"
    BY <1>1 DEF Sound
  <2>3. (Guarded(g, Ctx(g)))' /\ (Idles(Ctx(g)) => (Idles(Ctx(g)))')
    BY <2>1, <2>2 DEF Guards, Guarded, Idles
  <2> QED
    BY <1>1, <2>2, <2>3 DEF Guards
<1> QED
  BY <1>1, <1>2 DEF Sound

\* Both connect again: a client that uses its handle again is one nobody has
\* sent to, a server starts afresh.
LEMMA ReconnectSound ==
  ASSUME Proper, IInv, Sound, Reconnect
  PROVE  Sound'
<1>1. /\ crashed' = {} /\ \A g \in Handles : stack'[g] = <<>>
      /\ \A g \in Handles : obex'[g] = obex[g] \/ obex'[g] = NewHandle
      /\ obex'[Srv] = NewHandle /\ Vacant'
  BY DEF Reconnect, Sound, InCallback, Proper, Vacant, Quiet, NewHandle, Handles
<1>2. ASSUME NEW g \in Handles
      PROVE  (Guards(g))'
  <2>1. Ctx(g)'.self = obex'[g] /\ Ctx(g)'.frames = <<>> /\ Ctx(g).self = obex[g]
        /\ Ctx(g).frames = <<>>
    BY <1>1 DEF Ctx, Reconnect, InCallback
  <2>2. Guarded(g, Ctx(g))
    BY DEF Sound, Guards
  <2>3. (Guarded(g, Ctx(g)))'
    BY <1>1, <2>1, <2>2 DEF Guarded, NewHandle
  <2>4. CASE g = Cli
    BY <1>1, <2>3, <2>4 DEF Guards, NewHandle
  <2>5. CASE g = Srv
    BY <1>1, <2>1, <2>3, <2>5 DEF Guards, Idles, NewHandle
  <2> QED
    BY <2>4, <2>5 DEF Handles
<1> QED
  BY <1>1, <1>2 DEF Sound

\* What a step of a handle leaves.
LEMMA StepLeaves ==
  ASSUME Proper, IInv, Sound, NEW h \in Handles,
         \/ Request(h) \/ SetRsp(h) \/ AddHeaders(h) \/ Suspend(h) \/ Resume(h)
         \/ CancelNice(h) \/ CancelHard(h)
         \/ Return(h) \/ HandleInput(h) \/ ReadError(h)
  PROVE  Leaves(h) /\ UNCHANGED link
<1>1. UNCHANGED link
  BY DEF Request, SetRsp, AddHeaders, Suspend, Resume, CancelNice, CancelHard, HandleInput,
     ReadError, Return, Returning, ReturnDone, ReturnStart, ReturnContinue, ReturnHint,
     ReturnCheck, ReturnReq, ReturnUnexpected, ReturnSendProgress, ReturnResume,
     ReturnResumeDone, ReturnCancel
<1> QED
  BY <1>1, RequestLeaves, SetRspLeaves, AddHeadersLeaves, SuspendLeaves, ResumeLeaves,
     CancelNiceLeaves, CancelHardLeaves, ReturnLeaves, HandleInputLeaves, ReadErrorLeaves

\* Every step keeps the invariant.
LEMMA NextSound ==
  ASSUME Proper, IInv, Sound, [Next]_vars
  PROVE  Sound'
<1>1. ASSUME NEW h \in Handles,
             \/ Request(h) \/ SetRsp(h) \/ AddHeaders(h) \/ Suspend(h) \/ Resume(h)
             \/ CancelNice(h) \/ CancelHard(h)
             \/ Return(h) \/ HandleInput(h) \/ ReadError(h)
      PROVE  Sound'
  <2>1. Leaves(h) /\ UNCHANGED link
    BY <1>1, StepLeaves
  <2>2. h = Srv /\ Vacant => Vacant'
    <3>1. ~Request(Srv)
      BY HandlesDiffer DEF Request
    <3> QED
      BY <1>1, <3>1, ServerSilent
  <2> QED
    BY <2>1, <2>2, LeavesSound
<1>2. ASSUME NEW h \in Handles, Disconnect(h)
      PROVE  Sound'
  BY <1>2, DisconnectSound
<1>3. CASE LinkBreaks
  BY <1>3, LinkBreaksSound
<1>4. CASE Reconnect
  BY <1>4, ReconnectSound
<1>5. CASE UNCHANGED vars
  <2>1. \A g \in Handles : (Guards(g))'
    BY <1>5 DEF Sound, vars, Guards, Guarded, Idles, Ctx, Vacant, Quiet
  <2> QED
    BY <1>5, <2>1 DEF Sound, vars
<1> QED
  BY <1>1, <1>2, <1>3, <1>4, <1>5 DEF Next

\* obex_client and obex_server never dereference a missing object: however the
\* applications suspend, resume and cancel, however writes, allocations and the
\* link fail and whenever the handles are connected again, for every queue of
\* headers and every number of requests.
THEOREM NothingMissing == Proper => (Spec => []NoCrash)
<1> SUFFICES ASSUME Proper
             PROVE  Spec => []NoCrash
  OBVIOUS
<1>1. IInv /\ Sound /\ [Next]_vars => Sound'
  BY NextSound
<1>2. Sound => NoCrash
  BY DEF Sound, NoCrash
<1> QED
  BY <1>1, <1>2, InitSound, Invariance, PTL DEF Spec

-----------------------------------------------------------------------------
(* An aborted request stops.                                                *)

\* CONTINUE for an aborted request, and the answer that ends it.
LEMMA AbortedRec ==
  ASSUME NEW c, Ready(Cli, c), Cli \in Handles, Linked(Cli), c.self.object.abort,
         obex \in [Handles -> Self], NEW pkt \in PacketFrom(Srv), ClientRec(Cli, c, pkt)
  PROVE  \/ obex'[Cli].object = NULL
         \/ obex'[Cli].object.n = c.self.object.n
<1> DEFINE o  == c.self.object
           c1 == IF o.opcode = "CONNECT" THEN ParseConnect(Cli, c, pkt)
                 ELSE IF o.opcode = "DISCONNECT" THEN SetMtu(c, MinimumMtu) ELSE c
           Gone == \E d \in CtxOf(Cli), ev \in Events, rsp \in Ops :
                     Commit(Cli, DeliverLast(d, ev, rsp, "done"))
<1>1. pkt.op \in Ops /\ Peer(Cli) = Srv
  BY DEF PacketFrom, Peer
<1>2. Ready(Cli, c1) /\ c1.self.object = o
  BY <1>1, ParseConnectIs, MinimumIs DEF Ready, Is
<1>3. ASSUME Gone
      PROVE  obex'[Cli].object = NULL
  <2>1. PICK d \in CtxOf(Cli), ev \in Events, rsp \in Ops :
          Commit(Cli, DeliverLast(d, ev, rsp, "done"))
    BY <1>3
  <2>2. DeliverLast(d, ev, rsp, "done").self.object = NULL
    BY DeliverLastIs DEF Is, Labels
  <2> QED
    BY <2>1, <2>2 DEF Commit
<1>4. ASSUME NEW d, Ready(Cli, d), ClientParseError(Cli, d)
      PROVE  Gone
  <2>1. SetState(d, "SRV", "IDLE") \in CtxOf(Cli)
    BY <1>4, StatesReady DEF Ready
  <2> QED
    BY <1>4, <2>1 DEF ClientParseError, Events, Ops, Rsps
<1> HIDE DEF c1, o, Gone
<1>5. ASSUME NEW r \in ObjectReceive(c1, pkt),
             \/ ClientParseError(Cli, r.ctx) \/ ClientContinue(Cli, r.ctx)
             \/ ClientDone(Cli, r.ctx, pkt.op)
      PROVE  obex'[Cli].object = NULL \/ obex'[Cli].object.n = o.n
  <2>1. Ready(Cli, r.ctx) /\ r.ctx.self.object.n = o.n /\ r.ctx.self.object.abort
    <3>1. Kept(Cli, c1, r.ctx) /\ r.ctx.self.object.n = o.n
      BY <1>1, <1>2, <1>5, ObjectReceiveKeeps DEF Ready
    <3> QED
      BY <1>2, <3>1, KeptReady DEF Kept, Follows, o
  <2>2. CASE ClientParseError(Cli, r.ctx)
    BY <1>3, <1>4, <2>1, <2>2
  <2>3. CASE ClientContinue(Cli, r.ctx)
    <3> DEFINE p == SetContinue(r.ctx.self.object)
               d == SetObject(r.ctx, p)
    <3>1. p \in Object /\ p.n = o.n /\ p.abort
      BY <2>1 DEF SetContinue, Ready, Object
    <3>2. Commit(Cli, d)
      BY <2>3, <3>1 DEF ClientContinue, HeldBack
    <3>3. d.self.object = p
      <4> HIDE DEF p
      <4> QED
        BY <2>1, <3>1, SetObjectIs DEF Is, Ready
    <3> HIDE DEF d, p
    <3> QED
      BY <3>1, <3>2, <3>3 DEF Commit
  <2>4. CASE ClientDone(Cli, r.ctx, pkt.op)
    <3>1. SetState(r.ctx, "SRV", "IDLE") \in CtxOf(Cli)
      BY <2>1, StatesReady DEF Ready
    <3>2. Gone
      BY <1>1, <2>4, <3>1 DEF ClientDone, Gone, Events
    <3> QED
      BY <1>3, <3>2
  <2> QED
    BY <1>5, <2>2, <2>3, <2>4
<1> QED
  BY <1>2, <1>3, <1>4, <1>5 DEF ClientRec, c1, o, Ready

\* No step sends more of an aborted request.
Stops ==
  LET o == obex[Cli].object
  IN  (o # NULL /\ o.abort) => obex'[Cli].object = NULL \/ obex'[Cli].object.n = o.n

\* Nobody but its own CONTINUE could make an aborted request go on.
LEMMA StepStops ==
  ASSUME Proper, Steady(Cli), IInv, Sound, [Next]_vars
  PROVE  Stops
<1> DEFINE o == obex[Cli].object
<1> SUFFICES ASSUME o # NULL, o.abort
             PROVE  obex'[Cli].object = NULL \/ obex'[Cli].object.n = o.n
  BY DEF Stops
<1>1. /\ Cli \in Handles /\ Srv \in Handles /\ Cli # Srv /\ Peer(Cli) = Srv
      /\ obex \in [Handles -> Self]
  BY HandlesDiffer DEF Handles, Peer, IInv, TypeOK
<1>2. /\ o \in Object /\ HasObject(Cli) /\ ~InCallback(Cli) /\ ~o.suspend
      /\ obex[Cli].mode = "CLI" /\ obex[Cli].state = "REC" /\ Linked(Cli)
      /\ Ready(Cli, Ctx(Cli)) /\ Ctx(Cli).self = obex[Cli]
  <2>1. Guarded(Cli, Ctx(Cli)) /\ Ctx(Cli).frames = stack[Cli] /\ Ctx(Cli).self = obex[Cli]
    BY <1>1, CallReady
  <2>2. HasObject(Cli) /\ stack[Cli] = <<>> /\ ~o.suspend
        /\ obex[Cli].mode = "CLI" /\ obex[Cli].state = "REC"
    BY <2>1 DEF Guarded, HasObject, Level
  <2> QED
    BY <1>1, <2>1, <2>2, CallReady DEF InCallback
<1>3. CASE UNCHANGED vars
  BY <1>3 DEF vars
<1>4. ASSUME NEW h \in Handles,
             \/ Request(h) \/ SetRsp(h) \/ AddHeaders(h) \/ Suspend(h) \/ Resume(h)
             \/ CancelNice(h) \/ CancelHard(h)
             \/ Return(h) \/ HandleInput(h) \/ ReadError(h)
      PROVE  obex'[Cli].object = NULL \/ obex'[Cli].object.n = o.n
  <2>1. CASE h = Srv
    <3>1. Leaves(h)
      BY <1>4, StepLeaves
    <3> QED
      BY <1>1, <2>1, <3>1 DEF Leaves, Commit
  <2>2. CASE h = Cli
    <3>1. ~Request(Cli) /\ ~SetRsp(Cli) /\ ~AddHeaders(Cli) /\ ~Suspend(Cli) /\ ~Resume(Cli)
      BY <1>2 DEF Request, Busy, SetRsp, AddHeaders, Suspend, Resume, Steady
    <3>2. ~Return(Cli)
      BY <1>2 DEF Return, Returning, ReturnDone, ReturnStart, ReturnContinue, ReturnHint,
         ReturnCheck, ReturnReq, ReturnUnexpected, ReturnSendProgress, ReturnResume,
         ReturnResumeDone, ReturnCancel
    <3>3. CASE CancelNice(Cli)
      <4> DEFINE pkt == [op |-> "ABORT", final |-> TRUE, id |-> o.id, n |-> 0, mtu |-> 0]
                 p == [o EXCEPT !.abort = TRUE]
      <4>1. PICK w \in Writes(Cli, Fault(Ctx(Cli)), pkt) :
              Commit(Cli, SetState(SetObject(w.ctx, p), "CLI", "REC"))
        BY <3>3 DEF CancelNice
      <4>2. p \in Object /\ p.n = o.n /\ pkt \in PacketFrom(Cli)
        BY <1>2 DEF Object, PacketFrom, Ops
      <4>3. Fault(Ctx(Cli)) \in CtxOf(Cli)
        BY <1>1, <3>3, CallCtx, FaultCtx DEF MayFault, CancelNice
      <4> HIDE DEF pkt, p
      <4>4. w.ctx \in CtxOf(Cli)
        BY <1>1, <1>2, <4>1, <4>2, <4>3, WritesKeep
      <4>5. /\ SetObject(w.ctx, p) \in CtxOf(Cli)
            /\ SetObject(w.ctx, p).self.object = p
        BY <1>1, <4>2, <4>4, SetObjectIs DEF Is
      <4>6. SetState(SetObject(w.ctx, p), "CLI", "REC").self.object = p
        BY <1>1, <4>5, StatesReady
      <4> QED
        BY <1>1, <4>1, <4>2, <4>6 DEF Commit
    <3>4. ASSUME NEW c \in CtxOf(Cli), NEW ev \in Events, NEW rsp \in Ops, NEW at \in Labels,
                 Commit(Cli, DeliverLast(c, ev, rsp, at))
          PROVE  obex'[Cli].object = NULL
      <4>1. DeliverLast(c, ev, rsp, at).self.object = NULL
        BY <1>1, DeliverLastIs DEF Is
      <4> QED
        BY <1>1, <3>4, <4>1 DEF Commit
    <3>5. CASE CancelHard(Cli)
      <4>1. Fault(Ctx(Cli)) \in CtxOf(Cli)
        BY <1>1, <3>5, CallCtx, FaultCtx DEF MayFault, CancelHard
      <4> QED
        BY <3>4, <3>5, <4>1 DEF CancelHard, Events, Ops, Labels
    <3>6. CASE ReadError(Cli)
      BY <1>2, <3>4, <3>6 DEF ReadError, Ready, Events, Ops, Labels
    <3>7. CASE HandleInput(Cli)
      <4> DEFINE c == [Ctx(Cli) EXCEPT !.input = Tail(@)]
                 pkt == Head(chan[Cli])
      <4>1. chan[Cli] \in Seq(PacketFrom(Srv)) /\ chan[Cli] # <<>>
        BY <1>1, <1>2, <3>7, CtxFields DEF HandleInput, Ready
      <4>2. pkt \in PacketFrom(Srv) /\ Tail(chan[Cli]) \in Seq(PacketFrom(Srv))
        BY <4>1, HeadTailProperties
      <4>3. c \in CtxOf(Cli) /\ c.self = obex[Cli] /\ c.frames = Ctx(Cli).frames
        BY <1>1, <1>2, <4>2 DEF Ctx, CtxOf, Ready
      <4>4. Ready(Cli, c)
        BY <1>2, <4>3 DEF Ready
      <4>5. ClientRec(Cli, c, pkt)
        <5>1. Client(Cli, c, pkt)
          BY <1>2, <3>7, <4>3 DEF HandleInput
        <5> HIDE DEF c, pkt
        <5> QED
          BY <1>2, <4>3, <5>1 DEF Client
      <4> HIDE DEF c, pkt
      <4> QED
        BY <1>1, <1>2, <4>2, <4>3, <4>4, <4>5, AbortedRec
    <3> QED
      BY <1>4, <2>2, <3>1, <3>2, <3>3, <3>5, <3>6, <3>7
  <2> QED
    BY <2>1, <2>2 DEF Handles
<1>5. ASSUME NEW h \in Handles, Disconnect(h)
      PROVE  obex'[Cli].object = NULL \/ obex'[Cli].object.n = o.n
  BY <1>5 DEF Disconnect
<1>6. CASE LinkBreaks
  BY <1>6 DEF LinkBreaks
<1>7. CASE Reconnect
  BY <1>1, <1>7 DEF Reconnect, NewHandle
<1> QED
  BY <1>3, <1>4, <1>5, <1>6, <1>7 DEF Next

\* Once OBEX_CancelRequest has sent ABORT, obex_client sends nothing more of the
\* request: a CONTINUE that was on its way is not answered, whatever fails and
\* whatever the server does.  This is for a client that does not suspend:
\* obex_object_resume sends without looking at abort.
THEOREM AbortStops == Proper /\ Steady(Cli) => (Spec => AbortStopsData)
<1> SUFFICES ASSUME Proper, Steady(Cli)
             PROVE  Spec => AbortStopsData
  OBVIOUS
<1>1. IInv /\ Sound /\ [Next]_vars => Sound'
  BY NextSound
<1>2. IInv /\ Sound /\ [Next]_vars =>
        [LET o == obex[Cli].object
         IN  (o # NULL /\ o.abort) =>
               \/ obex'[Cli].object = NULL
               \/ obex'[Cli].object.n = o.n]_vars
  BY StepStops DEF Stops
<1> QED
  BY <1>1, <1>2, InitSound, Invariance, PTL DEF Spec, AbortStopsData
=============================================================================
