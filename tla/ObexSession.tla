---------------------------- MODULE ObexSession ----------------------------
(***************************************************************************)
(* The request/response engine of the OpenOBEX library: two handles        *)
(* (obex_t) joined by a transport, each running obex_client (lib/          *)
(* obex_client.c), obex_server (lib/obex_server.c), the object calls that  *)
(* send, receive, suspend and resume (lib/obex_object.c) and the calls     *)
(* that start and cancel a request (lib/obex.c, lib/obex_main.c).          *)
(*                                                                         *)
(* The library is single threaded and calls the application back from the  *)
(* middle of its handlers.  A handler therefore runs as a chain of atomic  *)
(* steps cut where it calls obex_deliver_event: the step that delivers the *)
(* event pushes a frame on the handle's stack, the application may then    *)
(* call the library again, and Return pops the frame and runs what follows *)
(* the call in the source.  Packets arrive only while the stack is empty.  *)
(*                                                                         *)
(* What a packet carries is abstracted to the number of the fragment: one  *)
(* entry of the header queue fills one packet, a stream fills as many as   *)
(* the application feeds it.  How headers share a packet is not modelled   *)
(* here.                                                                   *)
(*                                                                         *)
(* An operator marked "Variant" is not part of the model: it is a way the  *)
(* definition after it could have been wrong, against which the properties *)
(* are tried.                                                              *)
(***************************************************************************)
EXTENDS Integers, Sequences, FiniteSets

CONSTANTS
  Cli, Srv,         \* the two handles; Cli's application issues the requests
  NULL,             \* no object (a NULL pointer)
  Commands,         \* the commands the application of Cli may request
  RequestQueues,    \* the header queues it may give a request
  ResponseQueues,   \* the header queues a response may be given in OBEX_EV_REQ
  Answers,          \* the response codes the application gives; without
                    \* OBEX_ObjectSetRsp it gives NOT_IMPLEMENTED
  Suspenders,       \* the handles whose application suspends transfers
  NiceCancellers,   \* ... calls OBEX_CancelRequest(self, TRUE)
  HardCancellers,   \* ... calls OBEX_CancelRequest(self, FALSE)
  CancelsLate,      \* also when the last response may be on its way
  SuspendsFirst,    \* an object may be suspended before it is requested
  SuspendsLate,     \* ... and when it has nothing more to send
  AddsLate,         \* Cli's application adds a header while it gets the response
  CallsBack,        \* which of resume, cancel and request come in callbacks too
  StreamFails,      \* STREAMEMPTY may be answered with no data at all
  AllocFails,       \* malloc may fail
  LinkFails,        \* the transport may break
  Reconnects,       \* ... and be connected again
  ReusedHandles,    \* with these handles and otherwise new ones
  ClosesOn,         \* the events answered by OBEX_TransportDisconnect
  MaxRequests,      \* bound on the requests issued
  MaxItems,         \* bound on the fragments a stream fills
  MaxDepth,         \* bound on nested callbacks
  MaxFaults,        \* bound on suspends, cancels and failures together
  MtuRx,            \* [Handles -> Nat] the mtu_rx each handle was created with
  MtuTxMax,         \* [Handles -> Nat] mtu_tx_max
  MinimumMtu        \* OBEX_MINIMUM_MTU

Handles == {Cli, Srv}
Kinds   == {"header", "suspend", "stream"}
Cmds    == {"CONNECT", "DISCONNECT", "PUT", "GET", "SETPATH"}
Rsps    == {"CONTINUE", "SUCCESS", "FORBIDDEN", "NOT_IMPLEMENTED",
            "BAD_REQUEST", "INTERNAL_SERVER_ERROR"}
Ops     == Cmds \cup {"ABORT"} \cup Rsps

ASSUME HandlesDiffer == Cli # Srv
ASSUME CommandsAssumption == Commands \subseteq Cmds
ASSUME QueuesAssumption ==
  RequestQueues \subseteq Seq(Kinds) /\ ResponseQueues \subseteq Seq(Kinds)
ASSUME AnswersAssumption == Answers \subseteq Rsps
ASSUME FlagsAssumption ==
  /\ Suspenders \subseteq Handles
  /\ NiceCancellers \subseteq Handles
  /\ HardCancellers \subseteq Handles
  /\ ReusedHandles \subseteq Handles
  /\ {CancelsLate, SuspendsFirst, SuspendsLate, AddsLate, StreamFails,
      AllocFails, LinkFails, Reconnects} \subseteq BOOLEAN
  /\ CallsBack \subseteq {"request", "resume", "cancel"}
  /\ ClosesOn \subseteq {"LINKERR", "PARSEERR"}
ASSUME BoundsAssumption ==
  {MaxRequests, MaxItems, MaxDepth, MaxFaults} \subseteq Nat
ASSUME MtuAssumption ==
  /\ MinimumMtu \in Nat \ {0}
  /\ MtuRx \in [Handles -> Nat]
  /\ MtuTxMax \in [Handles -> Nat]
  /\ \A h \in Handles : MtuRx[h] >= MinimumMtu /\ MtuTxMax[h] >= MinimumMtu

Peer(h) == IF h = Cli THEN Srv ELSE Cli

VARIABLES
  obex,      \* [Handles -> Self] the state of each handle
  stack,     \* [Handles -> Seq(Frame)] the callbacks being delivered
  chan,      \* [Handles -> Seq(Packet)] packets on their way to the handle
  link,      \* [Handles -> {"up", "lost", "closed"}] the handle's descriptor
  crashed,   \* the handles that dereferenced a missing object
  nextId,    \* the number of the next request
  faults,    \* suspends, cancels and failures so far
  seen       \* history: the events each application was given

vars == <<obex, stack, chan, link, crashed, nextId, faults, seen>>

Ids   == 0..MaxRequests
Items == 0..MaxItems

\* A packet: opcode, final bit, the request it belongs to and the fragment it
\* carries (history; 0: none), and the receive MTU of a connect frame or 0.
Packet == [op : Ops, final : BOOLEAN, id : Ids, n : Nat, mtu : Nat]

\* The fields of struct obex_object the engine reads; tx is tx_headerq, nonhdr
\* tx_nonhdr_data, rx the received headers, cont and sent continue_received
\* and first_packet_sent.  id and n (fragments sent) are history.
Object == [id : Ids, cmd : Ops, opcode : Ops, lastopcode : Ops,
           tx : Seq(Kinds), nonhdr : BOOLEAN, n : Nat,
           rx : Seq(Ids \X Nat), abort : BOOLEAN, checked : BOOLEAN,
           suspend : BOOLEAN, cont : BOOLEAN, sent : BOOLEAN]

Self == [mode : {"SRV", "CLI"}, state : {"IDLE", "START", "SEND", "REC"},
         object : Object \cup {NULL}, mtu_tx : Nat]

ASSUME NullAssumption == NULL \notin Object

Events == {"PROGRESS", "REQHINT", "REQCHECK", "REQ", "REQDONE", "LINKERR",
           "PARSEERR", "ABORT", "UNEXPECTED"}

\* Where a handler continues when the callback returns ("done": nowhere).
Labels == {"done", "start", "continue", "hint", "check", "req", "unexpected",
           "sendprogress", "resume", "resumedone", "cancel"}

Frame == [ev : Events, at : Labels, pkt : Packet, id : Ids]

\* What the history keeps of an event: the request, the code reported, the
\* fragments the object had sent and those it had received.
Ends == {"REQDONE", "LINKERR", "PARSEERR", "ABORT"}
Seen == [ev : Ends \cup {"REQ"}, id : Ids, rsp : Ops, n : Nat,
         rx : Seq(Ids \X Nat)]

NoPacket == [op |-> "ABORT", final |-> TRUE, id |-> 0, n |-> 0, mtu |-> 0]

\* OBEX_Init: a handle listens, and sends the smallest packets until it knows
\* better.
NewHandle == [mode |-> "SRV", state |-> "IDLE", object |-> NULL,
              mtu_tx |-> MinimumMtu]

-----------------------------------------------------------------------------
(* A library call works on the state of its handle and on what it hands to  *)
(* the outside: the context below.  Commit makes it the next state.         *)

Ctx(h) == [self |-> obex[h], frames |-> stack[h], input |-> chan[h],
           out |-> <<>>, seen |-> {}, faults |-> faults]

Commit(h, c) ==
  /\ obex'   = [obex EXCEPT ![h] = c.self]
  /\ stack'  = [stack EXCEPT ![h] = c.frames]
  /\ chan'   = [g \in Handles |-> IF g = h THEN c.input ELSE chan[g] \o c.out]
  /\ seen'   = [seen EXCEPT ![h] = @ \cup c.seen]
  /\ faults' = c.faults
  /\ UNCHANGED crashed

\* The handler dereferences self->object, or an object it kept a pointer to,
\* and there is none.
Crash(h) ==
  /\ crashed' = crashed \cup {h}
  /\ UNCHANGED <<obex, stack, chan, seen, faults>>

SetObject(c, o) == [c EXCEPT !.self = [@ EXCEPT !.object = o]]
SetState(c, mode, state) ==
  [c EXCEPT !.self = [@ EXCEPT !.mode = mode, !.state = state]]
SetMtu(c, mtu) == [c EXCEPT !.self = [@ EXCEPT !.mtu_tx = mtu]]
Fault(c) == [c EXCEPT !.faults = @ + 1]

IdOf(o) == IF o = NULL THEN 0 ELSE o.id

\* Variant: the command is not initialised.
ObjectWithoutCmd(id, cmd) ==
  [id |-> id, cmd |-> NULL, opcode |-> "NOT_IMPLEMENTED",
   lastopcode |-> "NOT_IMPLEMENTED", tx |-> <<>>, nonhdr |-> FALSE, n |-> 0,
   rx |-> <<>>, abort |-> FALSE, checked |-> FALSE, suspend |-> FALSE,
   cont |-> FALSE, sent |-> FALSE]

\* obex_object_new: every field 0, the response NOT_IMPLEMENTED.
NewObject(id, cmd) ==
  [id |-> id, cmd |-> cmd, opcode |-> "NOT_IMPLEMENTED",
   lastopcode |-> "NOT_IMPLEMENTED", tx |-> <<>>, nonhdr |-> FALSE, n |-> 0,
   rx |-> <<>>, abort |-> FALSE, checked |-> FALSE, suspend |-> FALSE,
   cont |-> FALSE, sent |-> FALSE]

\* obex_deliver_event with del FALSE: call the application, then go on at "at".
Deliver(c, ev, rsp, at, pkt) ==
  LET o == c.self.object
  IN  [c EXCEPT
        !.frames = Append(@, [ev |-> ev, at |-> at, pkt |-> pkt, id |-> IdOf(o)]),
        !.seen   = IF o = NULL \/ ev \notin Ends \cup {"REQ"} THEN @
                   ELSE @ \cup {[ev |-> ev, id |-> o.id, rsp |-> rsp, n |-> o.n,
                                 rx |-> o.rx]}]

\* Variant: the object is not let go.
DeliverKeeping(c, ev, rsp, at) == Deliver(c, ev, rsp, at, NoPacket)

\* ... with del TRUE: self->object is NULL while the application runs, and the
\* object is freed when it returns.
DeliverLast(c, ev, rsp, at) == SetObject(Deliver(c, ev, rsp, at, NoPacket), NULL)

\* obex_data_request: a packet reaches the peer only over a link that is up.
\* A write on a lost link fails or is lost, one on a closed descriptor fails.
Writes(h, c, pkt) ==
  CASE link[h] = "up"     -> {[ok |-> TRUE, ctx |-> [c EXCEPT !.out = Append(@, pkt)]]}
    [] link[h] = "lost"   -> {[ok |-> TRUE, ctx |-> c], [ok |-> FALSE, ctx |-> c]}
    [] link[h] = "closed" -> {[ok |-> FALSE, ctx |-> c]}

\* obex_response_request: the result of the write is ignored.
Respond(h, c, rsp) ==
  LET pkt == [op |-> rsp, final |-> TRUE, id |-> IdOf(c.self.object), n |-> 0,
              mtu |-> 0]
  IN  IF link[h] = "up" THEN [c EXCEPT !.out = Append(@, pkt)] ELSE c

-----------------------------------------------------------------------------
(* obex_object_send                                                         *)

\* What the loop over tx_headerq puts in the packet: the object after it, the
\* fragment number (0: nothing) and the faults it took.  A stream asks the
\* application (OBEX_EV_STREAMEMPTY) which gives data, gives the last data,
\* suspends without data, or gives nothing ("Unexpected end-of-stream").
Fills(h, o) ==
  LET Take(tx, suspend) ==
        [ok |-> TRUE, cost |-> 0, n |-> o.n + 1,
         obj |-> [o EXCEPT !.tx = tx, !.n = @ + 1, !.suspend = suspend]]
      stream == o.tx # <<>> /\ Head(o.tx) = "stream"
  IN  (IF o.tx = <<>>
       THEN {[ok |-> TRUE, cost |-> 0, n |-> 0, obj |-> o]}
       ELSE {Take(Tail(o.tx), Head(o.tx) = "suspend")})
      \cup (IF stream /\ o.n < MaxItems THEN {Take(o.tx, FALSE)} ELSE {})
      \cup (IF stream /\ h \in Suspenders
            THEN {[ok |-> TRUE, cost |-> 1, n |-> 0,
                   obj |-> [o EXCEPT !.suspend = TRUE]]}
            ELSE {})
      \cup (IF stream /\ StreamFails
            THEN {[ok |-> FALSE, cost |-> 1, n |-> 0, obj |-> o]}
            ELSE {})

\* Variant: allowfinalcmd is ignored.
FinishedEarly(o, allowfinalcmd) == o.tx = <<>>

Finished(o, allowfinalcmd) == o.tx = <<>> /\ allowfinalcmd

\* The packet, once its headers are in.
Packed(h, f, op, forcefinalbit) ==
  [op |-> op, final |-> forcefinalbit \/ f.obj.tx = <<>>, id |-> f.obj.id,
   n |-> f.n, mtu |-> IF f.obj.nonhdr THEN MtuRx[h] ELSE 0]

\* The results of obex_object_send on self->object: -1 error, 0 more to send,
\* 1 finished.
ObjectSend(h, c, allowfinalcmd, forcefinalbit) ==
  LET o == c.self.object
      Sent(f) ==
        LET finished == Finished(f.obj, allowfinalcmd)
            pkt == Packed(h, f, IF finished THEN o.lastopcode ELSE o.opcode,
                          forcefinalbit)
            left == [SetObject(c, [f.obj EXCEPT !.nonhdr = FALSE])
                       EXCEPT !.faults = @ + f.cost]
        IN  IF f.ok
            THEN {[ret |-> IF ~w.ok THEN -1 ELSE IF finished THEN 1 ELSE 0,
                   ctx |-> w.ctx] : w \in Writes(h, left, pkt)}
            ELSE {[ret |-> -1, ctx |-> left]}
  IN  IF o.suspend THEN {[ret |-> 0, ctx |-> c]}
      ELSE UNION {Sent(f) : f \in {g \in Fills(h, o) : c.faults + g.cost <= MaxFaults}}

\* Variant: a CONTINUE is not remembered.
ForgetContinue(o) == o

\* continue_received: it is our turn.
SetContinue(o) == [o EXCEPT !.cont = TRUE]

\* obex_object_receive: append the headers to the object's queues; -1 when there
\* are some and the memory for them is missing.
ObjectReceive(c, pkt) ==
  LET o == c.self.object
      rx == IF pkt.n = 0 THEN o.rx ELSE Append(o.rx, <<pkt.id, pkt.n>>)
  IN  {[ok |-> TRUE, ctx |-> SetObject(c, [o EXCEPT !.rx = rx])]}
      \cup (IF AllocFails /\ c.faults < MaxFaults /\ pkt.n # 0
            THEN {[ok |-> FALSE, ctx |-> Fault(c)]} ELSE {})

\* Variant: the peer's receive MTU is ignored.
ParseConnectOwn(h, c, pkt) ==
  IF pkt.op \notin {"CONNECT", "SUCCESS"} THEN c ELSE SetMtu(c, MtuTxMax[h])

\* obex_parse_connect_header looks for a connect frame in a CONNECT request
\* and in a SUCCESS response only, and takes the smaller MTU.
MalformedConnect(pkt) == pkt.op \in {"CONNECT", "SUCCESS"} /\ pkt.mtu = 0

ParseConnect(h, c, pkt) ==
  IF pkt.op \notin {"CONNECT", "SUCCESS"} THEN c
  ELSE SetMtu(c, IF pkt.mtu < MtuTxMax[h] THEN pkt.mtu ELSE MtuTxMax[h])

-----------------------------------------------------------------------------
(* obex_client                                                              *)

\* STATE_START, on behalf of OBEX_Request.
ClientStart(h, c) ==
  \E r \in ObjectSend(h, c, TRUE, FALSE) :
    LET o == r.ctx.self.object IN
    \/ /\ r.ret < 0
       /\ Commit(h, DeliverLast(SetState(r.ctx, "CLI", "IDLE"), "LINKERR", o.opcode, "done"))
    \/ /\ r.ret >= 0
       /\ Commit(h, Deliver(SetObject(r.ctx, [o EXCEPT !.sent = TRUE]),
                            "PROGRESS", o.opcode, "start", NoPacket))

\* PARSEERR: back to listening, the request is gone.
ClientParseError(h, c) ==
  Commit(h, DeliverLast(SetState(c, "SRV", "IDLE"), "PARSEERR", "BAD_REQUEST", "done"))

\* Variant: an abort does not hold the request back.
HeldSuspended(o) == o.suspend

HeldBack(o) == o.abort \/ o.suspend

\* CONTINUE: send the next fragment unless aborted or suspended.
ClientContinue(h, c) ==
  LET o  == SetContinue(c.self.object)
      c1 == SetObject(c, o)
  IN  \/ /\ HeldBack(o)
         /\ Commit(h, c1)
      \/ /\ ~HeldBack(o)
         /\ \E r \in ObjectSend(h, c1, TRUE, FALSE) :
              \/ /\ r.ret < 0
                 /\ Commit(h, DeliverLast(r.ctx, "LINKERR", o.opcode, "continue"))
              \/ /\ r.ret >= 0
                 /\ Commit(h, Deliver(r.ctx, "PROGRESS", o.opcode, "continue", NoPacket))

\* Any other response ends the request.
ClientDone(h, c, rsp) ==
  LET ev == IF ~c.self.object.abort THEN "REQDONE"
            ELSE IF rsp = "SUCCESS" THEN "ABORT" ELSE "LINKERR"
  IN  Commit(h, DeliverLast(SetState(c, "SRV", "IDLE"), ev, rsp, "done"))

\* STATE_REC: the answer of the request.
ClientRec(h, c, pkt) ==
  LET o  == c.self.object
      c1 == IF o.opcode = "CONNECT" THEN ParseConnect(h, c, pkt)
            ELSE IF o.opcode = "DISCONNECT" THEN SetMtu(c, MinimumMtu) ELSE c
  IN  \/ o.opcode = "CONNECT" /\ MalformedConnect(pkt) /\ ClientParseError(h, c)
      \/ /\ ~(o.opcode = "CONNECT" /\ MalformedConnect(pkt))
         /\ \E r \in ObjectReceive(c1, pkt) :
              \/ ~r.ok /\ ClientParseError(h, r.ctx)
              \/ r.ok /\ pkt.op = "CONTINUE" /\ ClientContinue(h, r.ctx)
              \/ r.ok /\ pkt.op # "CONTINUE" /\ ClientDone(h, r.ctx, pkt.op)

\* A packet for a handle in client mode.  STATE_IDLE is the default branch of
\* the switch.  STATE_START lasts only while a callback runs and STATE_SEND is
\* never entered in client mode (see ClientNeverSends).
Client(h, c, pkt) ==
  \/ /\ c.self.state = "IDLE"
     /\ Commit(h, DeliverLast(c, "PARSEERR", pkt.op, "done"))
  \/ c.self.state = "REC" /\ c.self.object = NULL /\ Crash(h)
  \/ c.self.state = "REC" /\ c.self.object # NULL /\ ClientRec(h, c, pkt)

-----------------------------------------------------------------------------
(* obex_server                                                              *)

\* Variant: it stays in the state the request was in.
BailInState(h, c, rsp, ev, code) ==
  Commit(h, DeliverLast(Respond(h, c, rsp), ev, code, "done"))

\* Variant: it does not answer.
BailSilently(h, c, rsp, ev, code) ==
  Commit(h, DeliverLast(SetState(c, "SRV", "IDLE"), ev, code, "done"))

\* A refused packet: answer, listen again, tell the application.
ServerBail(h, c, rsp, ev, code) ==
  Commit(h, DeliverLast(SetState(Respond(h, c, rsp), "SRV", "IDLE"), ev, code, "done"))

\* STATE_SEND, from "continue_received = 1": the next packet of the response.
\* On an error the state stays as it is.
ServerReply(h, c, cmd) ==
  LET o  == SetContinue(c.self.object)
      c1 == SetObject(c, o)
  IN  \/ o.suspend /\ Commit(h, c1)
      \/ /\ ~o.suspend
         /\ \E r \in ObjectSend(h, c1, TRUE, TRUE) :
              \/ /\ r.ret = 0
                 /\ Commit(h, Deliver(r.ctx, "PROGRESS", cmd, "sendprogress", NoPacket))
              \/ /\ r.ret < 0
                 /\ Commit(h, DeliverLast(r.ctx, "LINKERR", cmd, "done"))
              \/ /\ r.ret = 1
                 /\ LET c2 == IF cmd = "DISCONNECT" THEN SetMtu(r.ctx, MinimumMtu)
                              ELSE r.ctx
                    IN  Commit(h, DeliverLast(SetState(c2, "SRV", "IDLE"),
                                              "REQDONE", o.lastopcode, "done"))

\* STATE_SEND.  A packet with data is unexpected here, but not fatal.
ServerSend(h, c, pkt, data) ==
  \/ /\ pkt.op = "ABORT"
     /\ ServerBail(h, c, "SUCCESS", "ABORT", "ABORT")
  \/ /\ pkt.op # "ABORT" /\ ~data
     /\ ServerReply(h, c, pkt.op)
  \/ /\ pkt.op # "ABORT" /\ data
     /\ \/ /\ pkt.op = "CONNECT"
           /\ ServerBail(h, c, "BAD_REQUEST", "PARSEERR", "BAD_REQUEST")
        \/ /\ pkt.op # "CONNECT"
           /\ \E r \in ObjectReceive(c, pkt) :
                \/ /\ ~r.ok
                   /\ ServerBail(h, r.ctx, "BAD_REQUEST", "PARSEERR", "BAD_REQUEST")
                \/ /\ r.ok
                   /\ Commit(h, Deliver(r.ctx, "UNEXPECTED", pkt.op, "unexpected", pkt))

HasData(pkt) == pkt.n # 0 \/ pkt.mtu # 0

\* STATE_REC with the last packet of the request, or one the application
\* denied.  When a packet of the response is already out, the conditional
\* fallthrough leads to STATE_SEND; the headers are read by then.
ServerFinal(h, c, pkt, deny) ==
  LET o  == c.self.object
      c1 == SetObject(c, [o EXCEPT !.nonhdr = @ \/ pkt.op = "CONNECT"])
  IN  \/ /\ o.sent
         /\ ServerSend(h, c, [pkt EXCEPT !.n = 0], HasData(pkt))
      \/ /\ ~o.sent /\ ~deny
         /\ Commit(h, Deliver(c1, "REQ", pkt.op, "req", pkt))
      \/ /\ ~o.sent /\ deny
         /\ ServerSend(h, SetState(c1, "SRV", "SEND"), pkt, FALSE)

\* STATE_REC, after OBEX_EV_REQCHECK: everything except 0x1X and 0x2X means
\* that the application denied the request.
ServerDecide(h, c, pkt) ==
  \/ /\ c.self.object.opcode \notin {"CONTINUE", "SUCCESS"}
     /\ ServerFinal(h, c, pkt, TRUE)
  \/ /\ c.self.object.opcode \in {"CONTINUE", "SUCCESS"}
     /\ \E r \in ObjectSend(h, c, FALSE, TRUE) :
          \/ /\ r.ret < 0
             /\ Commit(h, DeliverLast(r.ctx, "LINKERR", pkt.op, "done"))
          \/ /\ r.ret >= 0
             /\ Commit(h, Deliver(r.ctx, "PROGRESS", pkt.op, "done", NoPacket))

\* STATE_REC.
ServerRec(h, c, pkt) ==
  \/ /\ pkt.op = "ABORT"
     /\ ServerBail(h, c, "SUCCESS", "ABORT", "ABORT")
  \/ /\ pkt.op # "ABORT" /\ pkt.op # c.self.object.cmd
     /\ ServerBail(h, c, "BAD_REQUEST", "PARSEERR", "BAD_REQUEST")
  \/ /\ pkt.op # "ABORT" /\ pkt.op = c.self.object.cmd
     /\ \E r \in ObjectReceive(c, pkt) :
          \/ /\ ~r.ok
             /\ ServerBail(h, r.ctx, "BAD_REQUEST", "PARSEERR", "BAD_REQUEST")
          \/ r.ok /\ pkt.final /\ ServerFinal(h, r.ctx, pkt, FALSE)
          \/ /\ r.ok /\ ~pkt.final /\ ~c.self.object.checked
             /\ Commit(h, Deliver(r.ctx, "REQCHECK", pkt.op, "check", pkt))
          \/ /\ r.ok /\ ~pkt.final /\ c.self.object.checked
             /\ ServerDecide(h, r.ctx, pkt)

\* STATE_IDLE: a new request, unless an object is still there or none can be
\* allocated; neither is told to the application.
ServerIdle(h, c, pkt) ==
  \/ /\ c.self.object # NULL
     /\ Commit(h, Respond(h, c, "INTERNAL_SERVER_ERROR"))
  \/ /\ c.self.object = NULL /\ AllocFails /\ c.faults < MaxFaults
     /\ Commit(h, Fault(Respond(h, c, "INTERNAL_SERVER_ERROR")))
  \/ /\ c.self.object = NULL
     /\ Commit(h, Deliver(SetObject(c, NewObject(pkt.id, pkt.op)),
                          "REQHINT", pkt.op, "hint", pkt))

\* A packet for a handle in server mode (STATE_START is never entered there).
Server(h, c, pkt) ==
  \/ c.self.state = "IDLE" /\ ServerIdle(h, c, pkt)
  \/ c.self.state \in {"REC", "SEND"} /\ c.self.object = NULL /\ Crash(h)
  \/ c.self.state = "REC" /\ c.self.object # NULL /\ ServerRec(h, c, pkt)
  \/ /\ c.self.state = "SEND" /\ c.self.object # NULL
     /\ ServerSend(h, c, pkt, HasData(pkt))

-----------------------------------------------------------------------------
(* The application's calls.  It calls from its main loop, and from within a *)
(* callback where CallsBack allows.                                         *)

Runs(h) == h \notin crashed
InCallback(h) == stack[h] # <<>>
Top(h) == stack[h][Len(stack[h])]
MayCall(h, call) ==
  Runs(h) /\ (InCallback(h) => call \in CallsBack /\ Len(stack[h]) < MaxDepth)
HasObject(h) == obex[h].object # NULL
MayFault == faults < MaxFaults

\* Variant: the check is missing.
NeverBusy(h) == FALSE

\* OBEX_Request returns -EBUSY.
Busy(h) == HasObject(h)

\* OBEX_ObjectNew, OBEX_ObjectAddHeader and OBEX_Request.
Request(h) ==
  /\ h = Cli /\ MayCall(h, "request") /\ ~Busy(h)
  /\ link[h] # "closed"
  /\ nextId <= MaxRequests
  /\ nextId' = nextId + 1
  /\ \E cmd \in Commands, tx \in RequestQueues, suspend \in BOOLEAN :
       /\ cmd \in {"CONNECT", "DISCONNECT"} => tx = <<>>
       /\ suspend => SuspendsFirst /\ MayFault
       /\ LET o == [NewObject(nextId, cmd) EXCEPT
                      !.opcode = cmd, !.lastopcode = cmd, !.tx = tx,
                      !.nonhdr = (cmd = "CONNECT"), !.suspend = suspend]
              c == [Ctx(h) EXCEPT !.faults = IF suspend THEN @ + 1 ELSE @]
          IN  ClientStart(h, SetObject(SetState(c, "CLI", "START"), o))
  /\ UNCHANGED link

\* OBEX_ObjectSetRsp, in the callbacks that ask for a decision.  A refusal is
\* one packet: an application does not refuse a response it gave headers to.
SetRsp(h) ==
  /\ Runs(h) /\ InCallback(h) /\ HasObject(h)
  /\ Top(h).ev \in {"REQHINT", "REQCHECK", "REQ"}
  /\ \/ obex[h].object.opcode = "NOT_IMPLEMENTED"
     \/ obex[h].object.opcode = "CONTINUE" /\ Top(h).ev = "REQ"
  /\ obex[h].object.tx = <<>>
  /\ \E rsp \in Answers :
       LET o == obex[h].object
           accepted == [o EXCEPT !.opcode = "CONTINUE", !.lastopcode = "SUCCESS"]
           refused  == [o EXCEPT !.opcode = rsp, !.lastopcode = rsp]
       IN  Commit(h, SetObject(Ctx(h), IF rsp = "SUCCESS" THEN accepted ELSE refused))
  /\ UNCHANGED <<link, nextId>>

\* OBEX_ObjectAddHeader: the headers of the response ("connect is single
\* packet"), or one more of the request.
AddHeaders(h) ==
  /\ Runs(h) /\ InCallback(h) /\ HasObject(h) /\ obex[h].object.tx = <<>>
  /\ \/ /\ Top(h).ev = "REQ" /\ obex[h].object.opcode = "CONTINUE"
        /\ obex[h].object.cmd # "CONNECT"
        /\ \E tx \in ResponseQueues \ {<<>>} :
             Commit(h, SetObject(Ctx(h), [obex[h].object EXCEPT !.tx = tx]))
     \/ /\ AddsLate /\ MayFault /\ h = Cli
        /\ Top(h).ev = "PROGRESS" /\ obex[h].object.rx # <<>>
        /\ Commit(h, SetObject(Fault(Ctx(h)), [obex[h].object EXCEPT !.tx = <<"header">>]))
  /\ UNCHANGED <<link, nextId>>

\* obex_object_suspend, on the object being transferred.
Suspend(h) ==
  /\ h \in Suspenders /\ Runs(h) /\ HasObject(h) /\ MayFault
  /\ ~obex[h].object.suspend
  /\ SuspendsLate \/ obex[h].object.tx # <<>>
  /\ Commit(h, SetObject(Fault(Ctx(h)), [obex[h].object EXCEPT !.suspend = TRUE]))
  /\ UNCHANGED <<link, nextId>>

\* obex_object_resume.
Resume(h) ==
  /\ MayCall(h, "resume") /\ HasObject(h) /\ obex[h].object.suspend
  /\ LET o == [obex[h].object EXCEPT !.suspend = FALSE]
         c == SetObject(Ctx(h), o)
     IN  \/ /\ o.sent /\ ~o.cont
            /\ Commit(h, c)
         \/ /\ ~o.sent \/ o.cont
            /\ \E r \in ObjectSend(h, c, TRUE, FALSE) :
                 \/ /\ r.ret < 0
                    /\ Commit(h, DeliverLast(r.ctx, "LINKERR", o.opcode, "done"))
                 \/ /\ r.ret = 0
                    /\ Commit(h, Deliver(r.ctx, "PROGRESS", o.opcode, "resume", NoPacket))
                 \/ /\ r.ret = 1 /\ c.self.mode = "SRV"
                    /\ Commit(h, DeliverLast(r.ctx, "REQDONE", o.lastopcode, "resumedone"))
                 \/ /\ r.ret = 1 /\ c.self.mode = "CLI"
                    /\ Commit(h, SetState(r.ctx, "CLI", "REC"))
  /\ UNCHANGED <<link, nextId>>

\* The server has given its response and has packets of it left for later than
\* those it sends before an ABORT can reach it.
ResponseLasts(h) ==
  LET r == obex[Peer(h)].object
  IN  /\ r # NULL /\ r.id = obex[h].object.id
      /\ Len(r.tx) > Len(chan[Peer(h)]) + Len(stack[Peer(h)])

\* obex_cancelrequest with nice: an ABORT packet from an object of its own.
\* A write that fails leaves everything as it is.
CancelNice(h) ==
  /\ h \in NiceCancellers /\ MayCall(h, "cancel") /\ HasObject(h) /\ MayFault
  /\ CancelsLate \/ obex[h].object.tx # <<>> \/ ResponseLasts(h)
  /\ \E w \in Writes(h, Fault(Ctx(h)),
                     [op |-> "ABORT", final |-> TRUE, id |-> obex[h].object.id,
                      n |-> 0, mtu |-> 0]) :
       /\ w.ok
       /\ Commit(h, SetState(SetObject(w.ctx, [obex[h].object EXCEPT !.abort = TRUE]),
                             "CLI", "REC"))
  /\ UNCHANGED <<link, nextId>>

\* obex_cancelrequest without nice: the object goes, the state stays.
CancelHard(h) ==
  /\ h \in HardCancellers /\ MayCall(h, "cancel") /\ HasObject(h) /\ MayFault
  /\ Commit(h, DeliverLast(Fault(Ctx(h)), "ABORT", "ABORT", "cancel"))
  /\ UNCHANGED <<link, nextId>>

-----------------------------------------------------------------------------
(* What a handler does when the application returns from a callback.        *)

Popped(h) == [Ctx(h) EXCEPT !.frames = SubSeq(@, 1, Len(@) - 1)]

\* The callback the application is in returns to the label "at".  An
\* application that closes on errors has done so before it returns.
Returning(h, at) ==
  /\ Runs(h) /\ InCallback(h) /\ Top(h).at = at
  /\ Top(h).ev \in ClosesOn => link[h] = "closed"
  /\ UNCHANGED <<link, nextId>>

ReturnDone(h) == Returning(h, "done") /\ Commit(h, Popped(h))

\* obex_client, STATE_START: wait for the answer.
ReturnStart(h) ==
  Returning(h, "start") /\ Commit(h, SetState(Popped(h), "CLI", "REC"))

\* Variant: it is not.
ReturnContinueKept(h) == Returning(h, "continue") /\ Commit(h, Popped(h))

\* obex_client, STATE_REC: the CONTINUE is used up.
ReturnContinue(h) ==
  /\ Returning(h, "continue")
  /\ Commit(h, IF HasObject(h)
               THEN SetObject(Popped(h), [obex[h].object EXCEPT !.cont = FALSE])
               ELSE Popped(h))

\* obex_server, after OBEX_EV_REQHINT.
ReturnHint(h) ==
  /\ Returning(h, "hint")
  /\ HasObject(h) => obex[h].object.opcode \in Answers \cup {"CONTINUE"}
  /\ LET pkt == Top(h).pkt
         c == Popped(h)
         connect == pkt.op = "CONNECT"
     IN  \/ ~HasObject(h) /\ Crash(h)
         \/ /\ HasObject(h) /\ connect /\ MalformedConnect(pkt)
            /\ Commit(h, DeliverLast(Respond(h, c, "BAD_REQUEST"),
                                     "PARSEERR", "BAD_REQUEST", "done"))
         \/ /\ HasObject(h) /\ ~(connect /\ MalformedConnect(pkt))
            /\ ServerRec(h, SetState(IF connect THEN ParseConnect(h, c, pkt) ELSE c,
                                     "SRV", "REC"), pkt)

\* After OBEX_EV_REQCHECK.
ReturnCheck(h) ==
  /\ Returning(h, "check")
  /\ \/ ~HasObject(h) /\ Crash(h)
     \/ /\ HasObject(h)
        /\ ServerDecide(h, SetObject(Popped(h), [obex[h].object EXCEPT !.checked = TRUE]),
                        Top(h).pkt)

\* After OBEX_EV_REQ: send the response.
ReturnReq(h) ==
  /\ Returning(h, "req")
  /\ \/ ~HasObject(h) /\ Crash(h)
     \/ /\ HasObject(h)
        /\ ServerSend(h, SetState(Popped(h), "SRV", "SEND"), Top(h).pkt, FALSE)

\* After OBEX_EV_UNEXPECTED.
ReturnUnexpected(h) ==
  /\ Returning(h, "unexpected")
  /\ \/ ~HasObject(h) /\ Crash(h)
     \/ HasObject(h) /\ ServerReply(h, Popped(h), Top(h).pkt.op)

\* After OBEX_EV_PROGRESS of a response packet.
ReturnSendProgress(h) ==
  /\ Returning(h, "sendprogress")
  /\ \/ ~HasObject(h) /\ Crash(h)
     \/ /\ HasObject(h)
        /\ Commit(h, SetObject(Popped(h),
                       [obex[h].object EXCEPT !.sent = TRUE, !.cont = FALSE]))

\* Variant: the CONTINUE is not used up.
ReturnResumeKept(h) ==
  /\ Returning(h, "resume") /\ HasObject(h) /\ Top(h).id = obex[h].object.id
  /\ Commit(h, SetState(SetObject(Popped(h), [obex[h].object EXCEPT !.sent = TRUE]),
                        obex[h].mode, "REC"))

\* obex_object_resume, after OBEX_EV_PROGRESS: it kept its own pointer.
ReturnResume(h) ==
  /\ Returning(h, "resume")
  /\ \/ Top(h).id # IdOf(obex[h].object) /\ Crash(h)
     \/ /\ HasObject(h) /\ Top(h).id = obex[h].object.id
        /\ Commit(h, SetState(SetObject(Popped(h),
                                [obex[h].object EXCEPT !.sent = TRUE, !.cont = FALSE]),
                              obex[h].mode, "REC"))

\* obex_object_resume, after OBEX_EV_REQDONE.
ReturnResumeDone(h) ==
  Returning(h, "resumedone") /\ Commit(h, SetState(Popped(h), "SRV", "IDLE"))

\* obex_cancelrequest, after OBEX_EV_ABORT: "we are out of sync".
ReturnCancel(h) ==
  /\ Returning(h, "cancel")
  /\ Commit(h, Deliver(Popped(h), "LINKERR", "ABORT", "done", NoPacket))

Return(h) ==
  \/ ReturnDone(h)       \/ ReturnStart(h)      \/ ReturnContinue(h)
  \/ ReturnHint(h)       \/ ReturnCheck(h)      \/ ReturnReq(h)
  \/ ReturnUnexpected(h) \/ ReturnSendProgress(h)
  \/ ReturnResume(h)     \/ ReturnResumeDone(h) \/ ReturnCancel(h)

-----------------------------------------------------------------------------
(* The transport.                                                           *)

\* obex_data_indication with a whole packet: dispatch on the mode.
HandleInput(h) ==
  /\ Runs(h) /\ ~InCallback(h) /\ link[h] # "closed" /\ chan[h] # <<>>
  /\ LET c == [Ctx(h) EXCEPT !.input = Tail(@)]
     IN  \/ c.self.mode = "SRV" /\ Server(h, c, Head(chan[h]))
         \/ c.self.mode = "CLI" /\ Client(h, c, Head(chan[h]))
  /\ UNCHANGED <<link, nextId>>

\* obex_data_indication at the end of a lost connection: the request goes, the
\* state stays.
ReadError(h) ==
  /\ Runs(h) /\ ~InCallback(h) /\ link[h] = "lost" /\ chan[h] = <<>>
  /\ Commit(h, DeliverLast(Ctx(h), "LINKERR", "ABORT", "done"))
  /\ UNCHANGED <<link, nextId>>

\* OBEX_TransportDisconnect, called in the callbacks of the ClosesOn events.
Disconnect(h) ==
  /\ Runs(h) /\ InCallback(h) /\ Top(h).ev \in ClosesOn /\ link[h] # "closed"
  /\ link' = [g \in Handles |-> IF g = h THEN "closed"
                                ELSE IF link[g] = "up" THEN "lost" ELSE link[g]]
  /\ chan' = [chan EXCEPT ![h] = <<>>]
  /\ UNCHANGED <<obex, stack, crashed, nextId, faults, seen>>

\* The connection breaks; what is on its way may be lost with it.
LinkBreaks ==
  /\ LinkFails /\ MayFault /\ \A h \in Handles : link[h] = "up"
  /\ link' = [h \in Handles |-> "lost"]
  /\ \E kept \in SUBSET Handles :
       chan' = [h \in Handles |-> IF h \in kept THEN chan[h] ELSE <<>>]
  /\ faults' = faults + 1
  /\ UNCHANGED <<obex, stack, crashed, nextId, seen>>

\* Both applications connect again.  One that does not use its handle again
\* has called OBEX_Cleanup and OBEX_Init.
Reconnect ==
  /\ Reconnects
  /\ \A h \in Handles : link[h] = "closed" /\ ~InCallback(h) /\ Runs(h)
  /\ link' = [h \in Handles |-> "up"]
  /\ chan' = [h \in Handles |-> <<>>]
  /\ obex' = [h \in Handles |-> IF h \in ReusedHandles THEN obex[h] ELSE NewHandle]
  /\ UNCHANGED <<stack, crashed, nextId, faults, seen>>

-----------------------------------------------------------------------------
Init ==
  /\ obex = [h \in Handles |-> NewHandle]
  /\ stack = [h \in Handles |-> <<>>]
  /\ chan = [h \in Handles |-> <<>>]
  /\ link = [h \in Handles |-> "up"]
  /\ crashed = {}
  /\ nextId = 1
  /\ faults = 0
  /\ seen = [h \in Handles |-> {}]

Next ==
  \/ \E h \in Handles :
       \/ Request(h) \/ SetRsp(h) \/ AddHeaders(h) \/ Suspend(h) \/ Resume(h)
       \/ CancelNice(h) \/ CancelHard(h)
       \/ Return(h) \/ HandleInput(h) \/ ReadError(h) \/ Disconnect(h)
  \/ LinkBreaks \/ Reconnect

Spec == Init /\ [][Next]_vars

\* Callbacks answer and return, the applications call OBEX_HandleInput and, after a
\* suspend, OBEX_ResumeRequest again.
Fairness ==
  \A h \in Handles : /\ WF_vars(Return(h)) /\ WF_vars(HandleInput(h))
                     /\ WF_vars(ReadError(h)) /\ WF_vars(Disconnect(h))
                     /\ WF_vars(SetRsp(h))
                     /\ WF_vars(Resume(h) /\ ~InCallback(h))

FairSpec == Spec /\ Fairness

-----------------------------------------------------------------------------
(* Properties.                                                              *)

\* Type correctness of the handles, the link and the history.
TypeOK ==
  /\ obex \in [Handles -> Self]
  /\ stack \in [Handles -> Seq(Frame)]
  /\ chan \in [Handles -> Seq(Packet)]
  /\ link \in [Handles -> {"up", "lost", "closed"}]
  /\ crashed \subseteq Handles
  /\ nextId \in 1..(MaxRequests + 1)
  /\ faults \in 0..MaxFaults
  /\ seen \in [Handles -> SUBSET Seen]

\* No handler uses self->object when there is none: the states REC and SEND
\* are never met by a packet after their object went away (obex_client and
\* obex_server dereference it unchecked).
NoCrash == crashed = {}

\* STATE_SEND is the server's and STATE_START lasts only while OBEX_Request's
\* callback runs: the STATE_SEND branch of obex_client is never reached.
ClientNeverSends ==
  \A h \in Handles :
    /\ obex[h].state = "SEND" => obex[h].mode = "SRV"
    /\ obex[h].state = "START" => obex[h].mode = "CLI" /\ InCallback(h)

\* The protocol is lock-step: a side sends only when it has the other's last
\* packet, so one packet is in flight at most.
LockStep == Len(chan[Cli]) + Len(chan[Srv]) <= 1

\* Somebody can always go on: while the client waits for an answer and is not
\* suspended itself, a packet is in flight, or the server is in a callback or
\* was suspended by its application.
Waiting(h) ==
  /\ obex[h].mode = "CLI" /\ obex[h].state = "REC" /\ HasObject(h)
  /\ ~InCallback(h) /\ ~obex[h].object.suspend
Held(h) == InCallback(h) \/ (HasObject(h) /\ obex[h].object.suspend)
NotStuck ==
  Waiting(Cli) => chan[Cli] # <<>> \/ chan[Srv] # <<>> \/ Held(Srv) \/ link[Cli] # "up"

\* Fragments arrive complete, in order and never mixed with another request's.
Fragments(id, n) == [i \in 1..n |-> <<id, i>>]

\* OBEX_EV_REQ is delivered with everything the client sent for that request,
\* in order, when it has nothing more to send.
WholeRequest ==
  /\ \A e \in seen[Srv] : e.ev = "REQ" => e.rx = Fragments(e.id, Len(e.rx))
  /\ LET o == obex[Cli].object
     IN  (InCallback(Srv) /\ Top(Srv).ev = "REQ" /\ HasObject(Srv)
            /\ o # NULL /\ o.id = Top(Srv).id) =>
           o.n = Len(obex[Srv].object.rx) /\ o.tx = <<>>

\* A request the client sees answered was answered by the server with the same
\* code, and every fragment of the response arrived, in order.  (BAD_REQUEST
\* and INTERNAL_SERVER_ERROR are the library's own, for a packet it drops.)
AnswerAgrees ==
  \A e \in {d \in seen[Cli] : d.ev = "REQDONE" /\
                 d.rsp \notin {"BAD_REQUEST", "INTERNAL_SERVER_ERROR"}} :
    \E f \in seen[Srv] :
      /\ f.ev = "REQDONE" /\ f.id = e.id /\ f.rsp = e.rsp
      /\ e.rx = Fragments(e.id, f.n)

\* A request is answered SUCCESS only after the application was given all of
\* it (OBEX_EV_REQ).
NoEarlyAnswer ==
  \A e \in seen[Srv] : (e.ev = "REQDONE" /\ e.rsp = "SUCCESS") =>
    \E f \in seen[Srv] : f.ev = "REQ" /\ f.id = e.id

\* The two sides agree on each request, however long and however suspended or
\* broken off: obex_server delivers it whole (WholeRequest) and answers it only
\* then (NoEarlyAnswer), and obex_client reports the answer that was given and
\* everything that came with it (AnswerAgrees).
Answered == WholeRequest /\ NoEarlyAnswer /\ AnswerAgrees

\* While obex_object_suspend and obex_object_resume of both sides come at any
\* point: one packet at a time (LockStep), somebody who can go on (NotStuck), and
\* agreement on each request (Answered).
Orderly == LockStep /\ NotStuck /\ Answered

\* Each side is told the end of a request once.
EndsOnce ==
  \A h \in Handles : \A e, f \in seen[h] :
    (e.ev \in Ends /\ f.ev \in Ends /\ e.id = f.id) => e = f

\* A packet never exceeds what the peer announced it can receive.
MtuAgreed == \A h \in Handles : obex[h].mtu_tx <= MtuRx[Peer(h)]

\* "CONTINUE received after sending last command" (obex_object.h): with the flag
\* set, obex_object_resume of a suspended object sends.  Then it is that side's
\* turn: nothing is on its way, and a resume of the other side sends nothing.
MaySend(h) ==
  /\ HasObject(h) /\ ~InCallback(h)
  /\ obex[h].object.cont /\ obex[h].object.suspend
ResumesInTurn ==
  \A h \in Handles :
    MaySend(h) => chan[Cli] = <<>> /\ chan[Srv] = <<>> /\ ~MaySend(Peer(h))

\* The flag is used up by the packet it allows, with one exception: as
\* obex_object_resume clears it only when something is left to send, a client
\* resumed with its last packet keeps it.
ContinueIsOurTurn ==
  /\ ResumesInTurn
  /\ \A h \in Handles :
       (HasObject(h) /\ ~InCallback(h) /\ obex[h].object.cont /\ ~MaySend(h)) =>
         h = Cli /\ obex[h].object.tx = <<>>

\* A client that asked for the abort sends no more of the request.
AbortStopsData ==
  [][LET o == obex[Cli].object
     IN  (o # NULL /\ o.abort) =>
           \/ obex'[Cli].object = NULL
           \/ obex'[Cli].object.n = o.n]_vars

\* The exchange of ObexExchange, as the applications see it in the events.
AnswersSeen(h) ==
  {[id |-> e.id, rsp |-> e.rsp] : e \in {d \in seen[h] : d.ev = "REQDONE"}}
Exchange ==
  INSTANCE ObexExchange WITH
    Codes    <- Rsps,
    issued   <- nextId - 1,
    served   <- {e.id : e \in {d \in seen[Srv] : d.ev = "REQ"}},
    answered <- AnswersSeen(Srv),
    done     <- AnswersSeen(Cli)

\* The library implements the exchange: requests one at a time, each served at
\* most once and answered once, the answer told to the client unchanged.
ImplementsExchange == Exchange!Spec

\* Every request comes to an end at the client.
Completes ==
  \A id \in 1..MaxRequests :
    nextId > id ~> \E e \in seen[Cli] : e.id = id /\ e.ev \in Ends
=============================================================================
