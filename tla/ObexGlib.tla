------------------------------ MODULE ObexGlib ------------------------------
(***************************************************************************)
(* The GLib binding (src/glib): an ObexClient, its main loop and the       *)
(* application, over a handle of the library on a descriptor. It turns the *)
(* events of the library, which come in the middle of OBEX_HandleInput,    *)
(* into conditions that the application's watch is called with afterwards, *)
(* keeps one request waiting behind the one in progress, and stores what   *)
(* arrives of a GET until the application reads it.                        *)
(*                                                                         *)
(* Of the library there is what ObexSession says of a client: it sends one *)
(* packet, and the next when the server has answered CONTINUE and the      *)
(* request is not suspended. All requests of the binding but PUT and GET   *)
(* are one packet each way. Data is a sequence of bytes, each with the     *)
(* request it belongs to.                                                  *)
(*                                                                         *)
(* What the application calls inside the signals (connected, disconnect,   *)
(* progress) it may as well call when the function that emits them has     *)
(* returned; only a call is refused there that is queued here. Memory is   *)
(* there when it is asked for. Headers, times, sizes and connection ids    *)
(* are left out.                                                           *)
(***************************************************************************)
EXTENDS Naturals, SequencesExt

CONSTANTS
  BufSize,       \* BUF_SIZE
  Counts,        \* numbers of bytes in a packet, a read or a write
  None,          \* no request
  Junk,          \* a byte that does not belong to what is received
  MaxRequests,   \* bound: calls that make a request
  MaxPackets     \* bound: packets of data in answer to one GET

ASSUME BoundsAssumption == {BufSize, MaxRequests, MaxPackets} \subseteq Nat
ASSUME CountsAssumption == Counts \subseteq 1..BufSize

VARIABLE self
(* The context of obex-lowlevel.c: state, pending, rsp (obex_rsp), start   *)
(* (data_start), data (the data_length bytes from there on), events. Of    *)
(* the ObexClient: auto_connect, connected, idle (idle_source). Of the     *)
(* handle: object, suspend, continued (continue_received), link, and       *)
(* awaited: a packet was sent that is not answered yet. History: accepted  *)
(* requests, whether there was a PUT; the answers of those that ended, and *)
(* the answers the application was told; of the last GET what arrived, how *)
(* much of it before its last packet, what was read, the packets, and      *)
(* whether the application called obex_client_close.                       *)

vars == <<self>>

Ops == {"CONNECT", "DISCONNECT", "PUT", "DELETE", "GET", "SETPATH"}
Responses == {"SUCCESS", "FORBIDDEN"}

ASSUME NoneAssumption == None \notin Ops \union [id : Nat, op : Ops]

(* A delete is a PUT without a body. *)
Command(r) == IF r = None THEN None ELSE IF r.op = "DELETE" THEN "PUT" ELSE r.op

(* obex_open, obex_client_init and obex_client_attach_fd. *)
Opened(auto) ==
  [state |-> "open", pending |-> None, rsp |-> "SUCCESS", start |-> 0,
   data |-> <<>>, events |-> <<>>,
   auto_connect |-> auto, connected |-> FALSE, idle |-> FALSE,
   object |-> None, suspend |-> FALSE, continued |-> FALSE, awaited |-> FALSE,
   link |-> "up",
   accepted |-> 0, put |-> FALSE, ended |-> <<>>, told |-> <<>>,
   arrived |-> <<>>, before |-> 0, read |-> <<>>, packets |-> 0,
   closed |-> FALSE]

(***************************************************************************)
(* The handle.                                                             *)
(***************************************************************************)
queue_event(s, e) == [s EXCEPT !.events = Append(@, e)]

(* OBEX_EV_LINKERR and OBEX_EV_PARSEERR in obex_event: the request is gone *)
(* and the transport is disconnected. No event is queued.                  *)
LinkError(s) ==
  [s EXCEPT !.object = None, !.awaited = FALSE, !.link = "down"]

(* obex_object_send: a packet of the request is written, or not. *)
Sends(s) == {LinkError(s), [s EXCEPT !.awaited = TRUE]}

(* OBEX_Request: obex_put has suspended its object, of which nothing is    *)
(* sent then; it counts as sent all the same.                              *)
Begun(s, r) ==
  [s EXCEPT !.object = r, !.suspend = (r.op = "PUT"), !.continued = FALSE,
            !.arrived = IF r.op = "GET" THEN <<>> ELSE @,
            !.before = IF r.op = "GET" THEN 0 ELSE @,
            !.read = IF r.op = "GET" THEN <<>> ELSE @,
            !.packets = IF r.op = "GET" THEN 0 ELSE @,
            !.closed = IF r.op = "GET" THEN FALSE ELSE @]

OBEX_Request(s, r) ==
  IF r.op = "PUT" THEN {Begun(s, r)} ELSE Sends(Begun(s, r))

(* OBEX_ResumeRequest: the next packet is sent if it was held back. *)
OBEX_ResumeRequest(s) ==
  LET t == [s EXCEPT !.suspend = FALSE]
  IN  IF s.suspend /\ s.continued THEN Sends(t) ELSE {t}

(***************************************************************************)
(* Requests. Each operator gives the states a call may lead to; a refused  *)
(* one leaves `accepted` as it was.                                        *)
(***************************************************************************)
obex_send_or_queue(s, op) ==
  LET r == [id |-> s.accepted + 1, op |-> op]
      t == [s EXCEPT !.accepted = @ + 1, !.put = @ \/ op = "PUT"]
  IN  IF s.object = None THEN OBEX_Request(t, r)
      ELSE IF s.pending = None THEN {[t EXCEPT !.pending = r]}
      ELSE {s}

(* The state is changed although the request may be refused. *)
obex_connect(s) ==
  IF s.state \notin {"open", "closed"} THEN {s}
  ELSE obex_send_or_queue([s EXCEPT !.state = "connect"], "CONNECT")

obex_disconnect(s) ==
  IF s.state # "connected" THEN {s}
  ELSE obex_send_or_queue([s EXCEPT !.state = "disconn"], "DISCONNECT")

obex_setpath(s) ==
  IF s.state # "connected" THEN {s} ELSE obex_send_or_queue(s, "SETPATH")

Usable(s) == s.state \in {"open", "connect", "connected"}

obex_delete(s) == IF ~Usable(s) THEN {s} ELSE obex_send_or_queue(s, "DELETE")

(* obex_put and obex_get empty the buffer, also when they are refused for  *)
(* the request that waits already.                                         *)
Transfer(s, op) ==
  IF ~Usable(s) \/ Command(s.object) \in {"PUT", "GET"} THEN {s}
  ELSE obex_send_or_queue([s EXCEPT !.start = 0, !.data = <<>>], op)

obex_put(s) == Transfer(s, "PUT")
obex_get(s) == Transfer(s, "GET")

AutoConnects(s) == ~s.connected /\ s.auto_connect

(* obex_client_put_object: an idle source asks for data when no answer to  *)
(* a CONNECT will.                                                         *)
obex_client_put_object(s) ==
  UNION {{IF AutoConnects(s) \/ u.accepted = t.accepted THEN u
          ELSE [u EXCEPT !.idle = TRUE] : u \in obex_put(t)} :
         t \in IF AutoConnects(s) THEN obex_connect(s) ELSE {s}}

obex_client_get_object(s) ==
  UNION {obex_get(t) :
         t \in IF AutoConnects(s) THEN obex_connect(s) ELSE {s}}

(* The calls of the application that make a request. *)
Calls(s) ==
  obex_connect(s) \union obex_disconnect(s) \union obex_setpath(s)
  \union obex_delete(s) \union obex_client_put_object(s)
  \union obex_client_get_object(s)

Call ==
  /\ self.accepted < MaxRequests
  /\ self' \in Calls(self)

(***************************************************************************)
(* What the library tells the binding.                                     *)
(***************************************************************************)
(* The bytes are copied to data_start, also when there are bytes already.  *)
Stored(data, new) ==
  new \o SubSeq(data, Len(new) + 1, Len(data))
      \o [k \in 1..(IF Len(new) < Len(data) THEN Len(new) ELSE Len(data)) |-> Junk]

(* Variant: the next packet is asked for before this one is read. *)
ReadstreamGoesOn(s, new) ==
  IF Len(new) > BufSize - (s.start + Len(s.data)) THEN s
  ELSE queue_event([s EXCEPT !.data = Stored(@, new)], "IN")

(* obex_readstream: what does not fit is dropped. *)
obex_readstream(s, new) ==
  IF Len(new) > BufSize - (s.start + Len(s.data)) THEN s
  ELSE queue_event([s EXCEPT !.data = Stored(@, new), !.suspend = TRUE], "IN")

(* The body in an answer to GET, of n bytes. *)
Body(s, n) ==
  LET new == [k \in 1..n |-> <<s.object.id, Len(s.arrived) + k>>]
      t == [s EXCEPT !.before = Len(s.arrived), !.arrived = @ \o new,
                     !.packets = @ + 1]
  IN  IF n = 0 THEN t ELSE obex_readstream(t, new)

(* A packet with CONTINUE: the next is sent, or held back. *)
Continued(s) ==
  LET t == [s EXCEPT !.awaited = FALSE, !.continued = TRUE]
  IN  IF t.suspend THEN {t}
      ELSE {[u EXCEPT !.continued = FALSE] : u \in Sends(t)}

(* The request that waited is made in the place of the one that is done.   *)
(* Its command is read afterwards: when it could not be sent it is freed   *)
(* by then, and anything may be read.                                      *)
RequestPending(s) ==
  IF s.pending = None THEN {s}
  ELSE UNION {{u \in {t, queue_event(t, "OUT")} :
                 t.object # None =>
                   (u # t <=> Command(t.object) = "PUT")} :
              t \in {[u EXCEPT !.pending = None] :
                       u \in OBEX_Request(s, s.pending)}}

(* obex_connect_done, obex_disconnect_done: whatever is answered to        *)
(* DISCONNECT; a refused CONNECT leaves the state as it is.                *)
DoneWith(s, op, rsp) ==
  CASE op = "CONNECT" /\ rsp = "SUCCESS" ->
         [s EXCEPT !.state = "connected", !.connected = TRUE]
    [] op = "DISCONNECT" -> [s EXCEPT !.state = "closed"]
    [] OTHER -> s

(* Variant: the next request takes the place of the event as well. *)
ReqDoneOnce(s, rsp) ==
  LET t == [s EXCEPT !.object = None, !.awaited = FALSE, !.rsp = rsp,
                     !.ended = Append(@, rsp)]
  IN  {DoneWith(u, s.object.op, rsp) :
       u \in RequestPending(IF s.pending = None THEN queue_event(t, "DONE") ELSE t)}

(* OBEX_EV_REQDONE in obex_event. *)
ReqDone(s, rsp) ==
  LET t == [s EXCEPT !.object = None, !.awaited = FALSE, !.rsp = rsp,
                     !.ended = Append(@, rsp)]
  IN  {DoneWith(u, s.object.op, rsp) :
       u \in RequestPending(queue_event(t, "DONE"))}

(* obex_client_callback: the input is an answer. The events it has led to  *)
(* are delivered before there is any other input.                          *)
Readable == self.events = <<>> /\ self.link = "up" /\ self.awaited

AnswerGet ==
  /\ Readable /\ self.object.op = "GET"
  /\ self.packets < MaxPackets
  /\ \E n \in Counts \union {0} :
       \/ self' \in Continued(Body(self, n))
       \/ \E rsp \in Responses : self' \in ReqDone(Body(self, n), rsp)

Answer ==
  /\ Readable
  /\ \E rsp \in Responses : self' \in ReqDone(self, rsp)

(* A packet that cannot be parsed. *)
ParseError == Readable /\ self' = LinkError(self)

(* The link is lost: a read fails, or the main loop reports it and the     *)
(* watch of the descriptor is removed, which the handle never learns.      *)
LinkLost ==
  /\ self.events = <<>> /\ self.link = "up"
  /\ self' \in {LinkError(self), [self EXCEPT !.link = "down"]}

(* obex_do_callback and obex_command_ind: the watch is called with the     *)
(* next condition; when a request is done it asks for the answer           *)
(* (obex_client_get_error), which is forgotten then.                       *)
Deliver ==
  /\ self.events # <<>>
  /\ self' = IF Head(self.events) = "DONE"
               THEN [self EXCEPT !.events = Tail(@), !.rsp = "SUCCESS",
                                 !.told = Append(@, self.rsp)]
               ELSE [self EXCEPT !.events = Tail(@)]

(* obex_client_put_idle calls it to have data written. *)
PutIdle ==
  /\ self.idle
  /\ self' = [self EXCEPT !.idle = FALSE]

(***************************************************************************)
(* Transfers.                                                              *)
(***************************************************************************)
(* Variant: the transfer goes on when all was read at once. *)
ReadAtOnce(s, n) ==
  LET t == [s EXCEPT !.read = @ \o SubSeq(s.data, 1, n),
                     !.data = SubSeq(@, n + 1, Len(@)), !.start = @ + n]
  IN  IF t.data # <<>> THEN {t}
      ELSE IF s.start > 0 THEN {[t EXCEPT !.start = 0]}
      ELSE OBEX_ResumeRequest([t EXCEPT !.start = 0])

(* obex_read of n bytes: the transfer goes on when nothing is left. *)
obex_read(s, n) ==
  LET t == [s EXCEPT !.read = @ \o SubSeq(s.data, 1, n),
                     !.data = SubSeq(@, n + 1, Len(@)), !.start = @ + n]
  IN  IF t.data # <<>> THEN {t}
      ELSE OBEX_ResumeRequest([t EXCEPT !.start = 0])

Read ==
  /\ Command(self.object) = "GET" /\ self.data # <<>>
  /\ \E n \in Counts : n <= Len(self.data) /\ self' \in obex_read(self, n)

(* Variant: the bytes in the buffer are not counted. *)
FreeFromStart(s) == BufSize - s.start

Free(s) == BufSize - (s.start + Len(s.data))

(* obex_write: also while a delete is in progress. tx_max, what the peer   *)
(* receives, may be less than the buffer.                                  *)
Write ==
  /\ Command(self.object) = "PUT"
  /\ \E n \in Counts :
       LET m == IF n > Free(self) THEN Free(self) ELSE n
           t == [self EXCEPT !.data = @ \o [k \in 1..m |-> Junk]]
       IN  self' \in OBEX_ResumeRequest(t)
                       \union IF m = Free(self) THEN {} ELSE {t}

(* obex_flush *)
Flush ==
  /\ Command(self.object) = "PUT" /\ self.data # <<>>
  /\ self' \in OBEX_ResumeRequest(self)

(* obex_close_transfer; obex_abort is not here: it refuses always. *)
CloseTransfer ==
  /\ Command(self.object) \in {"PUT", "GET"}
  /\ self' \in OBEX_ResumeRequest([self EXCEPT !.closed = TRUE])

-----------------------------------------------------------------------------
Init == \E auto \in BOOLEAN : self = Opened(auto)

(* The main loop, which runs until the link is lost. *)
MainLoop == AnswerGet \/ Answer \/ Deliver \/ PutIdle

Next ==
  \/ Call
  \/ MainLoop
  \/ ParseError
  \/ LinkLost
  \/ Read
  \/ Write
  \/ Flush
  \/ CloseTransfer

Spec == Init /\ [][Next]_vars

(* The server answers, the main loop runs, and what is received is read. *)
FairSpec == Spec /\ WF_vars(MainLoop) /\ WF_vars(Read)
-----------------------------------------------------------------------------
Bytes == (1..MaxRequests + 1) \X (1..BufSize * MaxPackets) \union {Junk}
Request == [id : 1..MaxRequests + 1, op : Ops]

(* The types of the variables, and that the buffer holds what is in it     *)
(* (obex_write, obex_readstream).                                          *)
TypeOK ==
  /\ self.state \in {"open", "connect", "connected", "disconn", "closed"}
  /\ {self.pending, self.object} \subseteq Request \union {None}
  /\ self.rsp \in Responses
  /\ self.start + Len(self.data) \in 0..BufSize
  /\ {self.data, self.arrived, self.read} \subseteq Seq(Bytes)
  /\ self.events \in Seq({"IN", "OUT", "DONE"})
  /\ self.link \in {"up", "down"}
  /\ self.accepted \in 0..MaxRequests + 1
  /\ {self.ended, self.told} \subseteq Seq(Responses)
  /\ {self.auto_connect, self.connected, self.idle, self.suspend,
      self.continued, self.awaited, self.put, self.closed} \subseteq BOOLEAN

(* obex_client_read gives the application what arrives of its GET, each    *)
(* byte once and in order, whatever else it calls and queues meanwhile:    *)
(* the buffer, shared by all transfers, holds what is not read yet. When   *)
(* the GET has ended all was read except what came in its last packet,     *)
(* which obex_read refuses to give. After obex_client_close in the middle  *)
(* of a GET, which has the next packet sent at once, nothing is promised.  *)
ReadsInOrder ==
  ~self.closed =>
    /\ Command(self.object) = "GET" => self.read \o self.data = self.arrived
    /\ IsPrefix(self.read, self.arrived)
    /\ Command(self.object) # "GET" /\ self.link = "up" =>
         Len(self.read) >= self.before

(* OBEX_CLIENT_COND_IN tells the watch that there is data, and             *)
(* glib/test-client.c then calls obex_client_read for it: the object it is *)
(* read from is still there.                                               *)
InIsReadable ==
  (self.events # <<>> /\ Head(self.events) = "IN" /\ self.data # <<>>
     /\ self.link = "up") =>
    Command(self.object) = "GET"

(* The watch is called with OBEX_CLIENT_COND_DONE once for each request    *)
(* that was answered, in their order, and the answer it gets is that       *)
(* request's, although the next request is made before it is called        *)
(* (obex_event, obex_do_callback, obex_get_response).                      *)
Told == IsPrefix(self.told, self.ended)

(* While the link holds each request that obex_send_or_queue has taken is  *)
(* answered and told, with a PUT excepted: it is never sent, nor anything  *)
(* after it.                                                               *)
Completes ==
  \A k \in 1..MaxRequests + 1 :
    (self.accepted >= k) ~>
      (Len(self.told) >= k \/ self.link = "down" \/ self.put)
=============================================================================
