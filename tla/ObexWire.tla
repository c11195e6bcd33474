------------------------------ MODULE ObexWire ------------------------------
(***************************************************************************)
(* The way of one object over the link, down to the sizes of headers,      *)
(* packets, writes and reads: obex_object_addheader and obex_object_send   *)
(* with send_body and send_stream (lib/obex_object.c) pack its headers,    *)
(* obex_transport_write sends the packet in pieces, obex_data_indication   *)
(* (lib/obex_main.c) collects it from reads of any size, and               *)
(* obex_object_receive takes the headers out again.  What a CONTINUE and   *)
(* an answer lead to is in ObexSession; here the sender has its next turn  *)
(* when the receiver is done with a packet.                                *)
(*                                                                         *)
(* A packet is its size and the headers in it, a body is the sequence of   *)
(* the numbers of its bytes, any other header is its number and size.      *)
(* Sizes are the real ones but for the MTU, which is small.  Arithmetic    *)
(* the code does in unsigned int is kept apart from that in uint16_t.      *)
(*                                                                         *)
(* "Variant" marks a way the definition after it could have been wrong.    *)
(***************************************************************************)
EXTENDS Integers, Sequences, SequencesExt

CONSTANTS
  Transports,      \* the transports modelled
  MtuTx,           \* mtu_tx of the sender
  LinkMtu,         \* trans.mtu of its link
  NonHeaderSizes,  \* the sizes of the non-header data of the request
  BodySizes,       \* the sizes of bodies
  NameSizes,       \* ... and of other byte sequences and unicode texts
  ChunkSizes,      \* ... and of what the application adds to a stream
  MaxHeaders,      \* bound on the headers of the object
  MaxChunks,       \* bound on the chunks of the stream
  MaxFaults        \* bound on suspends, cancels and failures together

COMMON  == 3       \* sizeof(struct obex_common_hdr)
SEQHDR  == 3       \* sizeof(struct obex_byte_stream_hdr)
UINTHDR == 5       \* sizeof(struct obex_uint_hdr)
BYTEHDR == 2       \* sizeof(struct obex_ubyte_hdr)
HUGE    == 1000000 \* stands for an unsigned int that wrapped

TransportKinds == {"INET", "IRDA", "BLUETOOTH", "FD", "USB", "CUSTOM"}

ASSUME TransportsAssumption == Transports \subseteq TransportKinds
\* mtu_tx is a uint16_t.
ASSUME MtuAssumption ==
  /\ MtuTx \in Nat /\ COMMON + SEQHDR < MtuTx /\ MtuTx <= 65535
  /\ LinkMtu \in Nat \ {0}
ASSUME SizesAssumption ==
  {NonHeaderSizes, BodySizes, NameSizes, ChunkSizes} \subseteq SUBSET Nat
ASSUME BoundsAssumption == {MaxHeaders, MaxChunks, MaxFaults} \subseteq Nat

Kinds == {"BYTE", "INT", "SEQ", "BODY", "STREAM", "EMPTY"}

VARIABLES
  env,     \* what is fixed: the transport, and whether the receiver streams
  tx,      \* the sender: its object, and the packet it makes
  link,    \* the packets on the link, and the bytes written and read of them
  rx,      \* the receiver: rx_msg and the object
  hist,    \* history: what was added, and what went wrong
  phase    \* "open", or how the transfer ended

vars == <<env, tx, link, rx, hist, phase>>

Ends == {"done", "failed", "refused", "aborted", "overrun", "misread"}

\* struct obex_header_element; data is the body that is left to send.
Element == [no : Nat, kind : Kinds, length : Nat, suspend : BOOLEAN,
            data : Seq(Nat)]

\* A header in a packet.
Item == [no : Nat, kind : {"HEADER", "BODY", "BODY_END"}, size : Nat,
         data : Seq(Nat)]

Packet == [op : {"NEXT", "LAST", "ABORT"}, size : Nat, items : Seq(Item)]

\* Where obex_object_send is: "add": not called yet; "fill": in its loop over
\* the headers; "ask" and "copy": in the loop of send_stream; "write": in
\* obex_transport_write; "turn" and "wait": it has returned.
Sender == [pc : {"add", "fill", "ask", "copy", "write", "turn", "wait"},
           headerq : Seq(Element), totallen : Nat, nonhdr : Nat,
           suspend : BOOLEAN, left : Nat, addmore : BOOLEAN,
           items : Seq(Item), size : Nat, unsent : Nat,
           room : Nat, frag : Seq(Nat), s_buf : BOOLEAN, s_data : Seq(Nat),
           s_stop : BOOLEAN]

NewSender(nonhdr) ==
  [pc |-> "add", headerq |-> <<>>, totallen |-> 0, nonhdr |-> nonhdr,
   suspend |-> FALSE, left |-> 0, addmore |-> FALSE, items |-> <<>>,
   size |-> 0, unsent |-> 0, room |-> 0, frag |-> <<>>, s_buf |-> FALSE,
   s_data |-> <<>>, s_stop |-> FALSE]

Smaller(a, b) == IF a < b THEN a ELSE b
Numbers(from, n) == [i \in 1..n |-> from + i]

Streams == \E i \in 1..Len(hist.added) : hist.added[i].kind = "STREAM"
-----------------------------------------------------------------------------
(* Headers are added.                                                       *)

\* The size of the header with its identifier and length (lib/obex_header.c).
HeaderSize(kind, n) ==
  CASE kind = "INT" -> UINTHDR
    [] kind = "BYTE" -> BYTEHDR
    [] kind \in {"SEQ", "BODY"} -> n + SEQHDR
    [] kind \in {"STREAM", "EMPTY"} -> 0

\* Variant: the common header is forgotten.
SpaceOfMtu(t, fit) == IF fit THEN MtuTx - t.totallen ELSE MtuTx

\* maxlen, as OBEX_ObjectGetSpace reports it: with OBEX_FL_FIT_ONE_PACKET what
\* the other headers have left of a packet.  It wraps when they fill more.
Space(t, fit) ==
  IF ~fit THEN MtuTx - COMMON
  ELSE IF t.totallen + COMMON > MtuTx THEN HUGE
  ELSE MtuTx - t.totallen - COMMON

\* A header is refused that can never be sent: only a body is cut in pieces.
Accepts(t, kind, size, fit) ==
  \/ kind \in {"STREAM", "EMPTY"}
  \/ kind = "BODY" /\ ~fit
  \/ size <= Space(t, fit)

\* OBEX_ObjectAddHeader before the object is sent.  An object has one body.
AddHeader(kind, n, fit, suspend) ==
  LET size == HeaderSize(kind, n)
      no   == Len(hist.added) + 1
      h    == [no |-> no, kind |-> kind, length |-> size, suspend |-> suspend,
               data |-> IF kind = "BODY" THEN Numbers(0, n) ELSE <<>>]
  IN  /\ phase = "open" /\ tx.pc = "add"
      /\ Len(hist.added) < MaxHeaders
      /\ kind \in {"BODY", "STREAM"} =>
           \A i \in 1..(no - 1) : hist.added[i].kind \notin {"BODY", "STREAM"}
      /\ suspend => hist.faults < MaxFaults
      /\ Accepts(tx, kind, size, fit)
      /\ tx' = [tx EXCEPT !.headerq = Append(@, h), !.totallen = @ + size]
      /\ hist' = [hist EXCEPT !.added = Append(@, h),
                              !.fits = @ /\ fit /\ kind \notin {"STREAM", "EMPTY"},
                              !.faults = IF suspend THEN @ + 1 ELSE @,
                              !.given = @ + Len(h.data)]
      /\ UNCHANGED <<env, link, rx, phase>>

AddHeaders ==
  \E kind \in Kinds, fit, suspend \in BOOLEAN :
    \E n \in CASE kind = "BODY" -> BodySizes
               [] kind = "SEQ" -> NameSizes
               [] OTHER -> {0} :
      AddHeader(kind, n, fit, suspend)
-----------------------------------------------------------------------------
(* A packet is made: obex_object_send.                                      *)

\* Variant: IrDA packets are not cut to whole frames.
RoomOfMtu == MtuTx - COMMON

\* What headers may take of the packet, over IrDA in whole frames.
RoomInPacket ==
  MtuTx - COMMON -
    (IF env.trans = "IRDA" /\ MtuTx > LinkMtu THEN MtuTx % LinkMtu ELSE 0)

\* The non-header data goes first, and is not taken off what is left.
Begin(t) ==
  [t EXCEPT !.pc = "fill", !.left = RoomInPacket, !.addmore = TRUE,
            !.items = <<>>, !.size = t.nonhdr, !.nonhdr = 0]

\* Variant: the subtraction does not wrap.
TakeSigned(t, n) == [t EXCEPT !.left = @ - n]

\* tx_left -= n, which is a uint16_t.
Take(t, n) == [t EXCEPT !.left = (@ - n) % 65536]

\* The end of the loop over the headers.
More(t) ==
  [t EXCEPT !.pc = "fill",
            !.addmore = IF t.suspend \/ t.left = 0 THEN FALSE ELSE @]

Put(t, item) == [t EXCEPT !.items = Append(@, item), !.size = @ + item.size]

Pop(t) == [t EXCEPT !.headerq = Tail(@)]

Flagged(t, h) == IF h.suspend THEN [t EXCEPT !.suspend = TRUE] ELSE t

ItemOf(h, kind, data) ==
  [no |-> h.no, kind |-> kind, size |-> SEQHDR + Len(data), data |-> data]

\* Variant: a body that just fills the packet is not ended with it.
SendBodyShort(t, h) ==
  IF t.left <= Len(h.data) + SEQHDR
  THEN LET n == t.left - SEQHDR
       IN  Take([Put(t, ItemOf(h, "BODY", SubSeq(h.data, 1, n))) EXCEPT
                  !.headerq[1].data = SubSeq(h.data, n, Len(h.data))], t.left)
  ELSE Take(Pop(Put(t, ItemOf(h, "BODY_END", h.data))), Len(h.data))

\* send_body: what fits of the body.  The last fragment is counted without its
\* header.
SendBody(t, h) ==
  IF t.left < Len(h.data) + SEQHDR
  THEN LET n == t.left - SEQHDR
       IN  Take([Put(t, ItemOf(h, "BODY", SubSeq(h.data, 1, n))) EXCEPT
                  !.headerq[1].data = SubSeq(h.data, n + 1, Len(h.data))],
                t.left)
  ELSE Take(Pop(Put(t, ItemOf(h, "BODY_END", h.data))), Len(h.data))

\* "There is room for more data in tx msg".
FitsIn(h, t) == h.length <= t.left

Plain(h) == h.kind \in {"BYTE", "INT", "SEQ"}

\* The first header of the queue goes into the packet, or does not fit.
FillHeader ==
  LET h == Head(tx.headerq)
      t == Flagged(tx, h)
  IN  /\ phase = "open" /\ tx.pc = "fill"
      /\ tx.addmore /\ tx.headerq # <<>>
      /\ \/ /\ h.kind = "BODY" /\ tx.left >= SEQHDR
            /\ tx' = More(SendBody(t, h))
            /\ UNCHANGED <<phase, hist>>
         \/ \* Less is left than the header of the fragment takes: the length
            \* of the fragment wraps and the copy runs over both buffers.
            /\ h.kind = "BODY" /\ tx.left < SEQHDR
            /\ phase' = "overrun"
            /\ UNCHANGED <<tx, hist>>
         \/ /\ h.kind = "EMPTY"
            /\ tx' = More(Pop(t))
            /\ UNCHANGED <<phase, hist>>
         \/ /\ Plain(h) /\ FitsIn(h, tx)
            /\ tx' = More(Take(Pop(Put(t, [no |-> h.no, kind |-> "HEADER",
                                           size |-> h.length, data |-> <<>>])),
                               h.length))
            /\ UNCHANGED <<phase, hist>>
         \/ \* "ERROR! header to big for MTU"
            /\ Plain(h) /\ ~FitsIn(h, tx) /\ h.length > MtuTx
            /\ phase' = "failed"
            /\ UNCHANGED <<tx, hist>>
         \/ /\ Plain(h) /\ ~FitsIn(h, tx) /\ h.length <= MtuTx
            /\ tx' = [tx EXCEPT !.addmore = FALSE]
            /\ UNCHANGED <<phase, hist>>
         \/ \* send_stream begins; the room may wrap here too.
            /\ h.kind = "STREAM"
            /\ tx' = [t EXCEPT
                       !.pc = IF t.s_data = <<>> THEN "ask" ELSE "copy",
                       !.room = IF t.left < SEQHDR THEN HUGE ELSE t.left - SEQHDR,
                       !.frag = <<>>]
            /\ hist' = [hist EXCEPT !.short = @ \/ tx.left < SEQHDR]
            /\ UNCHANGED phase
  /\ UNCHANGED <<env, link, rx>>

\* Variant: the end of the stream is forgotten.
EndStreamOpen(t) ==
  More(Take(Put(t, ItemOf(Head(t.headerq), "BODY", t.frag)),
            SEQHDR + Len(t.frag)))

\* send_stream ends: the fragment is the last one when the application has
\* ended the stream and nothing is left of it.
EndStream(t) ==
  LET h    == Head(t.headerq)
      last == t.s_stop /\ t.s_data = <<>>
      p    == Put(t, ItemOf(h, IF last THEN "BODY_END" ELSE "BODY", t.frag))
  IN  More(Take(IF last THEN Pop(p) ELSE p, SEQHDR + Len(t.frag)))

\* OBEX_EV_STREAMEMPTY is answered with n more bytes, and perhaps the end of
\* the stream: obex_object_addheader with OBEX_FL_STREAM_DATA or _DATAEND.
\* Bytes given with the end wait for the next packet.  Asked once more after
\* the end the application has nothing to add.
AnswerStream(n, end) ==
  LET new == Numbers(hist.given, n)
      t   == [tx EXCEPT !.s_buf = TRUE, !.s_data = new, !.s_stop = @ \/ end]
  IN  /\ phase = "open" /\ tx.pc = "ask"
      /\ tx.s_stop => n = 0
      /\ n > 0 \/ ~end => hist.chunks < MaxChunks
      /\ tx' = IF t.s_stop THEN EndStream(t) ELSE [t EXCEPT !.pc = "copy"]
      /\ hist' = [hist EXCEPT !.given = @ + n, !.chunks = Smaller(@ + 1, MaxChunks)]
      /\ UNCHANGED <<env, link, rx, phase>>

\* ... with OBEX_SuspendRequest and nothing, which ends the packet, or with
\* nothing at all, which fails the transfer unless it is suspended.
AnswerStreamNothing(suspend) ==
  /\ phase = "open" /\ tx.pc = "ask" /\ ~tx.s_stop
  /\ hist.faults < MaxFaults
  /\ hist' = [hist EXCEPT !.faults = @ + 1]
  /\ LET t == [tx EXCEPT !.s_buf = FALSE, !.suspend = @ \/ suspend]
     IN  IF t.suspend
         THEN tx' = EndStream(t) /\ UNCHANGED phase
         ELSE phase' = "failed" /\ UNCHANGED tx
  /\ UNCHANGED <<env, link, rx>>

\* As much of the stream as there is, or as there is room for.
Copied(t) ==
  LET n == Smaller(t.room, Len(t.s_data))
  IN  [t EXCEPT !.frag   = @ \o SubSeq(t.s_data, 1, n),
                !.s_data = SubSeq(@, n + 1, Len(@)),
                !.room   = IF n = Len(t.s_data) /\ t.suspend THEN 0 ELSE @ - n]

CopyStream ==
  /\ phase = "open" /\ tx.pc = "copy"
  /\ LET t == Copied(tx)
     IN  tx' = IF t.room > 0 THEN [t EXCEPT !.pc = "ask"] ELSE EndStream(t)
  /\ UNCHANGED <<env, link, rx, hist, phase>>

\* obex_object_send is called: first, and after each CONTINUE.
Send ==
  /\ phase = "open" /\ tx.pc \in {"add", "turn"} /\ ~tx.suspend
  /\ tx' = Begin(tx)
  /\ UNCHANGED <<env, link, rx, hist, phase>>

\* The packet is full or the queue empty; obex_data_request puts the common
\* header before it.  A packet with headers to follow is not the last.
FinishPacket ==
  LET size == COMMON + tx.size
  IN  /\ phase = "open" /\ tx.pc = "fill"
      /\ ~tx.addmore \/ tx.headerq = <<>>
      /\ tx' = [tx EXCEPT !.pc = "write", !.size = size, !.unsent = size]
      /\ link' = [link EXCEPT !.pkts = Append(@,
                   [op |-> IF tx.headerq = <<>> THEN "LAST" ELSE "NEXT",
                    size |-> size, items |-> tx.items])]
      /\ UNCHANGED <<env, rx, hist, phase>>

\* do_write: at most trans.mtu bytes at a time, of which the socket takes as
\* many as it likes.  USB and custom transports get the packet in one call.
Write ==
  /\ phase = "open" /\ tx.pc = "write"
  /\ \E n \in IF env.trans \in {"USB", "CUSTOM"} THEN {tx.unsent}
              ELSE 1..Smaller(LinkMtu, tx.unsent) :
       /\ tx' = [tx EXCEPT !.unsent = @ - n, !.pc = IF n = tx.unsent THEN "wait" ELSE @]
       /\ link' = [link EXCEPT !.written = @ + n]
  /\ UNCHANGED <<env, rx, hist, phase>>

WriteFails ==
  /\ phase = "open" /\ tx.pc = "write"
  /\ hist.faults < MaxFaults
  /\ hist' = [hist EXCEPT !.faults = @ + 1]
  /\ phase' = "failed"
  /\ UNCHANGED <<env, tx, link, rx>>

Resume ==
  /\ phase = "open" /\ tx.suspend /\ tx.pc \in {"turn", "wait"}
  /\ tx' = [tx EXCEPT !.suspend = FALSE]
  /\ UNCHANGED <<env, link, rx, hist, phase>>

\* OBEX_CancelRequest(self, TRUE): an ABORT follows the packets on the link.
SendAbort ==
  /\ phase = "open" /\ tx.pc \in {"turn", "wait"} /\ ~hist.aborting
  /\ hist.faults < MaxFaults
  /\ hist' = [hist EXCEPT !.faults = @ + 1, !.aborting = TRUE]
  /\ tx' = [tx EXCEPT !.pc = "wait"]
  /\ link' = [link EXCEPT !.written = @ + COMMON,
                          !.pkts = Append(@, [op |-> "ABORT", size |-> COMMON,
                                              items |-> <<>>])]
  /\ UNCHANGED <<env, rx, phase>>
-----------------------------------------------------------------------------
(* A packet is collected: obex_data_indication and obex_transport_read.     *)

\* rx_msg holds what was read of the first packet on the link and no more.
AtPacket == rx.size = link.taken

\* What is read next: the common header, then what its length says.
Need(size) == (IF size < COMMON THEN COMMON ELSE Head(link.pkts).size) - size

\* n bytes are read of which c go to rx_msg; is the packet whole?
Taken(n, c) ==
  LET size == rx.size + c
  IN  /\ link' = [link EXCEPT !.taken = @ + n]
      /\ rx' = [rx EXCEPT !.size = size,
                 !.pc = IF size >= COMMON /\ size = Head(link.pkts).size
                        THEN "parse" ELSE "read",
                 !.todo = IF size >= COMMON /\ size = Head(link.pkts).size
                          THEN Head(link.pkts).items ELSE <<>>]
      /\ UNCHANGED <<env, tx, phase>>

Readable ==
  /\ phase = "open" /\ rx.pc = "read"
  /\ AtPacket /\ link.taken < link.written

\* recv and read return what has arrived, at most what was asked for; a USB
\* transfer brings the packet.
Read ==
  /\ Readable /\ env.trans # "CUSTOM"
  /\ \E n \in IF env.trans = "USB" THEN {Head(link.pkts).size - rx.size}
              ELSE 1..Smaller(Need(rx.size), link.written - link.taken) :
       Taken(n, n)
  /\ UNCHANGED hist

\* Variant: the second read starts at the first byte of the data again.
FedTwice(n) ==
  LET first == IF rx.size < COMMON THEN Smaller(n, Need(rx.size)) ELSE 0
  IN  IF rx.size + first < COMMON THEN first
      ELSE first + Smaller(n, Need(rx.size + first))

\* What obex_data_indication takes of n bytes handed to it: up to the end of
\* the packet.
Fed(n) ==
  LET first == IF rx.size < COMMON THEN Smaller(n, Need(rx.size)) ELSE 0
  IN  IF rx.size + first < COMMON THEN first
      ELSE first + Smaller(n - first, Need(rx.size + first))

\* OBEX_CustomDataFeed with what a custom transport has received.  The bytes
\* after the end of a packet are gone.
Feed ==
  /\ Readable /\ env.trans = "CUSTOM"
  /\ \E n \in 1..(link.written - link.taken) :
       /\ Taken(n, Fed(n))
       /\ hist' = [hist EXCEPT !.overfed = @ \/ n > Fed(n)]

\* A read fails: OBEX_EV_LINKERR.  recv and read leave the room reserved for
\* them in rx_msg; a USB transfer gives back more than it reserved.
ReadFails ==
  /\ phase = "open" /\ rx.pc = "read" /\ AtPacket /\ env.trans # "CUSTOM"
  /\ rx.size >= COMMON => link.pkts # <<>>
  /\ hist.faults < MaxFaults
  /\ hist' = [hist EXCEPT !.faults = @ + 1, !.readFailed = TRUE]
  /\ rx' = [rx EXCEPT !.size = IF env.trans = "USB" THEN IF @ > 0 THEN @ - 1 ELSE 0
                               ELSE @ + Need(@)]
  /\ UNCHANGED <<env, tx, link, phase>>

\* The application lets the transfer go after OBEX_EV_LINKERR ...
GiveUp ==
  /\ phase = "open" /\ hist.readFailed /\ rx.pc = "read"
  /\ phase' = "failed"
  /\ UNCHANGED <<env, tx, link, rx, hist>>

\* ... or reads on.  Where a packet begins is lost.
Misread ==
  /\ phase = "open" /\ rx.pc = "read" /\ ~AtPacket
  /\ phase' = "misread"
  /\ UNCHANGED <<env, tx, link, rx, hist>>
-----------------------------------------------------------------------------
(* The headers are taken out again: obex_object_receive.                    *)

\* Headers are kept with what was received of them.
Received == rx.rm \o rx.headerq

Keep(h) == Append(rx.headerq, h)

\* obex_object_receive_body: rx_body and the fragment.
Body(item) == rx.body \o item.data

\* obex_object_receive_stream: how often OBEX_EV_STREAMAVAIL without data, the
\* end of the stream, is delivered.  An empty fragment is not delivered unless
\* it is the last one.
EndsStream(item) == IF item.kind = "BODY_END" THEN 1 ELSE 0

\* One header of the packet, taken from its front.
Receive(item) ==
  LET r == [rx EXCEPT !.todo = Tail(@)]
      h == [no |-> item.no, data |-> item.data]
  IN
  /\ \/ /\ item.kind = "HEADER"
        /\ rx' = [r EXCEPT !.headerq = Keep(h)]
        /\ UNCHANGED hist
     \/ \* The application gets a stream in pieces, until it has cancelled.
        /\ item.kind # "HEADER" /\ env.streams
        /\ rx' = r
        /\ hist' = IF rx.abort THEN hist
                   ELSE [hist EXCEPT !.streamed = @ \o item.data,
                                     !.eos = @ + EndsStream(item)]
     \/ /\ item.kind = "BODY" /\ ~env.streams
        /\ rx' = [r EXCEPT !.body = Body(item)]
        /\ UNCHANGED hist
     \/ /\ item.kind = "BODY_END" /\ ~env.streams
        /\ rx' = [r EXCEPT !.body = <<>>,
                    !.headerq = Keep([no |-> item.no, data |-> Body(item)])]
        /\ UNCHANGED hist
     \/ \* malloc fails for the element of the whole body: the body is freed
        \* and the packet is answered as if it were there.
        /\ item.kind = "BODY_END" /\ ~env.streams
        /\ hist.faults < MaxFaults
        /\ hist' = [hist EXCEPT !.faults = @ + 1,
                                !.dropped = Len(Received) + 1]
        /\ rx' = [r EXCEPT !.body = <<>>]
  /\ UNCHANGED <<env, tx, link, phase>>

\* malloc fails for a header or for rx_body: a parse error.
ReceiveFails(item) ==
  /\ item.kind = "HEADER" \/ ~env.streams
  /\ hist.faults < MaxFaults
  /\ hist' = [hist EXCEPT !.faults = @ + 1]
  /\ phase' = "refused"
  /\ UNCHANGED <<env, tx, link, rx>>

ReceiveHeader ==
  /\ phase = "open" /\ rx.pc = "parse" /\ rx.todo # <<>>
  /\ Receive(Head(rx.todo)) \/ ReceiveFails(Head(rx.todo))

\* buf_reuse(rx_msg) once the packet is handled.
NextPacket == [rx EXCEPT !.pc = "read", !.size = 0]

\* The packet is handled.  The sender gets its turn unless it was the last.
PacketHandled ==
  LET p == Head(link.pkts)
  IN  /\ phase = "open" /\ rx.pc = "parse" /\ rx.todo = <<>>
      /\ rx' = NextPacket
      /\ link' = [pkts |-> Tail(link.pkts), written |-> link.written - p.size,
                  taken |-> link.taken - p.size]
      /\ phase' = CASE p.op = "ABORT" \/ rx.abort -> "aborted"
                    [] p.op = "LAST" /\ ~rx.abort -> "done"
                    [] p.op = "NEXT" /\ ~rx.abort -> phase
      /\ tx' = [tx EXCEPT !.pc = IF p.op = "NEXT" /\ ~hist.aborting THEN "turn" ELSE @]
      /\ UNCHANGED <<env, hist>>

\* The receiver cancels: it is the client of a GET.
Cancel ==
  /\ phase = "open" /\ ~rx.abort /\ env.streams
  /\ hist.faults < MaxFaults
  /\ rx' = [rx EXCEPT !.abort = TRUE]
  /\ hist' = [hist EXCEPT !.faults = @ + 1]
  /\ UNCHANGED <<env, tx, link, phase>>

\* The application looks at its object in the callbacks that end the handling
\* of a packet.
LooksAtObject ==
  phase \in {"open", "done"} /\ rx.pc = "read" /\ rx.size = 0

\* OBEX_ObjectGetNextHeader keeps what it gave away ...
GetNextHeader ==
  /\ LooksAtObject /\ rx.headerq # <<>>
  /\ rx' = [rx EXCEPT !.rm = Append(@, Head(rx.headerq)), !.headerq = Tail(@)]
  /\ UNCHANGED <<env, tx, link, hist, phase>>

\* Variant: the headers not read yet are lost.
ReparsedAnyTime(r) == [r EXCEPT !.headerq = r.rm, !.rm = <<>>]

\* ... so that OBEX_ObjectReParseHeaders can put it back when all are read.
Reparsed(r) ==
  IF r.headerq # <<>> THEN r ELSE [r EXCEPT !.headerq = r.rm, !.rm = <<>>]

ReparseHeaders ==
  /\ LooksAtObject /\ Received # <<>>
  /\ rx' = Reparsed(rx)
  /\ UNCHANGED <<env, tx, link, hist, phase>>
-----------------------------------------------------------------------------
Init ==
  /\ env \in [trans : Transports, streams : BOOLEAN, nonhdr : NonHeaderSizes]
  /\ tx = NewSender(env.nonhdr)
  /\ link = [pkts |-> <<>>, written |-> 0, taken |-> 0]
  /\ rx = [pc |-> "read", size |-> 0, todo |-> <<>>, headerq |-> <<>>,
           rm |-> <<>>, body |-> <<>>, abort |-> FALSE]
  /\ hist = [added |-> <<>>, fits |-> TRUE, given |-> 0, chunks |-> 0,
             short |-> FALSE, faults |-> 0, aborting |-> FALSE,
             readFailed |-> FALSE, overfed |-> FALSE, dropped |-> 0,
             streamed |-> <<>>, eos |-> 0]
  /\ phase = "open"

\* obex_object_send and the answers it gets from the application run to the
\* end; so do the writes.
Sending ==
  \/ FillHeader
  \/ \E n \in ChunkSizes, end \in BOOLEAN : AnswerStream(n, end)
  \/ CopyStream
  \/ Send
  \/ FinishPacket
  \/ Write
  \/ Resume

Receiving ==
  \/ Read
  \/ Feed
  \/ Misread
  \/ ReceiveHeader
  \/ PacketHandled

Faults ==
  \/ \E suspend \in BOOLEAN : AnswerStreamNothing(suspend)
  \/ WriteFails
  \/ SendAbort
  \/ ReadFails
  \/ GiveUp
  \/ Cancel

\* The transfer is over.
Ended == phase \in Ends /\ UNCHANGED vars

Next ==
  \/ AddHeaders
  \/ Sending
  \/ Receiving
  \/ Faults
  \/ GetNextHeader
  \/ ReparseHeaders
  \/ Ended

Spec == Init /\ [][Next]_vars

\* Each side goes on with what it has begun and what it can read; suspended
\* transfers are resumed.
FairSpec == Spec /\ WF_vars(Sending) /\ WF_vars(Receiving)
-----------------------------------------------------------------------------
\* The sizes of a packet's headers together.
SizeOf(items) ==
  LET size[n \in Nat] == IF n = 0 THEN 0 ELSE size[n - 1] + items[n].size
  IN  size[Len(items)]

TypeOK ==
  /\ env \in [trans : Transports, streams : BOOLEAN, nonhdr : NonHeaderSizes]
  /\ tx \in Sender
  /\ link \in [pkts : Seq(Packet), written : Nat, taken : Nat]
  /\ rx \in [pc : {"read", "parse"}, size : Nat, todo : Seq(Item),
             headerq : Seq([no : Nat, data : Seq(Nat)]),
             rm : Seq([no : Nat, data : Seq(Nat)]),
             body : Seq(Nat), abort : BOOLEAN]
  /\ hist \in [added : Seq(Element), fits : BOOLEAN, given : Nat,
               chunks : 0..MaxChunks, short : BOOLEAN, faults : 0..MaxFaults,
               aborting : BOOLEAN, readFailed : BOOLEAN, overfed : BOOLEAN,
               dropped : Nat, streamed : Seq(Nat), eos : Nat]
  /\ phase \in Ends \cup {"open"}

\* What the receiver reads is the packet the sender wrote, however the bytes
\* were split; only a read that failed or data fed beyond the end of a packet
\* can make it lose its place (obex_data_indication).
Framed ==
  (~AtPacket \/ phase = "misread") => hist.readFailed \/ hist.overfed

\* The largest packet: mtu_tx, over IrDA the whole frames in it.
Limit == IF env.trans = "IRDA" /\ MtuTx > LinkMtu
         THEN (MtuTx \div LinkMtu) * LinkMtu ELSE MtuTx

\* What a packet has before its headers besides the common header.
NonHeader(p) == p.size - COMMON - SizeOf(p.items)

\* "Calc how many bytes of headers we can fit in this package"
\* (obex_object_send): a packet is no larger than the limit but for what is not
\* counted, the non-header data of CONNECT and SETPATH and three bytes of a
\* body that ended in it before other headers.  When less than the header of a
\* body is left the count wraps.
PacketsFit ==
  /\ ~hist.short => \A i \in 1..Len(link.pkts) :
       LET p     == link.pkts[i]
           ended == \E j \in 1..Len(p.items) - 1 : p.items[j].kind = "BODY_END"
       IN  /\ NonHeader(p) \in {0, env.nonhdr}
           /\ p.size <= Limit + NonHeader(p) + (IF ended THEN SEQHDR ELSE 0)
  /\ phase = "overrun" => Limit - COMMON - SizeOf(tx.items) \in 1..2

\* "In this command all headers must fit in one packet!" (obex_object_addheader
\* with OBEX_FL_FIT_ONE_PACKET): then they do, where packets are not cut to the
\* frames of IrDA.
FitsOnePacket ==
  hist.fits /\ env.trans # "IRDA"
    /\ (\A i \in 1..Len(hist.added) : ~hist.added[i].suspend) =>
  \A i \in 1..Len(link.pkts) : link.pkts[i].op # "NEXT"

\* The bytes of a body are kept and given to the application without a gap.
InOrder ==
  /\ rx.body = Numbers(0, Len(rx.body))
  /\ hist.streamed = Numbers(0, Len(hist.streamed))

\* A receiver that streams is told the end of the stream once, after all of it
\* and before the transfer is done.
EndOfStreamLast ==
  /\ hist.eos <= 1
  /\ hist.eos = 1 => Len(hist.streamed) = hist.given
  /\ (phase = "done" /\ env.streams /\ ~rx.abort
        /\ \E i \in 1..Len(hist.added) : hist.added[i].kind \in {"BODY", "STREAM"})
     => hist.eos = 1

\* A body arrives as it was given, however it was cut into packets and whatever
\* failed on the way: its bytes in order, whole when it is a header of the
\* object (obex_object_receive_body), and when it is streamed with one end
\* (OBEX_EV_STREAMAVAIL of obex_object_receive_stream).
BodyWhole ==
  /\ InOrder
  /\ EndOfStreamLast
  /\ \A i \in 1..Len(Received) :
       LET h == Received[i]
       IN  hist.added[h.no].kind \in {"BODY", "STREAM"} =>
             h.data = Numbers(0, hist.given)

\* The headers the receiver is to find in the object.
Expected ==
  SelectSeq(hist.added, LAMBDA h : h.kind # "EMPTY" /\
              ~(env.streams /\ h.kind \in {"BODY", "STREAM"}))
NumbersOf(s) == [i \in 1..Len(s) |-> s[i].no]

\* Until a body is dropped for want of memory, the headers arrive whole and in
\* order, and the transfer is done only when all are there.
Pipe ==
  INSTANCE HeaderPipe WITH
    Headers <- 1..MaxHeaders,
    given   <- NumbersOf(Expected),
    got     <- LET got == NumbersOf(Received)
               IN  IF hist.dropped = 0 THEN got ELSE SubSeq(got, 1, hist.dropped - 1),
    end     <- CASE hist.dropped # 0 \/ phase \notin {"open", "done"} -> "failed"
                 [] hist.dropped = 0 /\ phase \in {"open", "done"} -> phase
ImplementsPipe == Pipe!Spec

\* A header that never fits a packet cut to the frames of IrDA, though it was
\* accepted: empty packets are sent for ever.
NeverFits(h) == Plain(h) /\ RoomInPacket < h.length

\* Every transfer that is begun comes to an end.
Completes ==
  tx.pc = "fill" ~> \/ phase # "open"
                    \/ \E i \in 1..Len(hist.added) : NeverFits(hist.added[i])
=============================================================================
