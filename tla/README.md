# A TLA+ model of OpenOBEX

OpenOBEX is a C library for the Object Exchange protocol: a handle (`obex_t`)
connects to a peer over IrDA, TCP, Bluetooth, USB or a transport of the
application's own, and sends or serves requests (CONNECT, DISCONNECT, PUT, GET,
SETPATH, ABORT), each made of one or more packets in both directions. This
directory specifies its core in TLA+, checks small instances with TLC and proves
the theorems that do not depend on the size of the instance with TLAPS.

## The system

### Inventory

| Component | State | Operations | What makes it correct | Module |
|---|---|---|---|---|
| Client engine, `lib/obex_client.c` | mode and state of the handle, `self->object` | `obex_client`: start a request, take a response, continue, finish | one packet per CONTINUE; one end per request; the answer reported is the answer given | `ObexSession` |
| Server engine, `lib/obex_server.c` | the same | `obex_server`: hint, check, receive, request, send the response, abort | OBEX_EV_REQ only with the whole request; SUCCESS only after it; a bad packet leaves no half-open state | `ObexSession` |
| Objects, `lib/obex_object.c`, `obex_header.c` | header queues, opcodes, `suspend`, `continue_received`, `first_packet_sent`, `abort`, stream position | `addheader`, `send`, `receive`, `suspend`, `resume`, `getnextheader` | nothing lost, doubled or reordered; packets fit the MTU (not with non-header data, see `PacketsFit`); the last packet says so | `ObexSession` (turns), `ObexWire` (bytes) |
| Request control, `lib/obex_main.c` | receive buffer `rx_msg` | `obex_deliver_event`, `data_request`, `data_indication`, `cancelrequest` | packets put together whatever the reads return; a cancel leaves the peers in agreement | the same |
| Connect frames, `lib/obex_connect.c` | `mtu_tx` | insert and parse the connect frame | never send more than the peer receives | `ObexSession` |
| Public interface, `lib/obex.c` | the handle | `OBEX_*` | calls refused when they cannot be served; accepting moves the connection once | `ObexSession`, `ObexWire`, `ObexTransport` |
| Data buffers, `lib/databuffer.c` | head, data and tail space of a buffer; lists | reserve, insert, remove, resize, reuse | the spaces add up to the allocation; bytes keep their order | `DataBuffer` |
| Transport, `lib/obex_transport.c`, `inobex.c`, `irobex.c`, `btobex.c`, `usbobex.c`, `usb1obex.c` | descriptors `fd`, `serverfd`, `writefd`, `connected`; USB interfaces, devices and claims | connect, listen, accept, read, write, disconnect; find, list, free interfaces | a descriptor has one owner and is not used after it is gone; `connected` tells the truth | `ObexTransport`, `ObexSockets`, `ObexUsb`, `UsbDiscovery` |
| GLib binding, `glib/` | the pending request, the transfer buffer, the events, `ObexClient` | connect, get, put, read, write, flush, close, setpath, delete | what is read is what arrived, in order (the last packet cannot be read, see `glib_last_packet`); each request is told its own answer | `ObexGlib` |
| ircp, `ircp/` | the file being sent or received, the directories | synchronous client, server | a file reported as sent is stored, where it belongs; both ends end | `Ircp` |
| Programs, `apps/` | menus, options | | | |

How they interact. The library is single threaded. The application calls it
(`OBEX_Request`, `OBEX_HandleInput`, ...) and it calls the application back
(`eventcb`, through `obex_deliver_event`) from the middle of its handlers; in a
callback the application may call the library again, on the same handle. Two
processes interact by packets, each handle reading only when its application
calls `OBEX_HandleInput`. The object of a request is owned by the handle while
the request runs and freed with the event that ends it.

What is hard: code after a callback that relies on what was true before it;
requests started, suspended, resumed and cancelled at every point, also inside
callbacks; an ABORT that crosses a response; a link or an allocation that fails
in the middle; a handle used again afterwards; a half-received request; the two
sides' agreement on the turn, the MTU and the outcome. PROJECT.json lists these
hazards at the lines where they bite.

### Modules

| Module | What it is | Source |
|---|---|---|
| `ObexExchange` | abstract: requests issued one at a time, each served at most once, answered once, the answer told to the client | what the events promise |
| `ObexSession` | the two handles, the packets between them, the applications' calls | `obex_client.c`, `obex_server.c`, `obex_main.c`, `obex_object.c`, `obex_connect.c`, `obex.c` |
| `ObexSessionProofs` | the inductive invariant of `ObexSession` and its theorems | |
| `ObexExchangeProofs` | whose turn it is while nothing fails: the invariant, and the refinement of `ObexExchange` | |
| `ByteDeque` | abstract: a string of bytes that grows and shrinks at both ends | what the names of the `buf_` functions promise |
| `DataBuffer` | the data buffers: their memory, the room in it, every function | `databuffer.c` |
| `DataBufferProofs` | the inductive invariant of `DataBuffer`, its theorems and the refinement | |
| `HeaderPipe` | abstract: headers given at one end arrive whole and in order at the other | what `OBEX_ObjectAddHeader` and `OBEX_ObjectGetNextHeader` promise |
| `ObexWire` | one object on its way: headers, packets, writes, reads | `obex_object.c`, `obex_header.c`, `obex_main.c`, `obex_transport.c` |
| `ObexSockets` | descriptors and the calls of the TCP, IrDA and Bluetooth transports | `inobex.c`, `irobex.c`, `btobex.c` |
| `UsbDiscovery` | pure: the OBEX interfaces in the descriptors of a bus, and a reference for them | `usbobex.c`, `usb1obex.c`, `usbutils.c` |
| `ObexUsb` | lists, devices, claims and contexts of the USB transport | `usbobex.c`, `usb1obex.c` |
| `ObexTransport` | composes `ObexSockets` and `ObexUsb` under the calls of the interface | `obex_transport.c`, `obex.c` |
| `ObexTransportProofs` | who owns descriptors and devices, what connected handles have, how a descriptor is lost: inductive invariants and theorems | |
| `ObexWireProofs` | types, where the bytes of a packet are, and the headers in a packet and the room for them: invariants and theorems of `ObexWire` | |
| `ObexBodyProofs` | the bytes of a body from the application that gives them to the one that gets them, on top of it | |
| `Ircp` | both ends of ircp, and the link between them | `ircp/` |
| `IrcpProofs` | where the two ends are in the walk and what the server has of a file: the inductive invariant of `Ircp` and its theorems | |
| `ObexGlib` | an `ObexClient` in a main loop | `glib/obex-lowlevel.c`, `glib/obex-client.c` |
| `ObexGlibProofs` | the inductive invariant of `ObexGlib` and its theorems | |
| `MC...` | the instance of the module named for TLC | |

The modules meet at the interfaces of the code. `ObexSession` takes a header
queue as a number of packets; `ObexWire` says how many packets a queue is and that
what is in them arrives. `ObexWire` takes from `ObexSession` that the sender has
its next turn when its packet was handled. Both rely on the buffers of `DataBuffer`
doing what `ByteDeque` says, and on a descriptor that is a connection while it is
held (`ObexTransport`). `Ircp` and `ObexGlib` are applications: they see a library
that sends one packet, waits for its answer, and reports one end of each request,
which is what `ObexSession` establishes (`ImplementsExchange`, `EndsOnce`).

## ObexSession

**State.** `obex[h]` holds what `struct obex` and `struct obex_object` say about
a request: mode, state, `mtu_tx`, and the object with its opcodes, flags and
queues. `stack[h]` is the C stack cut at the callbacks: one frame for each
callback being delivered, with the label where its handler goes on. `chan[h]`
are the packets on their way to `h`, `link[h]` what its descriptor is. `crashed`
collects the handles that dereferenced a missing object; such a process takes no
more steps. `seen`, and the fields `id` and `n` of objects and packets, are
history: they say what the applications were told, for the properties to
compare. Nothing in the handlers reads them, except that the identity of an
object a handler kept a pointer to is compared by `id` (`ReturnResume`).

**Steps.** A handler is a chain of atomic steps, cut where the code calls
`obex_deliver_event`. Each step works on a *context* (the state of its handle,
its frames, its input, and what it hands out) and `Commit` makes that the next
state. The operators follow the functions: `ObjectSend` is the set of outcomes of
`obex_object_send`, `ClientRec` the `STATE_REC` branch of `obex_client`,
`ServerFinal` the conditional fallthrough into `STATE_SEND`, and the `Return...`
actions what follows each callback. `DeliverLast` is `obex_deliver_event` with
`del` TRUE: the object is gone from the handle before the callback runs.

**Data.** One entry of a header queue is one packet's worth of headers. A
`"stream"` entry fills as many packets as the application feeds it; a
`"suspend"` entry is one flagged OBEX_FL_SUSPEND. The stream callbacks are not
frames of their own: what OBEX_EV_STREAMEMPTY may answer (data, the last data,
suspend, nothing) are the outcomes of `Fills`, and a suspend in
OBEX_EV_STREAMAVAIL is the same as one between packets (`Suspend`). Fragments
carry the number of the request and of the fragment, so that what a side has
received can be compared with what the other has sent.

**The applications** may do what the code lets them, with these limits, all
named constants or guards: commands, queues and answers from small sets; a
refusal is a single packet and a CONNECT is answered in a single packet (the
comment at `obex_server.c:216` assumes so); the answer is chosen in REQHINT,
REQCHECK or REQ; headers of a response are given in REQ. Which application
suspends and cancels, and when, are the constants `Suspenders`,
`NiceCancellers`, `HardCancellers`, `CancelsLate`, `SuspendsFirst`,
`SuspendsLate`, `AddsLate` and `CallsBack`. In the runs only requests are made inside
callbacks; suspends need no permission, they deliver no event.

**Failures.** A write fails or is lost on a broken link (`Writes`), memory for
received headers or a new object is missing (`AllocFails`), a stream ends
unexpectedly (`StreamFails`), the link breaks and what was on its way arrives or
not (`LinkBreaks`), and both sides connect again (`Reconnect`), with the old
handle where `ReusedHandles` says so and otherwise with a new one.

An operator marked *Variant* is not part of the model: it is a way the operator
after it might have been written wrongly. PROJECT.json pairs each property of a
passing run with one, under which TLC finds the property violated.

## DataBuffer

A buffer is a record with the fields of `struct databuffer`: `mem` is the
allocation, byte by byte, `head`, `avail` and `tail` the room in front, for
either side and behind, `size` the bytes held, `data` the pointer as an offset.
Each function is an operator from a buffer to a buffer (with, for the two that
reserve, whether they return NULL), and each action one call; `InsertBegin` and
`InsertEnd` include the assertion that a NULL fails, after which nothing more is
called. `Moved`, `Copied` and `Realloc` do what memmove, memcpy and realloc do;
fresh memory holds `Junk`. Arithmetic is on the naturals: no buffer of the
library comes near the range of `size_t`. A buffer resized to nothing has no
memory, which is how the model says that its pointers are NULL, so it starts
with one byte at least.

The library gives each buffer to one handle or one header and calls the
functions one after the other, so there is nothing to interleave; what is hard
is that room moves between three places and the bytes between two addresses in
any order of calls, and that realloc fails. `ByteDeque` is what a caller relies
on: `Content`, the bytes from the data on, changes at its ends and nowhere else.

## ObexWire

**State.** `tx` is the sender's object (its queue, `totallen`, the stream) and the
packet `obex_object_send` is making of it; `link` the packets written, and how many
bytes of them are written and read; `rx` the receiver's `rx_msg`, what is left to
parse of it, `rx_headerq` and `rx_body`. `phase` is how the transfer ended, `hist`
what was added and what went wrong. `env` is chosen once: the transport, whether
the receiver streams, the non-header data.

**Steps.** `AddHeaders` is the application building its object with and without
OBEX_FL_FIT_ONE_PACKET and OBEX_FL_SUSPEND. `Send`, `FillHeader`, `AnswerStream`,
`CopyStream` and `FinishPacket` are `obex_object_send` cut at each header, each
question to the application and the end; `Write` is one turn of the loop of
`do_write`, `Read` and `Feed` one call of `obex_data_indication` with data of a
descriptor or of a custom transport, `ReceiveHeader` one turn of
`obex_object_receive`. Two numbers of the code wrap: the `uint16_t` left of a packet
(`Take`) and the `unsigned int` maxlen (`HUGE` stands for it).

**Data.** A body is the sequence of the numbers of its bytes, so a lost, doubled or
reordered byte shows; other headers are a number and a size. Sizes are those of the
structures in `obex_header.h`.

**Left out.** Responses (they are packed and parsed by the same functions), and what
is read of a packet whose place was lost: the transfer is over as `"misread"`.

## ObexTransport

**State.** Per handle `type`, `connected`, `keepserver`, the three descriptors and
whether a peer address is set; of the operating system `table`, what each number
is. For USB per handle the list it found (`interfaces`), the interface it is to use
(`usb`), the device (`dev`) and what it has claimed; for the process the library
context and whether it `crashed`. `kept`, `served` and `replaced` are history.

**Steps.** One action is one call of the interface, with each way it may fail; the
world opens and closes descriptors of its own, connects to a listening socket and
sends. A new descriptor is the lowest unused number, so that a number used after it
was closed is soon somebody else's. `ObexSockets` has, for each of the three socket
transports, its own listen, accept, connect and disconnect, since they differ in
what they undo. The lists of USB interfaces are what `find_interfaces` computes from
the bus given; `CanCarry` is the reference it is compared with.

**Left out.** Names, addresses, IAS entries, strings of descriptors, and the data
sent and received. Windows sockets behave as the others do.

## Ircp

`Client` is the program `ircp` (the walk of `dirtraverse.c`, `ircp_put`,
`cli_sync_request` and the callback), `Server` is `ircp -r`. Between them are one
packet each way and an object at each end, which is what the library is to its
applications. A visit is a file to put or a directory to go into or out of, with the
directory it is met in, and `todo` is what is left of the walk as far as it is known:
when a directory was entered, its entries and the way out of it take the place of its
visit (`Follows`), as `visit_dir` calls itself only then. So the walk needs no recursive
operator, and files and directories are any records of a set `Nodes`, of any depth. That
`Here` is a directory, that a directory holds nodes, and that `None` is none of the
values it is told from are the assumptions. The chunks of a file
carry its name, so that what is stored can be compared with what was read. Faults
(`faults`) are an answer that takes more than twenty seconds, a failing read, open,
chdir, create or write, and a broken link; a behaviour has up to `MaxFaults` kinds
of them, each as often as it likes. `srv->finished` is what the allocation holds.

The server's `dirs` are the directories it has made, so that a file which had to take
another name (`mkstemp`, when a directory has its own) is not in the way of that
directory, as `ircp_checkdir` looks at the real names. An argument that is a block device
or a socket passes the test of `ircp_put` for a directory (`st_mode & S_IFDIR`), cannot be
entered, and sends the directory ircp was called in.

Left out: names that are not plain ones (`ircp_nameok` is not reached by what the
client sends), the discovery of the peer, and the messages for the user.

## ObexGlib

`self` is the context of `obex-lowlevel.c` together with what `obex-client.c` and
the handle know. An action is a call of the application, an answer read by
`obex_client_callback`, the delivery of one event, or the idle source. The
operators carry the names of the functions and give the states a call may lead to.
The bytes of a GET carry its number and their place.

What the code does to a PUT shapes the model. `obex_put` suspends its object before
it is requested, and then nothing is ever sent (the run `suspended_before_request`):
`obex_writestream` is never called, and everything queued behind a PUT waits. So
`Completes` excepts PUT. Other things the code does are in the model as they are:
the last packet of a GET cannot be read since its object is gone by then (the run
`glib_last_packet`; `ReadsInOrder` is about the others); a refused
CONNECT leaves the state at `"connect"` for good; `connected` is never reset; a link
error is not told to the watch; `obex_abort` refuses every command, as its condition
is always true, so there is no abort.

Left out: `obex_client_finalize` (it leaves its source attached to the main loop),
connection ids, times and sizes, failures of memory, and a server that puts two
bodies into one packet (OpenOBEX does not).

## What the runs check

Every bound counts events of the applications, not of the protocol: a request
takes as many packets as its queue makes it.

| Run | Instance | Result |
|---|---|---|
| `session_exchange` | CONNECT, DISCONNECT, PUT (a GET differs in its name only); 2 requests; queues empty, of 2 packets, with 2 suspends by flag, a stream of up to 2 fragments; 2 suspends by either side, at any point while there is more to send; requests also from callbacks, nested 2 deep; answers SUCCESS, FORBIDDEN and the default | lock-step, somebody who can go on, whole requests and agreeing answers (`Orderly`), agreed MTU; with `continue_received` set it is that side's turn (`ContinueIsOurTurn`), at every point where `obex_object_resume` reads it; implements `ObexExchange`; every request ends |
| `session_faults` | one cancel or failure of any kind at any point, but an abort that crosses the last response; 2 requests, responses of a stream or of 3 packets, reconnect with the client's handle reused | no missing object, ends reported once and in agreement, aborts stop the data, every request ends |
| `buffer_ends` | 2 values of a byte, strings of up to 3, allocations of up to 5 (`MaxTotal`); realloc to more fails or not | the room adds up, the data pointer is current; implements `ByteDeque` |
| `wire_packets` | packets of 12 bytes, IrDA frames of 5; up to 2 headers of each kind and of sizes that fit, fill and exceed a packet, one of them accepted and never sent over IrDA; 2 bytes of non-header data; streams of up to 2 chunks; one suspend, cancel or failure | packets are within the limit but for what is not counted (non-header data, the end of a body), are read as written, headers and bodies arrive whole or the transfer fails; implements `HeaderPipe`; every transfer ends |
| `descriptors` | 2 handles, 3 descriptors; each transport alone, or descriptors given by the application beside Bluetooth or a custom transport; USB with both libraries and two devices; handles are interchangeable (symmetry) | each descriptor has one owner; `connected` is right; descriptors are lost and devices used too late only in the known ways |
| `ircp` | four lists of arguments (nested directories, a file and a directory of one name in either order, a socket, an empty file), up to 3 kinds of faults | files go where they belong, are not mixed, are stored when reported; both ends end |
| `glib_client` | 3 requests of any kind, GETs of up to 2 packets of up to 2 bytes, buffer of 2 | reads in order, answers told in order, every request ends |
| `suspended_before_request` | finding | a request suspended before it is made is never sent |
| `resumed_server_put` | finding | a resumed server ends the request it is receiving |
| `server_reused` | finding | a server handle used again after a link error has no object |
| `glib_last_packet` | finding | the last packet of a GET cannot be read when OBEX_CLIENT_COND_IN tells of it |
| `accept_overwrites` | finding | an ignored OBEX_EV_ACCEPTHINT does not keep the next connection from being accepted, over the first |

Some invariants name their exceptions, each a way the code goes wrong that the
comment of the property describes: non-header data and three bytes of a body's end are
not counted (`PacketsFit`), a body is dropped for want of memory (`ImplementsPipe`), a
client keeps its flag after its last packet (`ContinueIsOurTurn`), the last packet of a
GET (`ReadsInOrder`), a header that never fits an IrDA packet (`Completes` of `ObexWire`),
descriptors that are overwritten (`LosesOnlyOverwritten`), a context that is ended
for all handles (`CrashesOnlyKnown`), a timeout, a failed read and a failed write of
ircp (`Unmixed`, `ReportedIsStored`), a walk left inside of a directory (`InPlace`). What
the properties say is that, in the models, there is no other. Where the repository's own
code or documentation relies on the exception not happening, a run without it expects the
violation: `glib_last_packet` and `accept_overwrites`.

Two requests are enough for what one leaves behind to meet the next (state, MTU,
`rx` headers, a late packet); two entries of a queue give a first, a next and a
last packet; a nesting of two callbacks has a call inside a callback that itself
delivers an event; two suspends allow one on each side or one after the other on
the same; one fault is put at every point of every behaviour. No run depends on
the values of the MTUs: the client receives more than the server may send and
the server less than the client may, so both sides of the comparison in
`obex_parse_connect_header` are taken, and `MtuAgreed` is proved for all values.

For a buffer, five bytes hold room of all three kinds and a byte at the same time,
strings of different length at both ends, and a resize that stops within each of
them; the theorems lift the bound.

On the wire nine bytes of a packet are left for headers, seven over IrDA: the sizes
chosen fill them, leave one or two bytes, and need several packets; two headers have
one follow the other in a packet and across packets, also after a body. Splitting
writes and reads at every byte is in `Write` and `Read`, not in a bound.

Two handles are a server and the one it splits off, or two users of the same bus;
three descriptors are a listening socket, its connection and one that is reused.
Closing fails once, over Bluetooth, whose code for it is that of the others. The bus
has a telephone with two services and a device whose interfaces are all unusable in
different ways. `Owned` and `CrashesOnlyKnown` are proved for all of these, and so
are the invariants of ircp for the trees, arguments and faults of the next paragraph.

Three kinds of faults in ircp allow one at the client, one at the server and one of
the link together; two levels of directories are what a walk has to find its way
back from. Three requests of the binding are one in progress, one waiting and one
that is refused, or three in a row; two packets of a GET are one that is read before
the next comes and the last.

The systems stop when all is done or a process has crashed, so the runs do not report
a deadlock (but `wire_packets` does, where the end of a transfer is a step of its
own); that nobody waits for ever is `NotStuck` and `Completes`.

For an ABORT to meet a server in STATE_SEND its response must last longer than the
packets it sends before the ABORT reaches it: the three packets of `MCLastingQueues`.

**Fairness.** `Fairness` of `ObexSession` is weak fairness of: callbacks returning
(and closing the transport in the events of `ClosesOn`, and answering with
`OBEX_ObjectSetRsp`), `OBEX_HandleInput` on a handle with a packet or a lost
connection, and `OBEX_ResumeRequest` by an application that has suspended. The
documentation of `OBEX_HandleInput` asks for the second ("you should call this
function until the request has finished", `obex.c:438`), the rest is what a suspend
and a callback mean. `ObexWire` has the same of its `Sending` and `Receiving`: the
loops of the code, the application's answers and reads. In `Ircp` both programs call
`OBEX_HandleInput` in a loop until they are finished (`Client`, `Server`), a timeout
is never needed. In `ObexGlib` the server answers and the main loop runs
(`MainLoop`), and the application reads what has arrived (`Read`), which is what
OBEX_CLIENT_COND_IN tells it to do. Nothing is assumed of requests, cancels, failures
or reconnects.

**What the passing runs leave out**, because the code does not survive it:

- A suspend of an object that has nothing more to send (`SuspendsLate`), or an
  OBEX_FL_SUSPEND on the last header: after its last packet `obex_object_resume`
  leaves `continue_received` set, and a second suspend and resume sends again, in
  the other side's turn.
- An abort that crosses the server's last response (`CancelsLate`): the SUCCESS is
  taken as the answer to the ABORT, and the client reports OBEX_EV_ABORT for a
  request the server has completed; the ABORT then reaches a server that is idle, as in
  the next but one. `session_faults` has the aborts while the request still has packets
  to send, and those while the response has more than are on their way
  (`ResponseLasts`).
- A client that goes on with the same connection after OBEX_EV_PARSEERR (`ClosesOn`
  without it): the server compares only the command of a packet, so it takes a second GET
  for the rest of the first, whose answer the client is then told as its own.
- A refusal that crosses an ABORT: the server is idle again, takes the ABORT for
  a new request and answers it, and the client, idle as well by then, takes the
  answer for a request, and so on. `session_faults` answers with SUCCESS only.
- Hard cancels in a server's callback: `obex_server` dereferences
  `self->object` after each of them.
- Nice cancels of a server: `obex_cancelrequest` does not look at the mode, so a server
  sends an ABORT request and listens no more (`obex_main.c:357` to `366`), where
  `obex.c:561` has it answer UNAUTHORIZED.
- Two nice cancels of one request: the second ABORT reaches a server that is idle
  again and takes it for a new request, and its answer is taken for the next
  request's. `session_faults` has one fault.
- Resuming a client that was suspended when its request was aborted:
  `obex_object_resume` sends the next packet without looking at `abort`.
  `session_faults` suspends nothing, and `AbortStops` assumes it of the client.
- `obex_client_close` in the middle of a GET: the next packet overwrites what is not
  read yet (`closed` in `ReadsInOrder`).

## What is proved

`ObexSessionProofs` proves, for every value of the constants that satisfies the
assumptions (any commands, queues, answers, application behaviour, MTUs and
bounds):

- `TypeCorrect`: `Spec => []TypeOK`.
- `MtuAgreement`: `Spec => []MtuAgreed`, no handle ever sends with an MTU larger
  than its peer's receive MTU.
- `ClientSendIsDead`: `Spec => []ClientNeverSends`, so the `STATE_SEND` branch of
  `obex_client` (lines 56 to 104) is dead code and leaving it out loses nothing.

The three share the inductive invariant `IInv`. Neither property is inductive
alone. The MTU a handle takes over comes out of a packet, so the invariant must
say that every connect frame in flight, and every packet remembered in a frame
of the stack, carries its sender's own receive MTU: `PacketFrom(h)` types the
packets of each sender separately and `CtxOf(h)` a context with its peer's
packets on the way in and its own on the way out. STATE_START is left only after
the callback of `OBEX_Request` returns, so `Starting` relates the state to a
frame labelled `"start"` on the stack. The proof follows the code: one lemma for
each operation on contexts (`SetObjectCtx`, `DeliverCtx`, `ObjectSendCtx`, ...),
one for each handler (it commits a context of its kind, or crashes: `Commits`),
`CommitInv` from contexts back to states, and `NextInv` with one step per action.
The assumptions used are that the handles differ, the queues are sequences, the
bounds are numbers, and every MTU is at least OBEX_MINIMUM_MTU (which
`OBEX_SetTransportMTU` enforces).

It proves two more, about every combination of suspends, cancels, failed writes and
allocations, broken links and reconnects, of which `session_faults` tries one at a
time:

- `NothingMissing`: `Proper => (Spec => []NoCrash)`. `Proper` says that the
  application does not call the library inside callbacks, closes the transport on
  OBEX_EV_LINKERR and does not use a server's handle again after that. Without the
  last a handler does miss its object, which is the run `server_reused`.
- `AbortStops`: `Proper /\ Steady(Cli) => (Spec => AbortStopsData)`, where
  `Steady(Cli)` says that the client suspends nothing.

They share a second invariant, `Sound`. The handlers never test `self->object`, so a
state other than IDLE must mean that there is one. This is not so at two places: after
OBEX_EV_LINKERR the object is gone and the state is what it was, and a client that
connects again with that handle keeps the state. `Guards` therefore says of a handle
without an object that it is idle, or closed, or a client's on a connection where
nothing was sent and the server is new (`Vacant`): no packet can reach it before the
next `OBEX_Request` sets the state. `Guarded` says what a callback in progress knows
(its object is the handle's, which is what `ReturnResume` and the labels of
`obex_server` rely on) and that an aborted request of a client that does not suspend is
in STATE_REC, outside of callbacks and not suspended. One lemma for each handler says
what it `Leaves`, `LeavesSound` takes that back to the states.

`ObexExchangeProofs` proves, for any commands, header queues, answers, and numbers of
requests, suspends and nested callbacks, under the hypothesis `Calm`:

- `TurnInvariance`: `Spec => []InTurn`, the inductive invariant.
- `Order`: `Spec => []Orderly`, that is `LockStep`, `NotStuck` and `Answered`.
- `EndsOnceInTurn`: `Spec => [](NoCrash /\ EndsOnce)`.
- `ContinueMeansOurTurn`: `Spec => []ContinueIsOurTurn`; both sides may suspend and
  resume, and the property is about what a resume then does.
- `Refinement`: `Spec => ImplementsExchange`.

`Calm` is what the run `session_exchange` is an instance of: nothing is cancelled and
nothing fails; a transfer is suspended while it has something to send, so not before its
request (see the run `suspended_before_request`) and not after its last packet, and
resumed outside of callbacks; and an application does not give CONTINUE as its last
answer. Requests are made inside callbacks as well. `Order` cannot be
had without it: `suspended_before_request`, `resumed_server_put` and the list of what the
runs leave out are what happens otherwise.

The invariant says whose turn it is, and `Turn` has a disjunct for each place it can
be: a request on its way (`Ask`), the server in a callback or held back by its
application (`Think`), an answer on its way (`Answer`), or the client held back
(`Hold`). At each of them it says what the objects of the two sides know of each other:
which fragments of the request and of the response were sent, are in the packet, and
have arrived (`Has`, `Arrived`). `ClientIs` and `ServerIs` say what the state of each
engine, the label it waits at and its object have to do with each other, and `Told` what
the two applications were told. The server's side changes meaning when its application is
given the request: before (`Asked`) it collects and acknowledges, after (`Serving`) the
client has nothing more to send. `continue_received` is set without being the client's
turn in one case only, a client that resumed with its last packet (`Free`).

The proof has a lemma for each operation on contexts, field by field (`...Is`), two
frame lemmas (`SrvSteps`, `CliSteps`) for what a step of one side leaves of the other's
part, a lemma for each way of passing the turn (`SrvAnswers`, `SrvEnds`, `CliAsks`,
`CliKeeps`, ...), then one for each action. Every one proves `Turns`: the invariant
after the step and that the step is one of the exchange or none (`Advances`), from which
the refinement follows.

`DataBufferProofs` proves, for all sizes, strings and outcomes of realloc:

- `TypeCorrect`: `Spec => []TypeOK`; no function claims more than the memory
  there is, so every write of the module is within the allocation.
- `NothingIsLost`, `DataIsCurrent`: the room adds up to the allocation and `data`
  is where the bytes begin, provided making an allocation smaller does not fail
  (`ShrinkFails` FALSE). When it does, `buf_resize` returns early and both are
  wrong; the other two theorems do not need the condition.
- `Refinement`: `Spec => ImplementsDeque`, every call does to the bytes what a
  step of `ByteDeque` does.

The invariant (`IInv`) is `Room` and, under the condition, `Exact`. The
refinement needs more than an invariant: `Holds` relates the bytes of two buffers
place by place in memory. It composes (`HoldsTwice`), so that a resize, a move and
a copy within one call can be followed one after the other, and four lemmas
(`LongerAtEnd`, `ShorterAtBegin`, ...) turn it into an equation of strings at the
end of the call. `ReserveEndRoom`, `ResizeRoom` and their like say what each
function does to the room and the bytes, the lemmas named `...Good` that a call
keeps the invariant and takes a step of `ByteDeque`.

`ObexTransportProofs` proves, for any handles, descriptor numbers, transports used
together, devices on the bus and number of failed closes:

- `TypeCorrect`: `Spec => []TypeOK`.
- `DescriptorsOwned`: `Spec => []Owned`; a number that no failed close has left
  behind is held in one place of one handle, open, and of the kind of that place.
- `OnlyKnownCrashes`: `Spec => []CrashesOnlyKnown`.

`Owned` is not inductive alone: which fields a handle uses depends on its type, and
`OBEX_Cleanup` and a later `OBEX_Init` change the type, so `OwnInv` adds `Place` (a
handle of another transport has no descriptor in them). The proof goes by what an
action does to the table: it leaves the sockets alone (`UsbStep`), closes numbers, or
makes a new one, which nobody holds since what is held is open. For the crashes
`CrashInv` adds `DeviceOpen`: until a crash a connected handle has its device, unless
it was replaced, so that no call but those excepted meets a device that is gone. The
assumptions used are that INVALID_SOCKET is no descriptor, that handles of USB are
handles, and that mixes are sets of transports.

The same module goes on from there:

- `ConnectedUsable`: `Spec => []ConnectedIsUsable`. `Connections` says of sockets
  that a handle which has had a listening socket is in `served`, the only way to be
  connected without a descriptor of one's own. `Claims` says of USB what a connected
  handle has of the interface it chose (two claims, an open device) and that no two
  handles have claimed the same interface. Whether what was found on the bus can carry
  OBEX is a matter of the bus; the theorem has it as a hypothesis (`FoundCanCarry`),
  which TLC evaluates for the bus of the run.
- `LosesOnly`: `Spec => LosesOnlyOverwritten`, an action property. A descriptor is
  lost only when it was in use and in the one handle the step changes (`LetGo`), which
  leaves the calls that overwrite a number, and one more: a close that failed leaves
  its number behind, the operating system may give it to a handle of descriptors
  (`"FD"`), and what that handle is given to replace it with lets somebody else's
  socket go. The property names that exception (`Mistaken`).

`ObexGlibProofs` proves, for a buffer, portions and packets of any size and any number
of requests:

- `TypeCorrect`: `Spec => []TypeOK`; what arrives never exceeds the buffer.
- `ReadsAreInOrder`: `Spec => []ReadsInOrder`.
- `AnswersAreTold`: `Spec => []Told`.

Every operator of the module gives contexts from a context, and a step is several of
them, so the invariant is a predicate of a context, `Inv(s)`, in five parts which an
operator in the middle of a step may break one at a time: `Typed`; `Waiting`, while
the link holds a request waits only behind another, and a waiting GET finds an empty
buffer; `Ordered`, what is read and what is in the buffer are together what arrived;
`HeldBack`, when a packet may arrive the buffer of a GET is empty, which is why
copying to `data_start` overwrites nothing; `Telling`, an answer not told yet is the
last one given, and `rsp` still holds it.

`ObexWireProofs` proves, for any MTU (of 16 bits, with room for a header), frames,
headers, chunks and numbers of faults:

- `WireTypes`: `Spec => []TypeOK`; no size becomes negative and no head is taken of
  an empty queue or packet.
- `PacketsStayFramed`: `Spec => []Framed`.

The invariant `Carried` adds `Transit` to the two. It says where the bytes of a packet
are: while it is made nothing is on the link; then it is the only packet there, with at
most an ABORT behind it, and its size, the bytes written and those to be written agree
(`OnLink`); the receiver has read no more than was written, and what it has of a packet
is less than the packet until it parses it (`AtReceiver`). Lemmas named `...Is` say what
an action does in terms that need none of its definitions (`FillIs`, `CopiedIs`,
`FinishIs`, `HandledIs`), and what comes after uses those. The same module goes on from there:

- `PacketsHold`: `Spec => []PacketsFit`; it compares the size of a packet, with all that
  is in it, with the limit. The invariant `Packs` says that the headers in
  the packet and what is left make up the room for them (`Balanced`), up to the three
  bytes of a body's end that `send_body` does not count, which can happen once since an
  object has one body (`OneBody`). `Weighed` says that the size of a packet is that of
  the common header, its headers and either nothing else or the non-header data.
- `OnePacket`: `Spec => []FitsOnePacket`. `Single` says that while the object is
  built its headers fit in what `addheader` counted, and while it is sent the headers
  still queued fit in what is left (`Fits`), so that no header stays for a second
  packet.

`ObexBodyProofs` proves, for the same:

- `BodyArrives`: `Spec => []BodyWhole`. The bytes of a body are numbered, so what was
  received, what is in headers on their way (`Moving`) and what the sender has left (the
  body in its queue, or its fragment and the rest of the stream) are three intervals that
  follow each other and together are what was given (`Flows`). The invariant `Journey`
  says that, while the transfer is open (`OnWay`), and that what the receiver has is in
  order (`Arrived`). `Tidy` says that nothing of the body follows its last fragment, and
  that before it the body is still in the queue; once no end is pending it was heard
  (`Heard`). There is one lemma `...Journey` for each kind of step, and `SameJourney`
  for those that move nothing.

The sizes of headers are summed by a recursive function. What such a function is of a
longer sequence needs induction, which is done here by the least number for which a
fact would not hold (`Least`, `UpTo`, from the well-foundedness of the subset order of
finite sets); `SizeAppend` is what the rest uses.

`IrcpProofs` proves, for any files and directories, any arguments and any number of
faults:

- `TypeCorrect`: `Spec => []TypeOK`.
- `WalkInStep`: `Spec => []InPlace`.
- `FilesUnmixed`: `Spec => []Unmixed`.
- `ReportedStored`: `Spec => []ReportedIsStored`.

The invariant (`IInv`) is built up in five parts, each proved from those before it.
`Typed` and `Stages` say what the variables hold and how far the client is. `Synced`
says that, until a request times out, the object in progress is the one ircp waits for.
`Place` says, while that is so, nothing was refused and the walk was not left inside of
a directory, that the server is where the walk is (`Before`, `Reaches`), for which the
visits left must fit together (`Chained`): each leaves the server where the next one is
met. `WalkGoesOn` shows that they still do when the entries of a directory are put in
front of them. `Transfer` says what the server has of the file that is sent, while
neither a timeout nor a failed read or write has happened (`Clean`): with a packet on its way it
has nothing yet, the chunks before those of the packet, or could not make the file
(`Arriving`, `Receiving`, `Denied`); with an answer on its way all that was sent
(`Answered`); what is stored stays stored (`Stored`, `StoredStays`). `PacketLands` and
`PacketAnswered` follow one packet through the calls of `ircp_srv_receive`. None of the
three safety properties is inductive alone: that a file reported as sent is stored needs
that the answer was to this file's last packet, which needs `Synced`, and where it is
stored needs `Place`.

The assumptions on constants are those named in the modules: bounds and sizes are
numbers, `MtuTx` is a `uint16_t` larger than two headers, portions of the binding fit
its buffer, and the values for "nothing" differ from the others.

Model-checked only: of `ObexSession` what happens under faults but for `NoCrash` and
`AbortStopsData`, that is `Answered` and `EndsOnce` without `Calm`;
the refinement of `HeaderPipe`; and the liveness properties, which are out of the
prover's reach (`Completes` of `Ircp` among them). The inductive invariants were also checked by TLC
on the instances of the runs.

## Plan

In this order; each module follows the functions named, and a module with proofs
keeps recursion in recursive functions.

1. `ObexSession`, `ObexExchange` and their theorems (done).
2. `DataBuffer`, `ByteDeque` and their theorems (done). The lists (`slist_append`,
   `slist_remove`) stay the sequences they are in `ObexSession`.
3. `ObexWire` and `HeaderPipe` (done).
4. `ObexTransport` with `ObexSockets`, `ObexUsb`, `UsbDiscovery` and their theorems
   (done).
5. `Ircp` and `ObexGlib` (done).
6. Theorems: types, ownership, connections and losses of descriptors, the binding,
   packets, the headers and the bodies in them, the exchange without faults and its
   refinement, no missing object and aborts under faults, ircp (done). Next the
   refinement of `HeaderPipe`, which can build on `Journey`, and what the two sides
   tell each other under faults.
