--------------------------- MODULE ObexTransport ---------------------------
(***************************************************************************)
(* The transport layer of OpenOBEX (obex_transport.c and the functions of  *)
(* obex.c that lead to it): the handles of one process, an application     *)
(* that calls the interface in any order, and the world, that connects to  *)
(* listening sockets and sends data. Which descriptors a handle owns, when *)
(* it lets them go, and when it counts as connected.                       *)
(*                                                                         *)
(* What is sent and received is the matter of ObexSession and ObexWire.    *)
(* Whether a request is under way (self->object) is left open: a function  *)
(* that refuses a busy handle is, then, not called.                        *)
(***************************************************************************)
EXTENDS ObexSockets, ObexUsb

CONSTANT Mixes   \* sets of transports that one process may use

TransportTypes == {"IRDA", "INET", "BLUETOOTH", "FD", "USB", "CUSTOM"}

ASSUME MixesAssumption == Mixes \subseteq SUBSET TransportTypes
ASSUME SameHandles == UsbHandle = Handle

VARIABLES
  types,       \* the transports this process uses
  type,        \* per handle: trans.type, or "none": there is no such handle
  connected,   \* per handle: trans.connected
  keepserver   \* per handle

apiVars == <<types, type, connected, keepserver>>
vars == <<sockVars, usbVars, apiVars>>

SocketTypes == {"IRDA", "INET", "BLUETOOTH"}
Alive == {h \in Handle : type[h] # "none"}

TypeOK ==
  /\ SockTypeOK
  /\ UsbTypeOK
  /\ types \in Mixes
  /\ type \in [Handle -> types \union {"none"}]
  /\ connected \in [Handle -> BOOLEAN]
  /\ keepserver \in [Handle -> BOOLEAN]

Init ==
  /\ SockInit
  /\ types \in Mixes
  /\ UsbInit("USB" \in types)
  /\ type = [h \in Handle |-> "none"]
  /\ connected = [h \in Handle |-> FALSE]
  /\ keepserver = [h \in Handle |-> FALSE]

(***************************************************************************)
(* The life of a handle.                                                   *)
(***************************************************************************)
OBEX_Init(h, t, keep) ==
  /\ type[h] = "none"
  /\ type' = [type EXCEPT ![h] = t]
  /\ keepserver' = [keepserver EXCEPT ![h] = keep]
  /\ UNCHANGED <<types, connected, sockVars, usbVars>>

(* OBEX_FreeInterfaces *)
OBEX_FreeInterfaces(h) ==
  /\ type[h] = "USB"
  /\ usbobex_free_interfaces(h)
  /\ UNCHANGED <<apiVars, sockVars>>

Gone(h) ==
  /\ type' = [type EXCEPT ![h] = "none"]
  /\ connected' = [connected EXCEPT ![h] = FALSE]
  /\ fd' = [fd EXCEPT ![h] = INVALID_SOCKET]
  /\ serverfd' = [serverfd EXCEPT ![h] = INVALID_SOCKET]
  /\ writefd' = [writefd EXCEPT ![h] = INVALID_SOCKET]
  /\ addr' = [addr EXCEPT ![h] = FALSE]
  /\ served' = served \ {h}
  /\ keepserver' = [keepserver EXCEPT ![h] = FALSE]
  /\ UNCHANGED <<types, kept>>

(* OBEX_Cleanup: disconnect, close the listening socket, free the list. A  *)
(* close that fails leaves no number behind, the handle is gone.           *)
CleanupSockets(h) ==
  /\ type[h] \in SocketTypes \union {"FD", "CUSTOM"}
  /\ table' = IF type[h] \in SocketTypes
                THEN ServerClosed(h, obex_delete_socket(fd[h])) ELSE table
  /\ UNCHANGED usbVars

CleanupUsb(h) ==
  /\ type[h] = "USB"
  /\ UNCHANGED table
  /\ IF (connected[h] /\ ~DeviceUsable(h)) \/ FreeCrashes(h) THEN UsbCrash
     ELSE /\ context' = Freed(h)
          /\ interfaces' = [interfaces EXCEPT ![h] = Absent]
          /\ usb' = [usb EXCEPT ![h] = Absent]
          /\ dev' = [dev EXCEPT ![h] = "none"]
          /\ claims' = [claims EXCEPT ![h] = IF connected[h] THEN {} ELSE @]
          /\ UNCHANGED <<backend, permitted, crashed, replaced>>

OBEX_Cleanup(h) ==
  /\ type[h] # "none"
  /\ CleanupSockets(h) \/ CleanupUsb(h)
  /\ Gone(h)

(***************************************************************************)
(* Listening and accepting.                                                *)
(***************************************************************************)
obex_transport_listen(h) ==
  \/ type[h] = "INET" /\ inobex_listen(h)
  \/ type[h] = "IRDA" /\ irobex_listen(h)
  \/ type[h] = "BLUETOOTH" /\ btobex_listen(h)

(* OBEX_ServerRegister and its variants for one transport. *)
OBEX_ServerRegister(h) ==
  /\ obex_transport_listen(h)
  /\ UNCHANGED <<apiVars, usbVars>>

obex_transport_accept(h, r, n) ==
  \/ type[h] = "INET" /\ inobex_accept(h, r, n)
  \/ type[h] = "IRDA" /\ irobex_accept(h, r, n)
  \/ type[h] = "BLUETOOTH" /\ btobex_accept(h, r, n)

(* obex_transport_handle_input selects over both sockets, if there are     *)
(* any, and looks at the connection first. The listening socket is ready   *)
(* when a connection waits, and also when it does not listen at all.       *)
Selects(h) == {fd[h], serverfd[h]} \ {INVALID_SOCKET}

ServerReady(h) ==
  /\ serverfd[h] \in Selects(h)
  /\ table[serverfd[h]] \notin {"closed", "listening"}

(* Whether the server socket is closed after accept has returned r. *)
ClosesServer(h, r) == r >= 0 /\ ~keepserver[h]

(* handle_input, the server branch, with no data on the connection. *)
HandleInputAccept(h) ==
  /\ type[h] \in SocketTypes
  /\ ServerReady(h)
  /\ \E r \in {-1, 0, 1}, n \in Number :
       /\ obex_transport_accept(h, r, n)
       /\ fd' = [fd EXCEPT ![h] = n]
       /\ addr' = [addr EXCEPT ![h] = @ \/ (type[h] = "IRDA" /\ n # INVALID_SOCKET)]
       /\ IF ClosesServer(h, r)
            THEN /\ table' = ServerClosed(h, AfterAccept(h, n))
                 /\ serverfd' = [serverfd EXCEPT ![h] = INVALID_SOCKET]
            ELSE table' = AfterAccept(h, n) /\ UNCHANGED serverfd
  /\ UNCHANGED <<writefd, kept, served, apiVars, usbVars>>

(* handle_input with data on the connection only reads it; over USB it     *)
(* asks the device, if the handle says it is connected.                    *)
HandleInputUsb(h) ==
  /\ type[h] = "USB"
  /\ connected[h]
  /\ UsbTransfer(h)
  /\ UNCHANGED <<apiVars, sockVars>>

(* Variant: the server keeps the number of the connection it gave away. *)
SplitsShared(h, g) == fd' = [fd EXCEPT ![g] = fd[h]]

(* OBEX_ServerAccept: handle g takes over the connection of server h. *)
Splits(h, g) ==
  /\ fd' = [fd EXCEPT ![g] = fd[h], ![h] = INVALID_SOCKET]

OBEX_ServerAccept(h, g) ==
  /\ type[h] # "none" /\ type[g] = "none"
  /\ fd[h] # INVALID_SOCKET /\ serverfd[h] # INVALID_SOCKET
  /\ Splits(h, g)
  /\ type' = [type EXCEPT ![g] = type[h]]
  /\ connected' = [connected EXCEPT ![g] = connected[h]]
  /\ keepserver' = [keepserver EXCEPT ![g] = keepserver[h]]
  /\ addr' = [addr EXCEPT ![g] = addr[h]]
  /\ UNCHANGED <<serverfd, writefd, table, kept, served, types, usbVars>>

(***************************************************************************)
(* Connecting and disconnecting.                                           *)
(***************************************************************************)
(* Variant: connected whatever was returned. *)
ConnectedAnyway(h, r) ==
  /\ connected' = [connected EXCEPT ![h] = r \in {-1, 0, 1}]
  /\ UNCHANGED <<types, type, keepserver>>

Connected(h, r) ==
  /\ connected' = [connected EXCEPT ![h] = @ \/ r >= 0]
  /\ UNCHANGED <<types, type, keepserver>>

(* obex_transport_connect_request of a handle of sockets: nothing is done  *)
(* if it is connected. family is that of the address as it was prepared.   *)
obex_transport_connect_request(h, family) ==
  /\ ~connected[h]
  /\ \E r \in {-1, 0, 1} :
       /\ \/ type[h] = "INET" /\ inobex_connect_request(h, family, r)
          \/ type[h] = "IRDA" /\ irobex_connect_request(h, r)
          \/ type[h] = "BLUETOOTH" /\ btobex_connect_request(h, r)
       /\ Connected(h, r)
  /\ UNCHANGED usbVars

(* The address of any family is copied as it was given. *)
OBEX_TransportConnect(h) ==
  \E family \in Family :
    obex_transport_connect_request(h, PrepareForTransportConnect(family))

(* The functions for one transport. *)
TcpOBEX_TransportConnect(h) ==
  /\ type[h] = "INET"
  /\ \E family \in Family :
       obex_transport_connect_request(h, inobex_prepare_connect(family))

IrOBEX_TransportConnect(h) ==
  type[h] = "IRDA" /\ obex_transport_connect_request(h, "irda")

BtOBEX_TransportConnect(h) ==
  type[h] = "BLUETOOTH" /\ obex_transport_connect_request(h, "rfcomm")

(* The connect callback of a custom transport. *)
CustomConnect(h) ==
  /\ type[h] = "CUSTOM"
  /\ Connected(h, 0)
  /\ UNCHANGED <<sockVars, usbVars>>

(* FdOBEX_TransportSetup with two descriptors of the application. *)
FdOBEX_TransportSetup(h, rfd, wfd) ==
  /\ type[h] = "FD"
  /\ table[rfd] = "file" /\ table[wfd] = "file"
  /\ fd' = [fd EXCEPT ![h] = rfd]
  /\ writefd' = [writefd EXCEPT ![h] = wfd]
  /\ Connected(h, 0)
  /\ UNCHANGED <<serverfd, addr, table, kept, served, usbVars>>

OBEX_EnumerateInterfaces(h) ==
  /\ type[h] = "USB"
  /\ usbobex_find_interfaces(h)
  /\ UNCHANGED <<apiVars, sockVars>>

(* OBEX_InterfaceConnect to interface i of the list, or again, by          *)
(* OBEX_TransportConnect, to the one in use before; a handle that never    *)
(* had one is not connected.                                               *)
OBEX_InterfaceConnect(h, i) ==
  /\ type[h] = "USB"
  /\ \/ interfaces[h] # Absent /\ i \in interfaces[h]
     \/ i = usb[h] /\ ~connected[h]
  /\ IF connected[h] THEN Replace(h, i) /\ UNCHANGED apiVars
     ELSE \E r \in {-1, 1} : usbobex_connect_request(h, i, r) /\ Connected(h, r)
  /\ UNCHANGED sockVars

(* obex_transport_disconnect_request *)
Disconnect(h) ==
  \/ type[h] = "INET" /\ inobex_disconnect_request(h) /\ UNCHANGED usbVars
  \/ type[h] = "IRDA" /\ irobex_disconnect_request(h) /\ UNCHANGED usbVars
  \/ type[h] = "BLUETOOTH" /\ btobex_disconnect_request(h) /\ UNCHANGED usbVars
  \/ type[h] = "CUSTOM" /\ UNCHANGED <<sockVars, usbVars>>
  \/ /\ type[h] = "FD"
     /\ fd' = [fd EXCEPT ![h] = INVALID_SOCKET]
     /\ writefd' = [writefd EXCEPT ![h] = INVALID_SOCKET]
     /\ UNCHANGED <<serverfd, addr, table, kept, served, usbVars>>
  \/ /\ type[h] = "USB"
     /\ IF connected[h] THEN usbobex_disconnect_request(h) ELSE UNCHANGED usbVars
     /\ UNCHANGED sockVars

OBEX_TransportDisconnect(h) ==
  /\ Disconnect(h)
  /\ connected' = [connected EXCEPT ![h] = FALSE]
  /\ UNCHANGED <<types, type, keepserver>>

(***************************************************************************)
(* The application's own descriptors, and the world.                       *)
(***************************************************************************)
FileOpens(d) ==
  /\ "FD" \in types
  /\ d \in Lowest
  /\ table' = [table EXCEPT ![d] = "file"]
  /\ UNCHANGED <<fd, serverfd, writefd, addr, kept, served, apiVars, usbVars>>

(* It closes its descriptors when no handle uses them any more. *)
FileCloses(d) ==
  /\ table[d] = "file"
  /\ \A h \in Handle : fd[h] # d /\ writefd[h] # d
  /\ table' = [table EXCEPT ![d] = "closed"]
  /\ UNCHANGED <<fd, serverfd, writefd, addr, kept, served, apiVars, usbVars>>

Arrives(d) ==
  /\ table[d] = "listening"
  /\ table' = [table EXCEPT ![d] = "waiting"]
  /\ UNCHANGED <<fd, serverfd, writefd, addr, kept, served, apiVars, usbVars>>

Next ==
  /\ ~crashed
  /\ \/ \E h \in Handle :
          \/ \E t \in types, keep \in BOOLEAN : OBEX_Init(h, t, keep)
          \/ OBEX_Cleanup(h)
          \/ OBEX_FreeInterfaces(h)
          \/ OBEX_ServerRegister(h)
          \/ HandleInputAccept(h)
          \/ HandleInputUsb(h)
          \/ \E g \in Handle : OBEX_ServerAccept(h, g)
          \/ OBEX_TransportConnect(h) \/ TcpOBEX_TransportConnect(h)
          \/ IrOBEX_TransportConnect(h) \/ BtOBEX_TransportConnect(h)
          \/ CustomConnect(h)
          \/ \E rfd, wfd \in Socket : FdOBEX_TransportSetup(h, rfd, wfd)
          \/ OBEX_EnumerateInterfaces(h)
          \/ \E i \in Interfaces : OBEX_InterfaceConnect(h, i)
          \/ OBEX_TransportDisconnect(h)
     \/ \E d \in Socket : FileOpens(d) \/ FileCloses(d) \/ Arrives(d)

Spec == Init /\ [][Next]_vars

(***************************************************************************)
(* Properties.                                                             *)
(***************************************************************************)
Holds(h, d) == d \in {fd[h], serverfd[h], writefd[h]}

(* A number that no failed close has left behind is held by one handle, in *)
(* one place, and open: what is in fd of a socket transport is always a    *)
(* connection, what is in serverfd never is one. obex.c promises that the  *)
(* server and the instance OBEX_ServerAccept splits off are independent.   *)
Owned ==
  \A d \in Socket \ kept : \A h \in Handle :
    /\ type[h] \in SocketTypes /\ fd[h] = d => table[d] = "connected"
    /\ serverfd[h] = d => table[d] \in {"socket", "listening", "waiting"}
    /\ type[h] = "FD" /\ Holds(h, d) => table[d] = "file"
    /\ Holds(h, d) /\ table[d] # "file" =>
         \A g \in Handle : Holds(g, d) => g = h

(* trans.connected tells the truth. A socket handle that never listened    *)
(* and says it is connected has its connection; a handle of descriptors    *)
(* has both. A USB handle that is connected has an open device and both of *)
(* its interfaces, which can carry OBEX and which nobody else has; one     *)
(* that is not has neither, however its connect call failed.               *)
ConnectedIsUsable ==
  ~crashed => \A h \in Handle :
    /\ connected[h] /\ type[h] \in SocketTypes /\ h \notin served =>
         fd[h] # INVALID_SOCKET
    /\ connected[h] /\ type[h] = "FD" =>
         INVALID_SOCKET \notin {fd[h], writefd[h]}
    /\ type[h] = "USB" /\ connected[h] /\ h \notin replaced =>
         /\ usb[h] \in Carrying
         /\ dev[h] = "open"
         /\ claims[h] = {Control(usb[h]), Data(usb[h])}
    /\ ~connected[h] => dev[h] # "open" /\ claims[h] = {}
    /\ claims[h] \intersect Others(h) = {}

(* A socket the library has made is out of its hands and still open.       *)
Lost(d) ==
  /\ table[d] \in {"socket", "listening", "waiting", "connected"}
  /\ \A h \in Handle : ~Holds(h, d)

Overwritten(d) ==
  \E h \in Handle :
    /\ type'[h] = type[h]
    /\ \/ fd[h] = d /\ serverfd[h] # INVALID_SOCKET
       \/ fd[h] = d /\ type[h] = "INET" /\ ~connected[h]
       \/ serverfd[h] = d /\ fd' = fd

(* A number that a failed close has left behind may be given to a handle   *)
(* of descriptors, which lets it go without closing it, whatever it names  *)
(* by then.                                                                *)
Mistaken(d) == d \in kept /\ \E h \in Handle : type[h] = "FD" /\ Holds(h, d)

(* "If you ignore this event no more incoming connections will be          *)
(* accepted" (openobex.coverpage:108, of OBEX_EV_ACCEPTHINT): while each   *)
(* handle is a server that is kept and has a connection nobody took yet,   *)
(* that is the only connection it has accepted.                            *)
AcceptedIsHeld ==
  (\A h \in Handle :
     keepserver[h] /\ ~connected[h] /\ fd[h] # INVALID_SOCKET) =>
    \A d \in Socket : table[d] = "connected" => \E h \in Handle : Holds(h, d)

(* It does not (see the run accept_overwrites), but a socket is lost in    *)
(* three ways only: a connection is accepted, or a TCP connection made by  *)
(* a handle that is not marked connected, over one that is held, or a      *)
(* handle listens twice; unless a failed close has confused its number     *)
(* with another one's.                                                     *)
LosesOnlyOverwritten ==
  [][\A d \in Socket :
       ~Lost(d) /\ Lost(d)' => Overwritten(d) \/ Mistaken(d)]_vars

(* The USB calls use no device and no context that is gone, except after a *)
(* list was freed with libusb 1.0, after OBEX_InterfaceConnect on a handle *)
(* that was connected, and with libusb 0.1 where opening is not permitted. *)
CrashesOnlyKnown ==
  crashed => \/ context = "dead"
             \/ replaced # {}
             \/ backend = "libusb-0.1" /\ ~permitted
===========================================================================
