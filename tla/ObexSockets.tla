---------------------------- MODULE ObexSockets ----------------------------
(***************************************************************************)
(* The sockets of the OBEX handles of one process: the table of            *)
(* descriptors of the operating system and what the TCP, IrDA and          *)
(* Bluetooth transports (inobex.c, irobex.c, btobex.c) do with it. Every   *)
(* definition here is one call of such a transport for handle h;           *)
(* ObexTransport says when it is made. r is the value the call returns.    *)
(***************************************************************************)
EXTENDS Integers, FiniteSets

CONSTANTS
  Handle,           \* instances of obex_t
  Socket,           \* descriptor numbers
  INVALID_SOCKET,   \* -1
  MaxKept           \* bound: failed closes, per transport

ASSUME NoSuchSocket == Socket \subseteq Nat /\ INVALID_SOCKET \notin Socket

VARIABLES
  fd, serverfd, writefd,   \* per handle, as in obex_t
  addr,       \* per handle: trans.peer holds an IrDA device address
  table,      \* what the operating system knows of each number
  kept,       \* history: numbers left in a handle by a failed close
  served      \* history: handles that have listened

sockVars == <<fd, serverfd, writefd, addr, table, kept, served>>

(* "file"      opened by the application                                   *)
(* "socket"    made, neither connected nor listening                       *)
(* "listening" no connection waits, "waiting" one does                     *)
(* "connected" one end of a connection                                     *)
SocketStates ==
  {"closed", "file", "socket", "listening", "waiting", "connected"}

Number == Socket \union {INVALID_SOCKET}

SockTypeOK ==
  /\ fd \in [Handle -> Number]
  /\ serverfd \in [Handle -> Number]
  /\ writefd \in [Handle -> Number]
  /\ addr \in [Handle -> BOOLEAN]
  /\ table \in [Socket -> SocketStates]
  /\ kept \subseteq Socket
  /\ served \subseteq Handle

SockInit ==
  /\ fd = [h \in Handle |-> INVALID_SOCKET]
  /\ serverfd = [h \in Handle |-> INVALID_SOCKET]
  /\ writefd = [h \in Handle |-> INVALID_SOCKET]
  /\ addr = [h \in Handle |-> FALSE]
  /\ table = [d \in Socket |-> "closed"]
  /\ kept = {}
  /\ served = {}

(* The number open(), socket() or accept() returns is the lowest unused.   *)
Unused == {d \in Socket : table[d] = "closed"}
Lowest == {d \in Unused : \A e \in Unused : d <= e}

(* obex_delete_socket: close, unless there is nothing to close. *)
obex_delete_socket(d) == [s \in Socket |-> IF s = d THEN "closed" ELSE table[s]]

(***************************************************************************)
(* Listening. The number of an earlier listening socket is overwritten.    *)
(***************************************************************************)
(* Variant: the error code is kept as the number. *)
ListenFailsWithCode(h) ==
  /\ serverfd' = [serverfd EXCEPT ![h] = -1]
  /\ UNCHANGED table

(* No socket, or, over IrDA and Bluetooth, one that could not be bound or  *)
(* not listen and was closed again.                                        *)
ListenFails(h) ==
  /\ serverfd' = [serverfd EXCEPT ![h] = INVALID_SOCKET]
  /\ UNCHANGED table

Listens(h, d, state) ==
  /\ serverfd' = [serverfd EXCEPT ![h] = d]
  /\ table' = [table EXCEPT ![d] = state]

(* A TCP socket that could not be bound or not listen stays in serverfd. *)
inobex_listen(h) ==
  /\ \/ ListenFails(h)
     \/ \E d \in Lowest : \E state \in {"socket", "listening"} :
          Listens(h, d, state)
  /\ served' = served \union {h}
  /\ UNCHANGED <<fd, writefd, addr, kept>>

irobex_listen(h) ==
  /\ \/ ListenFails(h)
     \/ \E d \in Lowest : Listens(h, d, "listening")
  /\ served' = served \union {h}
  /\ UNCHANGED <<fd, writefd, addr, kept>>

btobex_listen(h) ==
  /\ \/ ListenFails(h)
     \/ \E d \in Lowest : Listens(h, d, "listening")
  /\ served' = served \union {h}
  /\ UNCHANGED <<fd, writefd, addr, kept>>

(***************************************************************************)
(* Accepting: accept may return r and leave number n in fd, which is       *)
(* overwritten.                                                            *)
(***************************************************************************)
Acceptable(h, n) == table[serverfd[h]] = "waiting" /\ n \in Lowest

inobex_accept(h, r, n) ==
  \/ r = -1 /\ n = INVALID_SOCKET
  \/ r = 1 /\ Acceptable(h, n)

(* The connection is kept when its packet size cannot be read. *)
irobex_accept(h, r, n) ==
  \/ r = -1 /\ n = INVALID_SOCKET
  \/ r \in {-1, 1} /\ Acceptable(h, n)

btobex_accept(h, r, n) ==
  \/ r = -1 /\ n = INVALID_SOCKET
  \/ r = 0 /\ Acceptable(h, n)

(* The connection that waited is gone however accept() ends, unless there  *)
(* was no number for it.                                                   *)
AfterAccept(h, n) ==
  [d \in Socket |->
     IF d = n THEN "connected"
     ELSE IF d = serverfd[h] /\ table[d] = "waiting" /\ Unused # {}
       THEN "listening" ELSE table[d]]

(***************************************************************************)
(* Connecting. TCP always makes a socket; IrDA and Bluetooth use the one   *)
(* in fd if there is one, which then is a connection accepted before (or   *)
(* the number of a closed one) and cannot be connected again.              *)
(***************************************************************************)
Connects(h, d) ==
  /\ d \in Lowest
  /\ fd' = [fd EXCEPT ![h] = d]
  /\ table' = [table EXCEPT ![d] = "connected"]

(* The socket that was made is closed again, fd's former number is lost. *)
inobex_connect_fails(h) ==
  /\ fd' = [fd EXCEPT ![h] = INVALID_SOCKET]
  /\ UNCHANGED table

(* Families of the address that inobex_prepare_connect, or the step for    *)
(* OBEX_TransportConnect in obex_transport_connect_request, leaves an IPv6 *)
(* address of: IPv4 is mapped; what is neither becomes the loopback        *)
(* address in the first and stays what it is in the second.                *)
Family == {"v6", "v4", "other"}
inobex_prepare_connect(family) == "v6"
PrepareForTransportConnect(family) ==
  IF family = "v4" THEN inobex_prepare_connect(family) ELSE family

inobex_connect_request(h, family, r) ==
  /\ \/ r = -1 /\ inobex_connect_fails(h)
     \/ r = 0 /\ family = "v6" /\ \E d \in Socket : Connects(h, d)
  /\ UNCHANGED <<serverfd, writefd, addr, kept, served>>

(* Variant: the number is forgotten, the socket not closed. *)
FreeSocketNumber(h) ==
  /\ fd' = [fd EXCEPT ![h] = INVALID_SOCKET]
  /\ UNCHANGED table

(* out_freesock, with a socket made or found in fd. *)
FreeSocket(h) ==
  /\ fd' = [fd EXCEPT ![h] = INVALID_SOCKET]
  /\ table' = obex_delete_socket(fd[h])

(* Without an address given or accepted from before, the devices in range  *)
(* are asked; the last that passes the filters gives its address, which    *)
(* stays for all later connections.                                        *)
irobex_discover_devices(h, found) == found \/ addr[h]

irobex_connect_request(h, r) ==
  /\ \E found \in BOOLEAN :
       /\ addr' = [addr EXCEPT ![h] = irobex_discover_devices(h, found)]
       /\ \/ r = -1 /\ FreeSocket(h)
          \/ /\ r = 1 /\ addr'[h] /\ fd[h] = INVALID_SOCKET
             /\ \E d \in Socket : Connects(h, d)
  /\ UNCHANGED <<serverfd, writefd, kept, served>>

btobex_connect_request(h, r) ==
  /\ \/ r = -1 /\ FreeSocket(h)
     \/ r = 1 /\ fd[h] = INVALID_SOCKET /\ \E d \in Socket : Connects(h, d)
  /\ UNCHANGED <<serverfd, writefd, addr, kept, served>>

(***************************************************************************)
(* Disconnecting.                                                          *)
(***************************************************************************)
(* A failed close leaves the number in fd, though it is free again for     *)
(* anybody; closing a number that is not open fails.                       *)
DisconnectSocket(h, max) ==
  /\ table' = obex_delete_socket(fd[h])
  /\ \/ /\ fd[h] \in Socket => table[fd[h]] # "closed"
        /\ fd' = [fd EXCEPT ![h] = INVALID_SOCKET]
        /\ UNCHANGED kept
     \/ /\ fd[h] \in Socket
        /\ Cardinality(kept) < max
        /\ kept' = kept \union {fd[h]}
        /\ UNCHANGED fd
  /\ UNCHANGED <<serverfd, writefd, addr, served>>

inobex_disconnect_request(h) == DisconnectSocket(h, MaxKept.INET)
irobex_disconnect_request(h) == DisconnectSocket(h, MaxKept.IRDA)
btobex_disconnect_request(h) == DisconnectSocket(h, MaxKept.BLUETOOTH)

(* The listening socket: the number is forgotten even if close fails. t is *)
(* the table at the call, the result the one after it.                     *)
ServerClosed(h, t) ==
  [d \in Socket |-> IF d = serverfd[h] THEN "closed" ELSE t[d]]
===========================================================================
