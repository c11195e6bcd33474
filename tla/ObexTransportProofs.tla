------------------------ MODULE ObexTransportProofs ------------------------
(***************************************************************************)
(* Theorems about ObexTransport, for any handles, descriptor numbers, mix  *)
(* of transports, devices on the bus and number of failed closes.          *)
(***************************************************************************)
EXTENDS ObexTransport, TLAPS

(***************************************************************************)
(* The variables of USB keep their types.                                  *)
(***************************************************************************)
(* What there is to find does not change with the state. *)
LEMMA SameInterfaces ==
  ASSUME UNCHANGED backend
  PROVE  Interfaces' = Interfaces /\ Claimable' = Claimable
<1>1. Interfaces' = Interfaces
  BY DEF Interfaces
<1>2. QED
  BY <1>1 DEF Claimable, Control, Data

(* usbVars unchanged. *)
LEMMA UsbSame ==
  ASSUME UsbTypeOK, UNCHANGED usbVars
  PROVE  UsbTypeOK'
BY SameInterfaces DEF UsbTypeOK, usbVars

LEMMA UsbCrashInTypes ==
  ASSUME UsbTypeOK, NEW ctx \in {"none", "live", "dead"}, UsbCrashIn(ctx)
  PROVE  UsbTypeOK'
BY SameInterfaces DEF UsbTypeOK, UsbCrashIn

LEMMA UsbCrashTypes ==
  ASSUME UsbTypeOK, UsbCrash
  PROVE  UsbTypeOK'
BY UsbCrashInTypes DEF UsbTypeOK, UsbCrash

LEMMA FreedType ==
  ASSUME UsbTypeOK, NEW h \in UsbHandle
  PROVE  Freed(h) \in {"none", "live", "dead"}
BY DEF UsbTypeOK, Freed

LEMMA FreeTypes ==
  ASSUME UsbTypeOK, NEW h \in UsbHandle, usbobex_free_interfaces(h)
  PROVE  UsbTypeOK'
<1>1. CASE FreeCrashes(h)
  BY <1>1, UsbCrashTypes DEF usbobex_free_interfaces
<1>2. CASE ~FreeCrashes(h)
  <2>1. Freed(h) \in {"none", "live", "dead"}
    BY FreedType
  <2>2. QED
    BY <1>2, <2>1, SameInterfaces DEF usbobex_free_interfaces, UsbTypeOK
<1>3. QED
  BY <1>1, <1>2

LEMMA FindTypes ==
  ASSUME UsbTypeOK, NEW h \in UsbHandle, usbobex_find_interfaces(h)
  PROVE  UsbTypeOK'
<1>1. CASE FreeCrashes(h)
  BY <1>1, UsbCrashTypes DEF usbobex_find_interfaces
<1>2. CASE ~FreeCrashes(h) /\ FindCrashes(Freed(h))
  BY <1>2, FreedType, UsbCrashInTypes DEF usbobex_find_interfaces
<1>3. CASE ~FreeCrashes(h) /\ ~FindCrashes(Freed(h))
  <2>1. Freed(h) \in {"none", "live", "dead"}
    BY FreedType
  <2>2. \A list : Started(h, list) \subseteq {"none", "live", "dead"}
    BY <2>1 DEF Started
  <2>3. QED
    BY <1>3, <2>2, SameInterfaces DEF usbobex_find_interfaces, UsbTypeOK
<1>4. QED
  BY <1>1, <1>2, <1>3

(* The interfaces claimed for i are among those of the devices. *)
LEMMA ClaimsTypes ==
  ASSUME UsbTypeOK, NEW h \in UsbHandle, NEW i \in Interfaces, NEW r,
         UsbClaims(h, i, r)
  PROVE  /\ claims' \in [UsbHandle -> SUBSET Claimable]
         /\ dev' \in [UsbHandle -> {"none", "open", "garbage"}]
<1>1. Control(i) \in Claimable /\ Data(i) \in Claimable
  BY DEF Claimable
<1>2. PICK done \in 0..4 :
        /\ claims' = [claims EXCEPT ![h] =
             IF done = 4 THEN @ \union Claimed(i, done)
             ELSE (@ \union Claimed(i, done)) \ Released(i, done)]
        /\ dev' = [dev EXCEPT ![h] = IF done = 4 THEN "open" ELSE "none"]
  BY DEF UsbClaims
<1>3. Claimed(i, done) \subseteq Claimable
  BY <1>1 DEF Claimed
<1>4. claims' \in [UsbHandle -> SUBSET Claimable]
  BY <1>2, <1>3 DEF UsbTypeOK
<1>5. dev' \in [UsbHandle -> {"none", "open", "garbage"}]
  BY <1>2 DEF UsbTypeOK
<1>6. QED
  BY <1>4, <1>5

LEMMA ConnectTypes ==
  ASSUME UsbTypeOK, NEW h \in UsbHandle, NEW i \in Interfaces, NEW r,
         usbobex_connect_request(h, i, r)
  PROVE  UsbTypeOK'
<1>1. CASE UsbCrash
  BY <1>1, UsbCrashTypes
<1>2. CASE ~UsbCrash
  <2>1. /\ usb' = usbobex_prepare_connect(h, i)
        /\ UNCHANGED <<backend, permitted, context, crashed, interfaces, replaced>>
    BY <1>2 DEF usbobex_connect_request
  <2>2. UsbClaims(h, i, r) \/ UNCHANGED <<claims, dev>>
    BY <1>2 DEF usbobex_connect_request
  <2>3. /\ claims' \in [UsbHandle -> SUBSET Claimable]
        /\ dev' \in [UsbHandle -> {"none", "open", "garbage"}]
    BY <2>2, ClaimsTypes DEF UsbTypeOK
  <2>4. usb' \in [UsbHandle -> Interfaces \union {Absent}]
    BY <2>1 DEF usbobex_prepare_connect, UsbTypeOK
  <2>5. QED
    BY <2>1, <2>3, <2>4, SameInterfaces DEF UsbTypeOK
<1>3. QED
  BY <1>1, <1>2

LEMMA ReplaceTypes ==
  ASSUME UsbTypeOK, NEW h \in UsbHandle, NEW i \in Interfaces, Replace(h, i)
  PROVE  UsbTypeOK'
<1>1. UNCHANGED <<backend, permitted, context, crashed, interfaces, claims>>
  BY DEF Replace
<1>2. usb' \in [UsbHandle -> Interfaces \union {Absent}]
  BY DEF Replace, usbobex_prepare_connect, UsbTypeOK
<1>3. /\ dev' \in [UsbHandle -> {"none", "open", "garbage"}]
      /\ replaced' \subseteq UsbHandle
  BY DEF Replace, UsbTypeOK
<1>4. QED
  BY <1>1, <1>2, <1>3, SameInterfaces DEF UsbTypeOK

LEMMA DisconnectTypes ==
  ASSUME UsbTypeOK, NEW h \in UsbHandle, usbobex_disconnect_request(h)
  PROVE  UsbTypeOK'
<1>1. CASE UsbCrash
  BY <1>1, UsbCrashTypes
<1>2. CASE ~UsbCrash
  <2>1. /\ claims' = [claims EXCEPT ![h] = {}]
        /\ dev' = [dev EXCEPT ![h] = "none"]
        /\ UNCHANGED <<backend, permitted, context, crashed, interfaces, usb,
                       replaced>>
    BY <1>2 DEF usbobex_disconnect_request
  <2>2. QED
    BY <2>1, SameInterfaces DEF UsbTypeOK
<1>3. QED
  BY <1>1, <1>2

LEMMA TransferTypes ==
  ASSUME UsbTypeOK, NEW h \in UsbHandle, UsbTransfer(h)
  PROVE  UsbTypeOK'
BY UsbCrashTypes, UsbSame DEF UsbTransfer

LEMMA CleanupUsbTypes ==
  ASSUME UsbTypeOK, NEW h \in UsbHandle, CleanupUsb(h)
  PROVE  UsbTypeOK'
<1>1. CASE UsbCrash
  BY <1>1, UsbCrashTypes
<1>2. CASE ~UsbCrash
  <2>1. /\ context' = Freed(h)
        /\ interfaces' = [interfaces EXCEPT ![h] = Absent]
        /\ usb' = [usb EXCEPT ![h] = Absent]
        /\ dev' = [dev EXCEPT ![h] = "none"]
        /\ claims' = [claims EXCEPT ![h] = IF connected[h] THEN {} ELSE @]
        /\ UNCHANGED <<backend, permitted, crashed, replaced>>
    BY <1>2 DEF CleanupUsb
  <2>2. Freed(h) \in {"none", "live", "dead"}
    BY FreedType
  <2>3. QED
    BY <2>1, <2>2, SameInterfaces DEF UsbTypeOK
<1>3. QED
  BY <1>1, <1>2

(***************************************************************************)
(* The variables of sockets keep their types.                              *)
(***************************************************************************)
LEMMA LowestUnused ==
  ASSUME NEW d \in Lowest
  PROVE  d \in Socket /\ table[d] = "closed"
BY DEF Lowest, Unused

LEMMA ListenTypes ==
  ASSUME SockTypeOK, NEW h \in Handle,
         inobex_listen(h) \/ irobex_listen(h) \/ btobex_listen(h)
  PROVE  SockTypeOK'
<1>1. UNCHANGED <<fd, writefd, addr, kept>> /\ served' = served \union {h}
  BY DEF inobex_listen, irobex_listen, btobex_listen
<1>2. \/ ListenFails(h)
      \/ \E d \in Lowest : \E state \in {"socket", "listening"} :
           Listens(h, d, state)
  BY DEF inobex_listen, irobex_listen, btobex_listen
<1>3. /\ serverfd' \in [Handle -> Number]
      /\ table' \in [Socket -> SocketStates]
  BY <1>2, LowestUnused
     DEF ListenFails, Listens, SockTypeOK, Number, SocketStates
<1>4. QED
  BY <1>1, <1>3 DEF SockTypeOK

LEMMA AfterAcceptType ==
  ASSUME SockTypeOK, NEW h \in Handle, NEW n
  PROVE  AfterAccept(h, n) \in [Socket -> SocketStates]
BY DEF AfterAccept, SockTypeOK, SocketStates

LEMMA ServerClosedType ==
  ASSUME NEW h \in Handle, NEW t \in [Socket -> SocketStates]
  PROVE  ServerClosed(h, t) \in [Socket -> SocketStates]
BY DEF ServerClosed, SocketStates

LEMMA DeleteType ==
  ASSUME SockTypeOK, NEW d
  PROVE  obex_delete_socket(d) \in [Socket -> SocketStates]
BY DEF obex_delete_socket, SockTypeOK, SocketStates

LEMMA AcceptTypes ==
  ASSUME SockTypeOK, NEW h \in Handle, HandleInputAccept(h)
  PROVE  SockTypeOK'
<1>1. PICK r \in {-1, 0, 1}, n \in Number :
        /\ fd' = [fd EXCEPT ![h] = n]
        /\ addr' = [addr EXCEPT ![h] =
             @ \/ (type[h] = "IRDA" /\ n # INVALID_SOCKET)]
        /\ IF ClosesServer(h, r)
             THEN /\ table' = ServerClosed(h, AfterAccept(h, n))
                  /\ serverfd' = [serverfd EXCEPT ![h] = INVALID_SOCKET]
             ELSE table' = AfterAccept(h, n) /\ UNCHANGED serverfd
  BY DEF HandleInputAccept
<1>2. UNCHANGED <<writefd, kept, served>>
  BY DEF HandleInputAccept
<1>3. fd' \in [Handle -> Number] /\ serverfd' \in [Handle -> Number]
  BY <1>1 DEF SockTypeOK, Number
<1>4. addr' \in [Handle -> BOOLEAN]
  BY <1>1 DEF SockTypeOK
<1>5. table' \in [Socket -> SocketStates]
  BY <1>1, AfterAcceptType, ServerClosedType
<1>6. QED
  BY <1>2, <1>3, <1>4, <1>5 DEF SockTypeOK

(* What a connect request of sockets does to fd and the table. *)
SocketConnects(h) ==
  \/ fd' = [fd EXCEPT ![h] = INVALID_SOCKET] /\ UNCHANGED table
  \/ \E d \in Socket : Connects(h, d)
  \/ FreeSocket(h)

LEMMA ConnectsTypes ==
  ASSUME SockTypeOK, NEW h \in Handle, SocketConnects(h)
  PROVE  fd' \in [Handle -> Number] /\ table' \in [Socket -> SocketStates]
<1>1. CASE fd' = [fd EXCEPT ![h] = INVALID_SOCKET] /\ UNCHANGED table
  BY <1>1 DEF SockTypeOK, Number
<1>2. CASE \E d \in Socket : Connects(h, d)
  BY <1>2 DEF SockTypeOK, Number, Connects, SocketStates
<1>3. CASE FreeSocket(h)
  BY <1>3, DeleteType DEF SockTypeOK, Number, FreeSocket
<1>4. QED
  BY <1>1, <1>2, <1>3 DEF SocketConnects

LEMMA ConnectRequestTypes ==
  ASSUME SockTypeOK, NEW h \in Handle, NEW family, NEW r,
         \/ inobex_connect_request(h, family, r)
         \/ irobex_connect_request(h, r)
         \/ btobex_connect_request(h, r)
  PROVE  SockTypeOK'
<1>1. SocketConnects(h)
  BY DEF SocketConnects, inobex_connect_request, irobex_connect_request,
         btobex_connect_request, inobex_connect_fails
<1>2. UNCHANGED <<serverfd, writefd, kept, served>>
  BY DEF inobex_connect_request, irobex_connect_request, btobex_connect_request
<1>3. addr' \in [Handle -> BOOLEAN]
  BY DEF inobex_connect_request, irobex_connect_request,
         btobex_connect_request, SockTypeOK, irobex_discover_devices
<1>4. QED
  BY <1>1, <1>2, <1>3, ConnectsTypes DEF SockTypeOK

LEMMA DisconnectSocketTypes ==
  ASSUME SockTypeOK, NEW h \in Handle, NEW max, DisconnectSocket(h, max)
  PROVE  SockTypeOK'
<1>1. table' \in [Socket -> SocketStates]
  BY DeleteType DEF DisconnectSocket
<1>2. UNCHANGED <<serverfd, writefd, addr, served>>
  BY DEF DisconnectSocket
<1>3. fd' \in [Handle -> Number] /\ kept' \subseteq Socket
  BY DEF DisconnectSocket, SockTypeOK, Number
<1>4. QED
  BY <1>1, <1>2, <1>3 DEF SockTypeOK

(***************************************************************************)
(* Type correctness.                                                       *)
(***************************************************************************)
ApiTypeOK ==
  /\ types \in Mixes
  /\ type \in [Handle -> types \union {"none"}]
  /\ connected \in [Handle -> BOOLEAN]
  /\ keepserver \in [Handle -> BOOLEAN]

LEMMA TypeOKParts ==
  /\ TypeOK <=> SockTypeOK /\ UsbTypeOK /\ ApiTypeOK
  /\ TypeOK' <=> SockTypeOK' /\ UsbTypeOK' /\ ApiTypeOK'
BY DEF TypeOK, ApiTypeOK

LEMMA SockSame ==
  ASSUME SockTypeOK, UNCHANGED sockVars
  PROVE  SockTypeOK'
BY DEF SockTypeOK, sockVars

LEMMA ApiSame ==
  ASSUME ApiTypeOK, UNCHANGED apiVars
  PROVE  ApiTypeOK'
BY DEF ApiTypeOK, apiVars

LEMMA ConnectedType ==
  ASSUME ApiTypeOK, NEW h \in Handle, NEW r \in {-1, 0, 1}, Connected(h, r)
  PROVE  ApiTypeOK'
BY DEF ApiTypeOK, Connected

LEMMA InitTypes == Init => TypeOK
<1> SUFFICES ASSUME Init PROVE TypeOK
  OBVIOUS
<1> USE SameHandles
<1>1. SockTypeOK
  BY DEF Init, SockInit, SockTypeOK, Number, SocketStates
<1>2. UsbTypeOK
  BY DEF Init, UsbInit, UsbTypeOK, Backends
<1>3. ApiTypeOK
  BY DEF Init, ApiTypeOK
<1>4. QED
  BY <1>1, <1>2, <1>3, TypeOKParts

LEMMA CleanupTypes ==
  ASSUME TypeOK, NEW h \in Handle, OBEX_Cleanup(h)
  PROVE  TypeOK'
<1> USE SameHandles
<1>0. SockTypeOK /\ UsbTypeOK /\ ApiTypeOK
  BY TypeOKParts
<1>1. UsbTypeOK'
  BY <1>0, UsbSame, CleanupUsbTypes DEF OBEX_Cleanup, CleanupSockets
<1>2. table' \in [Socket -> SocketStates]
  <2>1. table \in [Socket -> SocketStates]
    BY <1>0 DEF SockTypeOK
  <2>2. ServerClosed(h, obex_delete_socket(fd[h])) \in [Socket -> SocketStates]
    BY <1>0, DeleteType, ServerClosedType
  <2>3. QED
    BY <2>1, <2>2 DEF OBEX_Cleanup, CleanupSockets, CleanupUsb
<1>3. Gone(h)
  BY DEF OBEX_Cleanup
<1>4. /\ fd' \in [Handle -> Number]
      /\ serverfd' \in [Handle -> Number]
      /\ writefd' \in [Handle -> Number]
      /\ addr' \in [Handle -> BOOLEAN]
  BY <1>0, <1>3 DEF Gone, SockTypeOK, Number
<1>5. kept' \subseteq Socket /\ served' \subseteq Handle
  BY <1>0, <1>3 DEF Gone, SockTypeOK
<1>6. ApiTypeOK'
  BY <1>0, <1>3 DEF Gone, ApiTypeOK
<1>7. SockTypeOK'
  BY <1>2, <1>4, <1>5 DEF SockTypeOK
<1>8. QED
  BY <1>1, <1>6, <1>7, TypeOKParts

LEMMA SplitTypes ==
  ASSUME TypeOK, NEW h \in Handle, NEW g \in Handle, OBEX_ServerAccept(h, g)
  PROVE  TypeOK'
<1>0. SockTypeOK /\ UsbTypeOK /\ ApiTypeOK
  BY TypeOKParts
<1>1. fd' \in [Handle -> Number] /\ addr' \in [Handle -> BOOLEAN]
  BY <1>0 DEF OBEX_ServerAccept, Splits, SockTypeOK, Number
<1>2. SockTypeOK'
  BY <1>0, <1>1 DEF OBEX_ServerAccept, SockTypeOK
<1>3. ApiTypeOK'
  BY <1>0 DEF OBEX_ServerAccept, ApiTypeOK
<1>4. UsbTypeOK'
  BY <1>0, UsbSame DEF OBEX_ServerAccept
<1>5. QED
  BY <1>2, <1>3, <1>4, TypeOKParts

LEMMA TransportConnectTypes ==
  ASSUME TypeOK, NEW h \in Handle, NEW family,
         obex_transport_connect_request(h, family)
  PROVE  TypeOK'
<1>0. SockTypeOK /\ UsbTypeOK /\ ApiTypeOK
  BY TypeOKParts
<1>1. PICK r \in {-1, 0, 1} :
        /\ \/ inobex_connect_request(h, family, r)
           \/ irobex_connect_request(h, r)
           \/ btobex_connect_request(h, r)
        /\ Connected(h, r)
  BY DEF obex_transport_connect_request
<1>2. SockTypeOK'
  BY <1>0, <1>1, ConnectRequestTypes
<1>3. ApiTypeOK'
  BY <1>0, <1>1, ConnectedType
<1>4. UsbTypeOK'
  BY <1>0, UsbSame DEF obex_transport_connect_request
<1>5. QED
  BY <1>2, <1>3, <1>4, TypeOKParts

LEMMA InterfaceConnectTypes ==
  ASSUME TypeOK, NEW h \in Handle, NEW i \in Interfaces,
         OBEX_InterfaceConnect(h, i)
  PROVE  TypeOK'
<1> USE SameHandles
<1>0. SockTypeOK /\ UsbTypeOK /\ ApiTypeOK
  BY TypeOKParts
<1>1. SockTypeOK'
  BY <1>0, SockSame DEF OBEX_InterfaceConnect
<1>2. CASE connected[h]
  <2>1. UsbTypeOK'
    BY <1>0, <1>2, ReplaceTypes DEF OBEX_InterfaceConnect
  <2>2. ApiTypeOK'
    BY <1>0, <1>2, ApiSame DEF OBEX_InterfaceConnect
  <2>3. QED
    BY <1>1, <2>1, <2>2, TypeOKParts
<1>3. CASE ~connected[h]
  <2>1. PICK r \in {-1, 1} : usbobex_connect_request(h, i, r) /\ Connected(h, r)
    BY <1>3 DEF OBEX_InterfaceConnect
  <2>2. UsbTypeOK' /\ ApiTypeOK'
    BY <1>0, <2>1, ConnectTypes, ConnectedType
  <2>3. QED
    BY <1>1, <2>2, TypeOKParts
<1>4. QED
  BY <1>2, <1>3

LEMMA TransportDisconnectTypes ==
  ASSUME TypeOK, NEW h \in Handle, OBEX_TransportDisconnect(h)
  PROVE  TypeOK'
<1> USE SameHandles
<1>0. SockTypeOK /\ UsbTypeOK /\ ApiTypeOK
  BY TypeOKParts
<1>1. ApiTypeOK'
  BY <1>0 DEF OBEX_TransportDisconnect, ApiTypeOK
<1>2. CASE /\ UNCHANGED usbVars
           /\ \/ inobex_disconnect_request(h)
              \/ irobex_disconnect_request(h)
              \/ btobex_disconnect_request(h)
  BY <1>0, <1>1, <1>2, UsbSame, DisconnectSocketTypes, TypeOKParts
     DEF inobex_disconnect_request, irobex_disconnect_request,
         btobex_disconnect_request
<1>3. CASE UNCHANGED <<sockVars, usbVars>>
  BY <1>0, <1>1, <1>3, UsbSame, SockSame, TypeOKParts
<1>4. CASE /\ fd' = [fd EXCEPT ![h] = INVALID_SOCKET]
           /\ writefd' = [writefd EXCEPT ![h] = INVALID_SOCKET]
           /\ UNCHANGED <<serverfd, addr, table, kept, served, usbVars>>
  <2>1. SockTypeOK'
    BY <1>0, <1>4 DEF SockTypeOK, Number
  <2>2. QED
    BY <1>0, <1>1, <1>4, <2>1, UsbSame, TypeOKParts
<1>5. CASE /\ usbobex_disconnect_request(h) \/ UNCHANGED usbVars
           /\ UNCHANGED sockVars
  BY <1>0, <1>1, <1>5, UsbSame, SockSame, DisconnectTypes, TypeOKParts
<1>6. QED
  BY <1>2, <1>3, <1>4, <1>5 DEF OBEX_TransportDisconnect, Disconnect

(* The application's descriptors and the connections that arrive. *)
World(d) == FileOpens(d) \/ FileCloses(d) \/ Arrives(d)

LEMMA WorldTypes ==
  ASSUME TypeOK, NEW d \in Socket, World(d)
  PROVE  TypeOK'
<1>0. SockTypeOK /\ UsbTypeOK /\ ApiTypeOK
  BY TypeOKParts
<1>1. UNCHANGED <<fd, serverfd, writefd, addr, kept, served, apiVars, usbVars>>
  BY DEF World, FileOpens, FileCloses, Arrives
<1>2. table' \in [Socket -> SocketStates]
  BY <1>0 DEF World, FileOpens, FileCloses, Arrives, SockTypeOK, SocketStates
<1>3. SockTypeOK'
  BY <1>0, <1>1, <1>2 DEF SockTypeOK
<1>4. QED
  BY <1>0, <1>1, <1>3, UsbSame, ApiSame, TypeOKParts

(***************************************************************************)
(* Who holds a number.                                                     *)
(***************************************************************************)
(* A handle has numbers only in the fields that its transport uses, and    *)
(* none, nor a connection, before it is made.                              *)
Place ==
  \A h \in Handle :
    /\ type[h] \notin SocketTypes => serverfd[h] = INVALID_SOCKET
    /\ type[h] # "FD" => writefd[h] = INVALID_SOCKET
    /\ type[h] \notin SocketTypes \union {"FD"} => fd[h] = INVALID_SOCKET
    /\ type[h] = "none" => ~connected[h]

(* The part of Owned about one handle and one number. *)
OwnedBy(h, d) ==
  /\ type[h] \in SocketTypes /\ fd[h] = d => table[d] = "connected"
  /\ serverfd[h] = d => table[d] \in {"socket", "listening", "waiting"}
  /\ type[h] = "FD" /\ Holds(h, d) => table[d] = "file"
  /\ Holds(h, d) /\ table[d] # "file" =>
       \A g \in Handle : Holds(g, d) => g = h

LEMMA OwnedParts ==
  /\ Owned <=> \A d \in Socket \ kept : \A h \in Handle : OwnedBy(h, d)
  /\ Owned' <=> \A d \in Socket \ kept' : \A h \in Handle : OwnedBy(h, d)'
BY DEF Owned, OwnedBy

(* A closed number that no failed close has left behind is nobody's. *)
LEMMA ClosedIsFree ==
  ASSUME Place, Owned, NEW d \in Socket \ kept, table[d] = "closed",
         NEW h \in Handle
  PROVE  ~Holds(h, d)
<1>1. OwnedBy(h, d)
  BY OwnedParts
<1>2. d # INVALID_SOCKET
  BY NoSuchSocket
<1>3. CASE type[h] \in SocketTypes
  BY <1>1, <1>2, <1>3 DEF OwnedBy, Holds, Place, SocketTypes
<1>4. CASE type[h] \notin SocketTypes
  BY <1>1, <1>2, <1>4 DEF OwnedBy, Holds, Place
<1>5. QED
  BY <1>3, <1>4

LEMMA SameOwned ==
  ASSUME Place, Owned, UNCHANGED <<sockVars, type, connected>>
  PROVE  Place' /\ Owned'
BY DEF Place, Owned, Holds, sockVars

LEMMA InitOwned == Init => Place /\ Owned
<1> SUFFICES ASSUME Init PROVE Place /\ Owned
  OBVIOUS
<1>1. Place
  BY DEF Init, SockInit, Place, SocketTypes
<1>2. Owned
  BY NoSuchSocket DEF Init, SockInit, Owned, Holds
<1>3. QED
  BY <1>1, <1>2

LEMMA NewHandleOwned ==
  ASSUME TypeOK, Place, Owned, NEW h \in Handle, NEW t, NEW keep,
         OBEX_Init(h, t, keep)
  PROVE  Place' /\ Owned'
<1>0. type \in [Handle -> types \union {"none"}]
  BY DEF TypeOK
<1>1. /\ type[h] = "none"
      /\ type' = [type EXCEPT ![h] = t]
      /\ UNCHANGED <<fd, serverfd, writefd, table, kept, connected>>
  BY DEF OBEX_Init, sockVars
<1>2. {fd[h], serverfd[h], writefd[h]} = {INVALID_SOCKET} /\ ~connected[h]
  BY <1>1 DEF Place, SocketTypes
<1>3. Place'
  BY <1>0, <1>1, <1>2 DEF Place
<1>4. Owned'
  BY <1>0, <1>1, <1>2, NoSuchSocket DEF Owned, Holds
<1>5. QED
  BY <1>3, <1>4

(* A number that a handle begins to use: it was closed, so nobody's. *)
LEMMA LowestIsFree ==
  ASSUME Place, Owned, NEW d \in Lowest, d \notin kept
  PROVE  \A h \in Handle : ~Holds(h, d)
BY LowestUnused, ClosedIsFree

LEMMA ListenOwned ==
  ASSUME TypeOK, Place, Owned, NEW h \in Handle, OBEX_ServerRegister(h)
  PROVE  Place' /\ Owned'
<1>0. SockTypeOK
  BY TypeOKParts
<1>1. /\ type[h] \in SocketTypes
      /\ UNCHANGED <<fd, writefd, kept, type, connected>>
  BY DEF OBEX_ServerRegister, obex_transport_listen, inobex_listen,
         irobex_listen, btobex_listen, apiVars, SocketTypes
<1>2. \/ ListenFails(h)
      \/ \E d \in Lowest : \E state \in {"socket", "listening"} :
           Listens(h, d, state)
  BY DEF OBEX_ServerRegister, obex_transport_listen, inobex_listen,
         irobex_listen, btobex_listen
<1>3. Place'
  BY <1>0, <1>1, <1>2 DEF Place, ListenFails, Listens, SockTypeOK
<1>4. CASE ListenFails(h)
  <2>1. Owned'
    BY <1>0, <1>1, <1>4, NoSuchSocket
       DEF ListenFails, Owned, Holds, SockTypeOK
  <2>2. QED
    BY <1>3, <2>1
<1>5. ASSUME NEW n \in Lowest, NEW state \in {"socket", "listening"},
             Listens(h, n, state)
      PROVE  Owned'
  <2>1. /\ serverfd' = [serverfd EXCEPT ![h] = n]
        /\ table' = [table EXCEPT ![n] = state]
    BY <1>5 DEF Listens
  <2>2. n \in Socket
    BY LowestUnused
  <2>3. SUFFICES ASSUME NEW d \in Socket \ kept, NEW g \in Handle
                 PROVE  OwnedBy(g, d)'
    BY <1>1, OwnedParts
  <2>4. OwnedBy(g, d)
    BY OwnedParts
  <2>5. CASE d = n
    <3>1. \A k \in Handle : ~Holds(k, d)
      BY <2>5, LowestIsFree
    <3>2. QED
      BY <1>0, <1>1, <2>1, <2>2, <2>5, <3>1
         DEF OwnedBy, Holds, SockTypeOK, SocketTypes
  <2>6. CASE d # n
    BY <1>0, <1>1, <2>1, <2>2, <2>4, <2>6 DEF OwnedBy, Holds, SockTypeOK
  <2>7. QED
    BY <2>5, <2>6
<1>6. QED
  BY <1>2, <1>3, <1>4, <1>5

LEMMA AcceptOwned ==
  ASSUME TypeOK, Place, Owned, NEW h \in Handle, HandleInputAccept(h)
  PROVE  Place' /\ Owned'
<1>0. SockTypeOK
  BY TypeOKParts
<1>1. /\ type[h] \in SocketTypes
      /\ serverfd[h] \in Socket
      /\ UNCHANGED <<writefd, kept, type, connected>>
  BY <1>0 DEF HandleInputAccept, ServerReady, Selects, SockTypeOK, Number,
              apiVars
<1>2. PICK r \in {-1, 0, 1}, n \in Number :
        /\ n = INVALID_SOCKET \/ Acceptable(h, n)
        /\ r >= 0 => Acceptable(h, n)
        /\ fd' = [fd EXCEPT ![h] = n]
        /\ \/ /\ r >= 0
              /\ table' = ServerClosed(h, AfterAccept(h, n))
              /\ serverfd' = [serverfd EXCEPT ![h] = INVALID_SOCKET]
           \/ table' = AfterAccept(h, n) /\ UNCHANGED serverfd
  <2>1. PICK r \in {-1, 0, 1}, n \in Number :
          /\ obex_transport_accept(h, r, n)
          /\ fd' = [fd EXCEPT ![h] = n]
          /\ IF ClosesServer(h, r)
               THEN /\ table' = ServerClosed(h, AfterAccept(h, n))
                    /\ serverfd' = [serverfd EXCEPT ![h] = INVALID_SOCKET]
               ELSE table' = AfterAccept(h, n) /\ UNCHANGED serverfd
    BY DEF HandleInputAccept
  <2>2. /\ n = INVALID_SOCKET \/ Acceptable(h, n)
        /\ r >= 0 => Acceptable(h, n)
    BY <2>1 DEF obex_transport_accept, inobex_accept, irobex_accept,
                btobex_accept
  <2>3. ClosesServer(h, r) => r >= 0
    BY DEF ClosesServer
  <2>4. QED
    BY <2>1, <2>2, <2>3
<1>3. Place'
  BY <1>0, <1>1, <1>2 DEF Place, SockTypeOK
<1>4. n # INVALID_SOCKET =>
        /\ n \in Lowest /\ n \in Socket /\ table[n] = "closed"
        /\ table[serverfd[h]] = "waiting" /\ n # serverfd[h]
  BY <1>2, LowestUnused DEF Acceptable
<1>5. SUFFICES ASSUME NEW d \in Socket \ kept, NEW g \in Handle
               PROVE  OwnedBy(g, d)'
  BY <1>1, <1>3, OwnedParts
<1>6. OwnedBy(g, d) /\ OwnedBy(h, d) /\ d # INVALID_SOCKET
  BY OwnedParts, NoSuchSocket
<1>7. writefd[h] = INVALID_SOCKET
  BY <1>1 DEF Place, SocketTypes
<1>8. CASE d = n
  <2>1. \A k \in Handle : ~Holds(k, d)
    BY <1>4, <1>6, <1>8, LowestIsFree
  <2>2. table'[d] = "connected"
    BY <1>1, <1>2, <1>4, <1>6, <1>8 DEF AfterAccept, ServerClosed
  <2>3. \A k \in Handle : Holds(k, d)' => k = h
    BY <1>0, <1>1, <1>2, <1>6, <1>8, <2>1 DEF Holds, SockTypeOK
  <2>4. ~(serverfd'[g] = d) /\ ~(type[g] = "FD" /\ Holds(g, d)')
    BY <1>0, <1>1, <1>2, <1>6, <2>1, <2>3 DEF Holds, SockTypeOK, SocketTypes
  <2>5. QED
    BY <1>1, <2>2, <2>3, <2>4 DEF OwnedBy, Holds
<1>9. CASE d # n
  <2>1. \A k \in Handle : Holds(k, d)' => Holds(k, d)
    BY <1>0, <1>1, <1>2, <1>6, <1>9 DEF Holds, SockTypeOK
  <2>2. CASE d = serverfd[h]
    <3>1. table[d] \in {"socket", "listening", "waiting"}
      BY <1>6, <2>2 DEF OwnedBy
    <3>2. \A k \in Handle : Holds(k, d) => k = h
      BY <1>6, <2>2, <3>1 DEF OwnedBy, Holds
    <3>3. CASE serverfd' = [serverfd EXCEPT ![h] = INVALID_SOCKET]
      <4>1. ~Holds(h, d)'
        BY <1>0, <1>1, <1>2, <1>6, <1>7, <1>9, <3>3 DEF Holds, SockTypeOK
      <4>2. \A k \in Handle : ~Holds(k, d)'
        BY <2>1, <3>2, <4>1
      <4>3. QED
        BY <4>2 DEF OwnedBy, Holds
    <3>4. CASE table' = AfterAccept(h, n) /\ UNCHANGED serverfd
      <4>1. table'[d] \in {"socket", "listening", "waiting"}
        BY <1>9, <2>2, <3>1, <3>4 DEF AfterAccept
      <4>2. fd'[g] # d
        BY <1>0, <1>2, <1>6, <1>9, <2>2, <3>1, <3>2
           DEF Holds, SockTypeOK, OwnedBy, Place, SocketTypes
      <4>3. type[g] = "FD" => ~Holds(g, d)'
        BY <1>1, <2>1, <3>2 DEF SocketTypes
      <4>4. QED
        BY <1>1, <2>1, <3>2, <4>1, <4>2, <4>3 DEF OwnedBy, Holds
    <3>5. QED
      BY <1>2, <3>3, <3>4
  <2>3. CASE d # serverfd[h]
    <3>1. table'[d] = table[d]
      BY <1>2, <1>9, <2>3 DEF AfterAccept, ServerClosed
    <3>2. /\ fd'[g] = d => fd[g] = d
          /\ serverfd'[g] = d => serverfd[g] = d
      BY <1>0, <1>2, <1>6, <1>9 DEF SockTypeOK
    <3>3. QED
      BY <1>1, <1>6, <2>1, <3>1, <3>2 DEF OwnedBy
  <2>4. QED
    BY <2>2, <2>3
<1>10. QED
  BY <1>8, <1>9

(* OBEX_ServerAccept moves a number from one handle to another. *)
LEMMA SplitOwned ==
  ASSUME TypeOK, Place, Owned, NEW h \in Handle, NEW g \in Handle,
         OBEX_ServerAccept(h, g)
  PROVE  Place' /\ Owned'
<1>0. SockTypeOK /\ ApiTypeOK
  BY TypeOKParts
<1>1. /\ type[h] \in SocketTypes /\ type[g] = "none" /\ g # h
      /\ type' = [type EXCEPT ![g] = type[h]]
      /\ fd' = [fd EXCEPT ![g] = fd[h], ![h] = INVALID_SOCKET]
      /\ connected' = [connected EXCEPT ![g] = connected[h]]
      /\ UNCHANGED <<serverfd, writefd, table, kept>>
  BY DEF OBEX_ServerAccept, Splits, Place
<1>2. /\ fd[g] = INVALID_SOCKET /\ serverfd[g] = INVALID_SOCKET
      /\ writefd[g] = INVALID_SOCKET /\ writefd[h] = INVALID_SOCKET
  BY <1>1 DEF Place, SocketTypes
<1>3. Place'
  BY <1>0, <1>1, <1>2 DEF Place, SockTypeOK, ApiTypeOK, SocketTypes
<1>4. SUFFICES ASSUME NEW d \in Socket \ kept, NEW k \in Handle
               PROVE  OwnedBy(k, d)'
  BY <1>1, <1>3, OwnedParts
<1>5. OwnedBy(k, d) /\ OwnedBy(h, d) /\ d # INVALID_SOCKET
  BY OwnedParts, NoSuchSocket
<1>6. CASE d = fd[h]
  <2>1. table[d] = "connected"
    BY <1>1, <1>5, <1>6 DEF OwnedBy
  <2>2. \A j \in Handle : Holds(j, d) => j = h
    BY <1>5, <1>6, <2>1 DEF OwnedBy, Holds
  <2>3. serverfd[h] # d
    BY <1>5, <2>1 DEF OwnedBy
  <2>4. \A j \in Handle : Holds(j, d)' => j = g
    BY <1>0, <1>1, <1>2, <1>5, <2>2, <2>3 DEF Holds, SockTypeOK
  <2>5. serverfd'[k] # d /\ (type'[k] = "FD" => ~Holds(k, d)')
    BY <1>0, <1>1, <1>2, <1>5, <2>2, <2>3, <2>4
       DEF Holds, SocketTypes, ApiTypeOK
  <2>6. QED
    BY <1>1, <2>1, <2>4, <2>5 DEF OwnedBy
<1>7. CASE d # fd[h]
  <2>1. \A j \in Handle : Holds(j, d)' => Holds(j, d)
    BY <1>0, <1>1, <1>7, <1>5 DEF Holds, SockTypeOK
  <2>2. fd'[k] = d => k # g /\ k # h /\ fd[k] = d
    BY <1>0, <1>1, <1>5, <1>7 DEF SockTypeOK
  <2>3. k # g => type'[k] = type[k]
    BY <1>0, <1>1 DEF ApiTypeOK
  <2>4. type'[k] = "FD" => k # g
    BY <1>0, <1>1 DEF ApiTypeOK, SocketTypes
  <2>5. QED
    BY <1>1, <1>5, <2>1, <2>2, <2>3, <2>4 DEF OwnedBy
<1>8. QED
  BY <1>6, <1>7

LEMMA FreeSocketOwned ==
  ASSUME TypeOK, Place, Owned, NEW h \in Handle, type[h] \in SocketTypes,
         fd' = [fd EXCEPT ![h] = INVALID_SOCKET],
         table' = obex_delete_socket(fd[h]),
         UNCHANGED <<serverfd, writefd, kept, type>>
  PROVE  Owned'
<1>0. SockTypeOK
  BY TypeOKParts
<1>1. SUFFICES ASSUME NEW d \in Socket \ kept, NEW k \in Handle
               PROVE  OwnedBy(k, d)'
  BY OwnedParts
<1>2. OwnedBy(k, d) /\ OwnedBy(h, d) /\ d # INVALID_SOCKET
  BY OwnedParts, NoSuchSocket
<1>3. \A j \in Handle : Holds(j, d)' => Holds(j, d)
  BY <1>0, <1>2 DEF Holds, SockTypeOK
<1>4. CASE d = fd[h]
  <2>1. table[d] = "connected"
    BY <1>2, <1>4 DEF OwnedBy
  <2>2. \A j \in Handle : Holds(j, d) => j = h
    BY <1>2, <1>4, <2>1 DEF OwnedBy, Holds
  <2>3. ~Holds(h, d)'
    BY <1>0, <1>2, <2>1 DEF OwnedBy, Holds, SockTypeOK, Place, SocketTypes
  <2>4. ~Holds(k, d)'
    BY <1>3, <2>2, <2>3
  <2>5. QED
    BY <2>4 DEF OwnedBy, Holds
<1>5. CASE d # fd[h]
  <2>1. table'[d] = table[d]
    BY <1>5 DEF obex_delete_socket
  <2>2. fd'[k] = d => fd[k] = d
    BY <1>0, <1>2 DEF SockTypeOK
  <2>3. QED
    BY <1>2, <1>3, <2>1, <2>2 DEF OwnedBy
<1>6. QED
  BY <1>4, <1>5

(* fd is forgotten, or set to a number that was closed. *)
LEMMA ConnectsOwned ==
  ASSUME TypeOK, Place, Owned, NEW h \in Handle, type[h] \in SocketTypes,
         SocketConnects(h), UNCHANGED <<serverfd, writefd, kept, type>>
  PROVE  Owned'
<1>0. SockTypeOK
  BY TypeOKParts
<1>1. CASE fd' = [fd EXCEPT ![h] = INVALID_SOCKET] /\ UNCHANGED table
  BY <1>0, <1>1, NoSuchSocket DEF Owned, Holds, SockTypeOK
<1>2. CASE FreeSocket(h)
  BY <1>2, FreeSocketOwned DEF FreeSocket
<1>3. ASSUME NEW n \in Socket, Connects(h, n)
      PROVE  Owned'
  <2>1. /\ n \in Lowest
        /\ fd' = [fd EXCEPT ![h] = n]
        /\ table' = [table EXCEPT ![n] = "connected"]
    BY <1>3 DEF Connects
  <2>2. SUFFICES ASSUME NEW d \in Socket \ kept, NEW k \in Handle
                 PROVE  OwnedBy(k, d)'
    BY OwnedParts
  <2>3. OwnedBy(k, d)
    BY OwnedParts
  <2>4. CASE d = n
    <3>1. \A j \in Handle : ~Holds(j, d)
      BY <2>1, <2>4, LowestIsFree
    <3>2. \A j \in Handle : Holds(j, d)' => j = h
      BY <1>0, <2>1, <3>1 DEF Holds, SockTypeOK
    <3>3. table'[d] = "connected" /\ serverfd'[k] # d
      BY <1>0, <2>1, <2>4, <3>1 DEF Holds, SockTypeOK
    <3>4. QED
      BY <3>2, <3>3 DEF OwnedBy, SocketTypes
  <2>5. CASE d # n
    BY <1>0, <2>1, <2>3, <2>5 DEF OwnedBy, Holds, SockTypeOK
  <2>6. QED
    BY <2>4, <2>5
<1>4. QED
  BY <1>1, <1>2, <1>3 DEF SocketConnects

LEMMA ConnectOwned ==
  ASSUME TypeOK, Place, Owned, NEW h \in Handle, NEW family,
         obex_transport_connect_request(h, family)
  PROVE  Place' /\ Owned'
<1>0. SockTypeOK /\ ApiTypeOK
  BY TypeOKParts
<1>1. PICK r \in {-1, 0, 1} :
        /\ \/ inobex_connect_request(h, family, r)
           \/ irobex_connect_request(h, r)
           \/ btobex_connect_request(h, r)
        /\ type[h] \in SocketTypes
        /\ Connected(h, r)
  BY DEF obex_transport_connect_request, SocketTypes
<1>2. UNCHANGED <<serverfd, writefd, kept, type>>
  BY <1>1 DEF inobex_connect_request, irobex_connect_request,
              btobex_connect_request, Connected
<1>3. SocketConnects(h)
  BY <1>1 DEF SocketConnects, inobex_connect_request, irobex_connect_request,
              btobex_connect_request, inobex_connect_fails
<1>4. \A k \in Handle : k # h => fd'[k] = fd[k] /\ connected'[k] = connected[k]
  BY <1>0, <1>1, <1>3
     DEF SocketConnects, Connects, FreeSocket, SockTypeOK, Connected, ApiTypeOK
<1>5. Place'
  BY <1>1, <1>2, <1>4 DEF Place, SocketTypes
<1>6. QED
  BY <1>1, <1>2, <1>3, <1>5, ConnectsOwned

LEMMA FdSetupOwned ==
  ASSUME TypeOK, Place, Owned, NEW h \in Handle, NEW rfd \in Socket,
         NEW wfd \in Socket, FdOBEX_TransportSetup(h, rfd, wfd)
  PROVE  Place' /\ Owned'
<1>0. SockTypeOK /\ ApiTypeOK
  BY TypeOKParts
<1>1. /\ type[h] = "FD" /\ table[rfd] = "file" /\ table[wfd] = "file"
      /\ fd' = [fd EXCEPT ![h] = rfd]
      /\ writefd' = [writefd EXCEPT ![h] = wfd]
      /\ connected' = [connected EXCEPT ![h] = connected[h] \/ 0 >= 0]
      /\ UNCHANGED <<serverfd, table, kept, type>>
  BY DEF FdOBEX_TransportSetup, Connected
<1>2. Place'
  BY <1>0, <1>1 DEF Place, SockTypeOK, ApiTypeOK
<1>3. SUFFICES ASSUME NEW d \in Socket \ kept, NEW k \in Handle
               PROVE  OwnedBy(k, d)'
  BY <1>1, <1>2, OwnedParts
<1>4. OwnedBy(k, d) /\ d # INVALID_SOCKET
  BY OwnedParts, NoSuchSocket
<1>5. CASE k = h
  <2>1. serverfd[k] # d
    BY <1>1, <1>4, <1>5 DEF Place, SocketTypes
  <2>2. Holds(k, d)' => table[d] = "file"
    BY <1>0, <1>1, <1>5, <2>1 DEF Holds, SockTypeOK
  <2>3. QED
    BY <1>1, <1>5, <2>1, <2>2 DEF OwnedBy, SocketTypes
<1>6. CASE k # h
  <2>1. Holds(k, d)' <=> Holds(k, d)
    BY <1>0, <1>1, <1>6 DEF Holds, SockTypeOK
  <2>2. table[d] # "file" => (Holds(h, d)' => Holds(h, d))
    BY <1>0, <1>1 DEF Holds, SockTypeOK
  <2>3. \A j \in Handle \ {h} : Holds(j, d)' <=> Holds(j, d)
    BY <1>0, <1>1 DEF Holds, SockTypeOK
  <2>4. QED
    BY <1>0, <1>1, <1>4, <1>6, <2>1, <2>2, <2>3 DEF OwnedBy, SockTypeOK
<1>7. QED
  BY <1>5, <1>6

LEMMA DisconnectSocketOwned ==
  ASSUME TypeOK, Place, Owned, NEW h \in Handle, NEW max,
         type[h] \in SocketTypes, DisconnectSocket(h, max), type' = type,
         connected' = [connected EXCEPT ![h] = FALSE]
  PROVE  Place' /\ Owned'
<1>0. SockTypeOK /\ ApiTypeOK
  BY TypeOKParts
<1>1. /\ table' = obex_delete_socket(fd[h])
      /\ UNCHANGED <<serverfd, writefd>>
  BY DEF DisconnectSocket
<1>2. Place'
  BY <1>0, <1>1 DEF DisconnectSocket, Place, SockTypeOK, ApiTypeOK, SocketTypes
<1>3. CASE fd' = [fd EXCEPT ![h] = INVALID_SOCKET] /\ UNCHANGED kept
  BY <1>1, <1>2, <1>3, FreeSocketOwned
<1>4. CASE kept' = kept \union {fd[h]} /\ UNCHANGED fd
  <2>1. SUFFICES ASSUME NEW d \in Socket \ kept', NEW k \in Handle
                 PROVE  OwnedBy(k, d)'
    BY <1>2, OwnedParts
  <2>2. d \in Socket \ kept /\ d # fd[h]
    BY <1>4
  <2>3. OwnedBy(k, d)
    BY <2>2, OwnedParts
  <2>4. table'[d] = table[d]
    BY <1>1, <2>2 DEF obex_delete_socket
  <2>5. QED
    BY <1>1, <1>4, <2>3, <2>4 DEF OwnedBy, Holds
<1>5. QED
  BY <1>3, <1>4 DEF DisconnectSocket

LEMMA TransportDisconnectOwned ==
  ASSUME TypeOK, Place, Owned, NEW h \in Handle, OBEX_TransportDisconnect(h)
  PROVE  Place' /\ Owned'
<1>0. SockTypeOK /\ ApiTypeOK
  BY TypeOKParts
<1>1. Disconnect(h) /\ type' = type /\ connected' = [connected EXCEPT ![h] = FALSE]
  BY DEF OBEX_TransportDisconnect
<1>2. CASE /\ type[h] \in SocketTypes
           /\ \/ inobex_disconnect_request(h)
              \/ irobex_disconnect_request(h)
              \/ btobex_disconnect_request(h)
  BY <1>1, <1>2, DisconnectSocketOwned
     DEF inobex_disconnect_request, irobex_disconnect_request,
         btobex_disconnect_request
<1>3. CASE UNCHANGED sockVars
  BY <1>0, <1>1, <1>3 DEF sockVars, Place, Owned, Holds, ApiTypeOK
<1>4. CASE /\ type[h] = "FD"
           /\ fd' = [fd EXCEPT ![h] = INVALID_SOCKET]
           /\ writefd' = [writefd EXCEPT ![h] = INVALID_SOCKET]
           /\ UNCHANGED <<serverfd, table, kept>>
  <2>1. Place'
    BY <1>0, <1>1, <1>4 DEF Place, SockTypeOK, ApiTypeOK
  <2>2. Owned'
    BY <1>0, <1>1, <1>4, NoSuchSocket DEF Owned, Holds, SockTypeOK
  <2>3. QED
    BY <2>1, <2>2
<1>5. QED
  BY <1>1, <1>2, <1>3, <1>4 DEF Disconnect, SocketTypes

LEMMA CleanupOwned ==
  ASSUME TypeOK, Place, Owned, NEW h \in Handle, OBEX_Cleanup(h)
  PROVE  Place' /\ Owned'
<1>0. SockTypeOK /\ ApiTypeOK
  BY TypeOKParts
<1>1. /\ type' = [type EXCEPT ![h] = "none"]
      /\ connected' = [connected EXCEPT ![h] = FALSE]
      /\ fd' = [fd EXCEPT ![h] = INVALID_SOCKET]
      /\ serverfd' = [serverfd EXCEPT ![h] = INVALID_SOCKET]
      /\ writefd' = [writefd EXCEPT ![h] = INVALID_SOCKET]
      /\ UNCHANGED kept
  BY DEF OBEX_Cleanup, Gone
<1>2. \/ table' = table
      \/ /\ type[h] \in SocketTypes
         /\ table' = ServerClosed(h, obex_delete_socket(fd[h]))
  BY DEF OBEX_Cleanup, CleanupSockets, CleanupUsb
<1>3. Place'
  BY <1>0, <1>1 DEF Place, SockTypeOK, ApiTypeOK
<1>4. SUFFICES ASSUME NEW d \in Socket \ kept, NEW k \in Handle
               PROVE  OwnedBy(k, d)'
  BY <1>1, <1>3, OwnedParts
<1>5. OwnedBy(k, d) /\ OwnedBy(h, d) /\ d # INVALID_SOCKET
  BY OwnedParts, NoSuchSocket
<1>6. ~Holds(h, d)'
  BY <1>0, <1>1, <1>5 DEF Holds, SockTypeOK
<1>7. \A j \in Handle \ {h} : Holds(j, d)' <=> Holds(j, d)
  BY <1>0, <1>1 DEF Holds, SockTypeOK
<1>8. CASE k = h
  BY <1>6, <1>8 DEF OwnedBy, Holds
<1>9. CASE k # h /\ table'[d] = table[d]
  BY <1>0, <1>1, <1>5, <1>6, <1>7, <1>9
     DEF OwnedBy, SockTypeOK, ApiTypeOK
<1>10. CASE k # h /\ table'[d] # table[d]
  <2>1. type[h] \in SocketTypes /\ d \in {fd[h], serverfd[h]}
    BY <1>2, <1>10 DEF ServerClosed, obex_delete_socket
  <2>2. Holds(h, d) /\ table[d] # "file"
    BY <1>5, <2>1 DEF OwnedBy, Holds
  <2>3. ~Holds(k, d)'
    BY <1>5, <1>7, <1>10, <2>2 DEF OwnedBy
  <2>4. QED
    BY <2>3 DEF OwnedBy, Holds
<1>11. QED
  BY <1>8, <1>9, <1>10

LEMMA WorldOwned ==
  ASSUME TypeOK, Place, Owned, NEW n \in Socket, World(n)
  PROVE  Place' /\ Owned'
<1>0. SockTypeOK
  BY TypeOKParts
<1>1. UNCHANGED <<fd, serverfd, writefd, kept, type, connected>>
  BY DEF World, FileOpens, FileCloses, Arrives, apiVars
<1>2. Place'
  BY <1>1 DEF Place
<1>3. SUFFICES ASSUME NEW d \in Socket \ kept, NEW k \in Handle
               PROVE  OwnedBy(k, d)'
  BY <1>1, <1>2, OwnedParts
<1>4. OwnedBy(k, d)
  BY OwnedParts
<1>5. CASE d # n
  <2>1. table'[d] = table[d]
    BY <1>0, <1>5 DEF World, FileOpens, FileCloses, Arrives, SockTypeOK
  <2>2. QED
    BY <1>1, <1>4, <2>1 DEF OwnedBy, Holds
<1>6. CASE d = n /\ FileOpens(n)
  <2>1. ~Holds(k, d)
    BY <1>6, LowestIsFree DEF FileOpens
  <2>2. QED
    BY <1>1, <2>1 DEF OwnedBy, Holds
<1>7. CASE d = n /\ FileCloses(n)
  <2>1. ~Holds(k, d)
    BY <1>4, <1>7 DEF FileCloses, OwnedBy, Holds
  <2>2. QED
    BY <1>1, <2>1 DEF OwnedBy, Holds
<1>8. CASE d = n /\ Arrives(n)
  <2>1. table[d] = "listening" /\ table'[d] = "waiting"
    BY <1>0, <1>8 DEF Arrives, SockTypeOK
  <2>2. QED
    BY <1>1, <1>4, <2>1 DEF OwnedBy, Holds
<1>9. QED
  BY <1>5, <1>6, <1>7, <1>8 DEF World

(***************************************************************************)
(* The inductive invariant, every step of the interface at a time.         *)
(***************************************************************************)
OwnInv == TypeOK /\ Place /\ Owned

(* The steps that leave the sockets alone. *)
UsbStep(h) ==
  \/ OBEX_FreeInterfaces(h)
  \/ HandleInputUsb(h)
  \/ OBEX_EnumerateInterfaces(h)
  \/ \E i \in Interfaces : OBEX_InterfaceConnect(h, i)

LEMMA UsbStepTypes ==
  ASSUME TypeOK, NEW h \in Handle, UsbStep(h)
  PROVE  TypeOK'
<1> USE SameHandles
<1>0. SockTypeOK /\ UsbTypeOK /\ ApiTypeOK
  BY TypeOKParts
<1>1. CASE \E i \in Interfaces : OBEX_InterfaceConnect(h, i)
  BY <1>1, InterfaceConnectTypes
<1>2. CASE OBEX_FreeInterfaces(h)
  BY <1>0, <1>2, FreeTypes, SockSame, ApiSame, TypeOKParts
     DEF OBEX_FreeInterfaces
<1>3. CASE HandleInputUsb(h)
  BY <1>0, <1>3, TransferTypes, SockSame, ApiSame, TypeOKParts
     DEF HandleInputUsb
<1>4. CASE OBEX_EnumerateInterfaces(h)
  BY <1>0, <1>4, FindTypes, SockSame, ApiSame, TypeOKParts
     DEF OBEX_EnumerateInterfaces
<1>5. QED
  BY <1>1, <1>2, <1>3, <1>4 DEF UsbStep

LEMMA UsbStepOwned ==
  ASSUME TypeOK, Place, Owned, NEW h \in Handle, UsbStep(h)
  PROVE  Place' /\ Owned'
<1>1. UNCHANGED sockVars /\ UNCHANGED type
  BY DEF UsbStep, OBEX_FreeInterfaces, HandleInputUsb,
         OBEX_EnumerateInterfaces, OBEX_InterfaceConnect, Connected, apiVars
<1>2. type[h] = "USB" /\ \A k \in Handle : k # h => connected'[k] = connected[k]
  BY DEF UsbStep, OBEX_FreeInterfaces, HandleInputUsb,
         OBEX_EnumerateInterfaces, OBEX_InterfaceConnect, Connected, apiVars,
         TypeOK
<1>3. QED
  BY <1>1, <1>2 DEF Place, Owned, Holds, sockVars

LEMMA ServerRegisterTypes ==
  ASSUME TypeOK, NEW h \in Handle, OBEX_ServerRegister(h)
  PROVE  TypeOK'
BY ListenTypes, UsbSame, ApiSame, TypeOKParts
   DEF OBEX_ServerRegister, obex_transport_listen

LEMMA HandleInputAcceptTypes ==
  ASSUME TypeOK, NEW h \in Handle, HandleInputAccept(h)
  PROVE  TypeOK'
<1>1. UNCHANGED <<apiVars, usbVars>>
  BY DEF HandleInputAccept
<1>2. QED
  BY <1>1, AcceptTypes, UsbSame, ApiSame, TypeOKParts

LEMMA NewHandleTypes ==
  ASSUME TypeOK, NEW h \in Handle, NEW t \in types, NEW keep \in BOOLEAN,
         OBEX_Init(h, t, keep)
  PROVE  TypeOK'
<1>1. UNCHANGED <<sockVars, usbVars>>
  BY DEF OBEX_Init
<1>2. ApiTypeOK'
  BY TypeOKParts DEF OBEX_Init, ApiTypeOK
<1>3. QED
  BY <1>1, <1>2, SockSame, UsbSame, TypeOKParts

LEMMA CustomConnectInv ==
  ASSUME OwnInv, NEW h \in Handle, CustomConnect(h)
  PROVE  OwnInv'
<1>0. SockTypeOK /\ UsbTypeOK /\ ApiTypeOK
  BY TypeOKParts DEF OwnInv
<1>1. /\ UNCHANGED <<sockVars, usbVars>>
      /\ Connected(h, 0) /\ type[h] = "CUSTOM"
  BY DEF CustomConnect
<1>2. TypeOK'
  BY <1>0, <1>1, SockSame, UsbSame, ConnectedType, TypeOKParts
<1>3. Place' /\ Owned'
  BY <1>0, <1>1 DEF OwnInv, Place, Owned, Holds, sockVars, Connected, ApiTypeOK
<1>4. QED
  BY <1>2, <1>3 DEF OwnInv

LEMMA FdSetupTypes ==
  ASSUME TypeOK, NEW h \in Handle, NEW rfd \in Socket, NEW wfd \in Socket,
         FdOBEX_TransportSetup(h, rfd, wfd)
  PROVE  TypeOK'
<1>0. SockTypeOK /\ UsbTypeOK /\ ApiTypeOK
  BY TypeOKParts
<1>1. SockTypeOK'
  BY <1>0 DEF FdOBEX_TransportSetup, SockTypeOK, Number
<1>2. ApiTypeOK'
  BY <1>0, ConnectedType DEF FdOBEX_TransportSetup
<1>3. UsbTypeOK'
  BY <1>0, UsbSame DEF FdOBEX_TransportSetup
<1>4. QED
  BY <1>1, <1>2, <1>3, TypeOKParts

LEMMA HandleInv ==
  ASSUME OwnInv, NEW h \in Handle,
         \/ \E t \in types, keep \in BOOLEAN : OBEX_Init(h, t, keep)
         \/ OBEX_Cleanup(h)
         \/ OBEX_ServerRegister(h)
         \/ HandleInputAccept(h)
         \/ \E g \in Handle : OBEX_ServerAccept(h, g)
  PROVE  OwnInv'
<1>0. TypeOK /\ Place /\ Owned
  BY DEF OwnInv
<1>1. CASE \E t \in types, keep \in BOOLEAN : OBEX_Init(h, t, keep)
  BY <1>0, <1>1, NewHandleTypes, NewHandleOwned DEF OwnInv
<1>2. CASE OBEX_Cleanup(h)
  BY <1>0, <1>2, CleanupTypes, CleanupOwned DEF OwnInv
<1>3. CASE OBEX_ServerRegister(h)
  BY <1>0, <1>3, ServerRegisterTypes, ListenOwned DEF OwnInv
<1>4. CASE HandleInputAccept(h)
  BY <1>0, <1>4, HandleInputAcceptTypes, AcceptOwned DEF OwnInv
<1>5. CASE \E g \in Handle : OBEX_ServerAccept(h, g)
  BY <1>0, <1>5, SplitTypes, SplitOwned DEF OwnInv
<1>6. QED
  BY <1>1, <1>2, <1>3, <1>4, <1>5

LEMMA ConnectionInv ==
  ASSUME OwnInv, NEW h \in Handle,
         \/ OBEX_TransportConnect(h) \/ TcpOBEX_TransportConnect(h)
         \/ IrOBEX_TransportConnect(h) \/ BtOBEX_TransportConnect(h)
         \/ \E rfd, wfd \in Socket : FdOBEX_TransportSetup(h, rfd, wfd)
         \/ OBEX_TransportDisconnect(h)
  PROVE  OwnInv'
<1>0. TypeOK /\ Place /\ Owned
  BY DEF OwnInv
<1>1. CASE \E family : obex_transport_connect_request(h, family)
  BY <1>0, <1>1, TransportConnectTypes, ConnectOwned DEF OwnInv
<1>2. CASE \E rfd, wfd \in Socket : FdOBEX_TransportSetup(h, rfd, wfd)
  BY <1>0, <1>2, FdSetupTypes, FdSetupOwned DEF OwnInv
<1>3. CASE OBEX_TransportDisconnect(h)
  BY <1>0, <1>3, TransportDisconnectTypes, TransportDisconnectOwned DEF OwnInv
<1>4. QED
  BY <1>1, <1>2, <1>3
     DEF OBEX_TransportConnect, TcpOBEX_TransportConnect,
         IrOBEX_TransportConnect, BtOBEX_TransportConnect

LEMMA NextInv ==
  ASSUME OwnInv, [Next]_vars
  PROVE  OwnInv'
<1>0. TypeOK /\ Place /\ Owned
  BY DEF OwnInv
<1>1. CASE UNCHANGED vars
  <2>1. UNCHANGED <<sockVars, usbVars, apiVars>>
    BY <1>1 DEF vars
  <2>2. TypeOK'
    BY <1>0, <2>1, SockSame, UsbSame, ApiSame, TypeOKParts
  <2>3. Place' /\ Owned'
    BY <1>0, <2>1, SameOwned DEF apiVars
  <2>4. QED
    BY <2>2, <2>3 DEF OwnInv
<1>2. ASSUME NEW h \in Handle, UsbStep(h)
      PROVE  OwnInv'
  BY <1>0, <1>2, UsbStepTypes, UsbStepOwned DEF OwnInv
<1>3. ASSUME NEW d \in Socket, World(d)
      PROVE  OwnInv'
  BY <1>0, <1>3, WorldTypes, WorldOwned DEF OwnInv
<1>4. QED
  BY <1>1, <1>2, <1>3, HandleInv, ConnectionInv, CustomConnectInv
     DEF Next, UsbStep, World

(* Every handle, descriptor number and USB interface keeps its type,       *)
(* whatever is called and whatever fails.                                  *)
THEOREM TypeCorrect == Spec => []TypeOK
<1>1. Init => OwnInv
  BY InitTypes, InitOwned DEF OwnInv
<1>2. OwnInv /\ [Next]_vars => OwnInv'
  BY NextInv
<1>3. OwnInv => TypeOK
  BY DEF OwnInv
<1>4. QED
  BY <1>1, <1>2, <1>3, PTL DEF Spec

(* For any number of handles, of any transports in one process: a number   *)
(* that no failed close has left behind is open and held in one place, so  *)
(* no call of one handle closes, reads or gives away another one's         *)
(* connection (obex_delete_socket, OBEX_ServerAccept).                     *)
THEOREM DescriptorsOwned == Spec => []Owned
<1>1. Init => OwnInv
  BY InitTypes, InitOwned DEF OwnInv
<1>2. OwnInv /\ [Next]_vars => OwnInv'
  BY NextInv
<1>3. OwnInv => Owned
  BY DEF OwnInv
<1>4. QED
  BY <1>1, <1>2, <1>3, PTL DEF Spec

(***************************************************************************)
(* The ways to crash.                                                      *)
(***************************************************************************)
Known ==
  \/ context = "dead"
  \/ replaced # {}
  \/ backend = "libusb-0.1" /\ ~permitted

(* Until a crash a connected handle of USB has its device, unless that was *)
(* replaced; a handle that is not made yet is not connected.               *)
DeviceOpen ==
  \A h \in Handle :
    /\ type[h] = "USB" /\ connected[h] /\ h \notin replaced => dev[h] = "open"
    /\ type[h] = "none" => ~connected[h]

CrashInv == TypeOK /\ DeviceOpen /\ (crashed => Known)

(* In each step either the process crashes of a known reason or the        *)
(* devices of the connected handles are still there.                       *)
LEMMA CrashKnown ==
  ASSUME UsbCrash, Known
  PROVE  Known'
BY DEF UsbCrash, UsbCrashIn, Known

LEMMA NotUsableIsKnown ==
  ASSUME DeviceOpen, NEW h \in Handle, type[h] = "USB", connected[h],
         ~DeviceUsable(h)
  PROVE  Known
BY DEF DeviceOpen, DeviceUsable, Known

LEMMA KnownStays ==
  ASSUME UNCHANGED <<backend, permitted, context, replaced>>, Known
  PROVE  Known'
BY DEF Known

LEMMA UsbUnchanged ==
  ASSUME CrashInv, UNCHANGED usbVars
  PROVE  crashed' => Known'
BY DEF CrashInv, Known, usbVars

LEMMA InitCrash == Init => CrashInv
<1> SUFFICES ASSUME Init PROVE CrashInv
  OBVIOUS
<1>1. DeviceOpen /\ ~crashed
  BY DEF Init, UsbInit, DeviceOpen
<1>2. QED
  BY <1>1, InitTypes DEF CrashInv

LEMMA FreeCrash ==
  ASSUME CrashInv, ~crashed, NEW h \in Handle, OBEX_FreeInterfaces(h)
  PROVE  DeviceOpen' /\ (crashed' => Known')
<1>1. UNCHANGED <<type, connected, dev, replaced>>
  BY DEF OBEX_FreeInterfaces, usbobex_free_interfaces, UsbCrash, UsbCrashIn,
         apiVars
<1>2. CASE FreeCrashes(h)
  <2>1. UsbCrash /\ Known
    BY <1>2 DEF OBEX_FreeInterfaces, usbobex_free_interfaces, FreeCrashes, Known
  <2>2. QED
    BY <1>1, <2>1, CrashKnown DEF CrashInv, DeviceOpen
<1>3. CASE ~FreeCrashes(h)
  BY <1>1, <1>3
     DEF OBEX_FreeInterfaces, usbobex_free_interfaces, CrashInv, DeviceOpen
<1>4. QED
  BY <1>2, <1>3

LEMMA FindCrash ==
  ASSUME CrashInv, ~crashed, NEW h \in Handle, OBEX_EnumerateInterfaces(h)
  PROVE  DeviceOpen' /\ (crashed' => Known')
<1>0. usbobex_find_interfaces(h) /\ UsbTypeOK /\ DeviceOpen
  BY TypeOKParts DEF OBEX_EnumerateInterfaces, CrashInv
<1>1. UNCHANGED <<type, connected, dev, replaced, backend, permitted>>
  BY <1>0 DEF OBEX_EnumerateInterfaces, usbobex_find_interfaces, UsbCrash,
              UsbCrashIn, apiVars
<1>2. DeviceOpen'
  BY <1>0, <1>1 DEF DeviceOpen
<1>3. CASE FreeCrashes(h)
  <2>1. UsbCrash /\ Known
    BY <1>0, <1>3 DEF usbobex_find_interfaces, FreeCrashes, Known
  <2>2. QED
    BY <1>2, <2>1, CrashKnown
<1>4. CASE ~FreeCrashes(h) /\ FindCrashes(Freed(h))
  <2>1. context' = Freed(h)
    BY <1>0, <1>4 DEF usbobex_find_interfaces, UsbCrashIn
  <2>2. Known'
    BY <1>0, <1>1, <1>4, <2>1
       DEF FindCrashes, Known, UsbTypeOK, Backends
  <2>3. QED
    BY <1>2, <2>2
<1>5. CASE ~FreeCrashes(h) /\ ~FindCrashes(Freed(h))
  <2>1. crashed' = crashed
    BY <1>0, <1>5 DEF usbobex_find_interfaces
  <2>2. QED
    BY <1>2, <2>1
<1>6. QED
  BY <1>3, <1>4, <1>5

LEMMA TransferCrash ==
  ASSUME CrashInv, ~crashed, NEW h \in Handle, HandleInputUsb(h)
  PROVE  DeviceOpen' /\ (crashed' => Known')
<1>1. UNCHANGED <<type, connected, dev, replaced>>
  BY DEF HandleInputUsb, UsbTransfer, UsbCrash, UsbCrashIn, apiVars, usbVars
<1>2. DeviceOpen'
  BY <1>1 DEF CrashInv, DeviceOpen
<1>3. CASE DeviceUsable(h)
  <2>1. UNCHANGED usbVars
    BY <1>3 DEF HandleInputUsb, UsbTransfer
  <2>2. crashed' => Known'
    BY <2>1, UsbUnchanged
  <2>3. QED
    BY <1>2, <2>2
<1>4. CASE ~DeviceUsable(h)
  <2>1. UsbCrash /\ type[h] = "USB" /\ connected[h] /\ DeviceOpen
    BY <1>4 DEF HandleInputUsb, UsbTransfer, CrashInv
  <2>2. Known
    BY <1>4, <2>1, NotUsableIsKnown
  <2>3. QED
    BY <1>2, <2>1, <2>2, CrashKnown
<1>5. QED
  BY <1>3, <1>4

LEMMA InterfaceConnectCrash ==
  ASSUME CrashInv, ~crashed, NEW h \in Handle, NEW i \in Interfaces,
         OBEX_InterfaceConnect(h, i)
  PROVE  DeviceOpen' /\ (crashed' => Known')
<1> USE SameHandles
<1>0. UsbTypeOK /\ ApiTypeOK /\ DeviceOpen /\ type[h] = "USB"
  BY TypeOKParts DEF CrashInv, OBEX_InterfaceConnect
<1>1. CASE connected[h]
  <2>1. /\ UNCHANGED <<type, connected, crashed>>
        /\ dev' = [dev EXCEPT ![h] = "garbage"]
        /\ replaced' = replaced \union {h}
    BY <1>1 DEF OBEX_InterfaceConnect, Replace, apiVars
  <2>2. QED
    BY <1>0, <2>1 DEF DeviceOpen, UsbTypeOK
<1>2. CASE ~connected[h]
  <2>1. PICK r \in {-1, 1} : usbobex_connect_request(h, i, r) /\ Connected(h, r)
    BY <1>2 DEF OBEX_InterfaceConnect
  <2>2. UNCHANGED <<type, backend, permitted, context, replaced>>
    BY <2>1 DEF usbobex_connect_request, Connected, UsbCrash, UsbCrashIn
  <2>3. \A k \in Handle : k # h => connected'[k] = connected[k]
    BY <1>0, <2>1 DEF Connected, ApiTypeOK
  <2>4. CASE context = "dead" \/ (backend = "libusb-0.1" /\ ~permitted)
    <3>1. r = -1 /\ UsbCrash
      BY <2>1, <2>4 DEF usbobex_connect_request
    <3>2. connected' = connected
      BY <1>0, <2>1, <3>1 DEF Connected, ApiTypeOK
    <3>3. DeviceOpen'
      BY <1>0, <2>2, <3>1, <3>2 DEF DeviceOpen, UsbCrash, UsbCrashIn
    <3>4. QED
      BY <2>4, <3>1, <3>3, CrashKnown DEF Known
  <2>5. CASE ~(context = "dead" \/ (backend = "libusb-0.1" /\ ~permitted))
    <3>1. /\ crashed' = crashed
          /\ UsbClaims(h, i, r) \/ (r = -1 /\ UNCHANGED <<claims, dev>>)
      BY <2>1, <2>5 DEF usbobex_connect_request
    <3>2. \A k \in Handle : k # h => dev'[k] = dev[k]
      BY <1>0, <3>1 DEF UsbClaims, UsbTypeOK
    <3>3. connected'[h] => dev'[h] = "open"
      BY <1>0, <1>2, <2>1, <3>1 DEF Connected, ApiTypeOK, UsbClaims, UsbTypeOK
    <3>4. QED
      BY <1>0, <2>2, <2>3, <3>1, <3>2, <3>3 DEF DeviceOpen
  <2>6. QED
    BY <2>4, <2>5
<1>3. QED
  BY <1>1, <1>2

LEMMA DisconnectCrash ==
  ASSUME CrashInv, ~crashed, NEW h \in Handle, OBEX_TransportDisconnect(h)
  PROVE  DeviceOpen' /\ (crashed' => Known')
<1> USE SameHandles
<1>0. UsbTypeOK /\ ApiTypeOK /\ DeviceOpen
  BY TypeOKParts DEF CrashInv
<1>1. type' = type /\ connected' = [connected EXCEPT ![h] = FALSE]
  BY DEF OBEX_TransportDisconnect
<1>2. CASE UNCHANGED usbVars
  BY <1>0, <1>1, <1>2, UsbUnchanged DEF DeviceOpen, usbVars, ApiTypeOK
<1>3. CASE type[h] = "USB" /\ connected[h] /\ usbobex_disconnect_request(h)
  <2>1. \A k \in Handle : k # h => dev'[k] = dev[k]
    BY <1>0, <1>3
       DEF usbobex_disconnect_request, UsbCrash, UsbCrashIn, UsbTypeOK
  <2>2. UNCHANGED replaced
    BY <1>3 DEF usbobex_disconnect_request, UsbCrash, UsbCrashIn
  <2>3. DeviceOpen'
    BY <1>0, <1>1, <2>1, <2>2 DEF DeviceOpen, ApiTypeOK
  <2>4. CASE DeviceUsable(h)
    BY <1>3, <2>3, <2>4 DEF usbobex_disconnect_request
  <2>5. CASE ~DeviceUsable(h)
    BY <1>0, <1>3, <2>3, <2>5, NotUsableIsKnown, CrashKnown
       DEF usbobex_disconnect_request
  <2>6. QED
    BY <2>4, <2>5
<1>4. QED
  BY <1>2, <1>3
     DEF OBEX_TransportDisconnect, Disconnect, inobex_disconnect_request

LEMMA CleanupCrash ==
  ASSUME CrashInv, ~crashed, NEW h \in Handle, OBEX_Cleanup(h)
  PROVE  DeviceOpen' /\ (crashed' => Known')
<1> USE SameHandles
<1>0. UsbTypeOK /\ ApiTypeOK /\ DeviceOpen
  BY TypeOKParts DEF CrashInv
<1>1. /\ type' = [type EXCEPT ![h] = "none"]
      /\ connected' = [connected EXCEPT ![h] = FALSE]
  BY DEF OBEX_Cleanup, Gone
<1>2. CASE UNCHANGED usbVars
  BY <1>0, <1>1, <1>2, UsbUnchanged DEF DeviceOpen, usbVars, ApiTypeOK
<1>3. CASE CleanupUsb(h)
  <2>1. /\ \A k \in Handle : k # h => dev'[k] = dev[k]
        /\ UNCHANGED replaced
    BY <1>0, <1>3 DEF CleanupUsb, UsbCrash, UsbCrashIn, UsbTypeOK
  <2>2. DeviceOpen'
    BY <1>0, <1>1, <2>1 DEF DeviceOpen, ApiTypeOK
  <2>3. CASE (connected[h] /\ ~DeviceUsable(h)) \/ FreeCrashes(h)
    <3>1. UsbCrash
      BY <1>3, <2>3 DEF CleanupUsb
    <3>2. Known
      BY <1>0, <1>3, <2>3, NotUsableIsKnown DEF CleanupUsb, FreeCrashes, Known
    <3>3. QED
      BY <2>2, <3>1, <3>2, CrashKnown
  <2>4. CASE ~((connected[h] /\ ~DeviceUsable(h)) \/ FreeCrashes(h))
    BY <1>3, <2>2, <2>4 DEF CleanupUsb
  <2>5. QED
    BY <2>3, <2>4
<1>4. QED
  BY <1>2, <1>3 DEF OBEX_Cleanup, CleanupSockets

(* The calls that leave USB alone. *)
LEMMA OthersCrash ==
  ASSUME CrashInv, Place, UNCHANGED usbVars, NEW h \in Handle,
         \/ UNCHANGED apiVars
         \/ \E t \in types, keep \in BOOLEAN : OBEX_Init(h, t, keep)
         \/ \E g \in Handle : OBEX_ServerAccept(h, g)
         \/ \E r : Connected(h, r) /\ type[h] \notin {"USB", "none"}
  PROVE  DeviceOpen' /\ (crashed' => Known')
<1>0. ApiTypeOK /\ DeviceOpen /\ UNCHANGED <<dev, replaced>>
  BY TypeOKParts DEF CrashInv, usbVars
<1>1. crashed' => Known'
  BY UsbUnchanged
<1>2. ASSUME UNCHANGED apiVars PROVE DeviceOpen'
  BY <1>0, <1>2 DEF DeviceOpen, apiVars
<1>3. ASSUME NEW t \in types, NEW keep \in BOOLEAN, OBEX_Init(h, t, keep)
      PROVE  DeviceOpen'
  BY <1>0, <1>3 DEF DeviceOpen, OBEX_Init, ApiTypeOK
<1>4. ASSUME NEW r, Connected(h, r), type[h] \notin {"USB", "none"}
      PROVE  DeviceOpen'
  BY <1>0, <1>4 DEF DeviceOpen, Connected, ApiTypeOK
<1>5. ASSUME NEW g \in Handle, OBEX_ServerAccept(h, g)
      PROVE  DeviceOpen'
  <2>1. type[h] \in SocketTypes
    BY <1>5 DEF Place, OBEX_ServerAccept
  <2>2. QED
    BY <1>0, <1>5, <2>1
       DEF DeviceOpen, OBEX_ServerAccept, ApiTypeOK, SocketTypes
<1>6. QED
  BY <1>1, <1>2, <1>3, <1>4, <1>5

LEMMA CallsCrash ==
  ASSUME CrashInv, Place, NEW h \in Handle,
         \/ \E t \in types, keep \in BOOLEAN : OBEX_Init(h, t, keep)
         \/ OBEX_ServerRegister(h)
         \/ HandleInputAccept(h)
         \/ \E g \in Handle : OBEX_ServerAccept(h, g)
         \/ CustomConnect(h)
         \/ \E rfd, wfd \in Socket : FdOBEX_TransportSetup(h, rfd, wfd)
         \/ \E family : obex_transport_connect_request(h, family)
  PROVE  DeviceOpen' /\ (crashed' => Known')
<1>1. CASE \E t \in types, keep \in BOOLEAN : OBEX_Init(h, t, keep)
  <2>1. UNCHANGED usbVars
    BY <1>1 DEF OBEX_Init
  <2>2. QED
    BY <1>1, <2>1, OthersCrash
<1>2. CASE OBEX_ServerRegister(h)
  <2>1. UNCHANGED usbVars /\ UNCHANGED apiVars
    BY <1>2 DEF OBEX_ServerRegister
  <2>2. QED
    BY <2>1, OthersCrash
<1>3. CASE HandleInputAccept(h)
  <2>1. UNCHANGED usbVars /\ UNCHANGED apiVars
    BY <1>3 DEF HandleInputAccept
  <2>2. QED
    BY <2>1, OthersCrash
<1>4. CASE \E g \in Handle : OBEX_ServerAccept(h, g)
  <2>1. UNCHANGED usbVars
    BY <1>4 DEF OBEX_ServerAccept
  <2>2. QED
    BY <1>4, <2>1, OthersCrash
<1>5. CASE CustomConnect(h)
  <2>1. UNCHANGED usbVars /\ Connected(h, 0) /\ type[h] \notin {"USB", "none"}
    BY <1>5 DEF CustomConnect
  <2>2. QED
    BY <2>1, OthersCrash
<1>6. CASE \E rfd, wfd \in Socket : FdOBEX_TransportSetup(h, rfd, wfd)
  <2>1. UNCHANGED usbVars /\ Connected(h, 0) /\ type[h] \notin {"USB", "none"}
    BY <1>6 DEF FdOBEX_TransportSetup
  <2>2. QED
    BY <2>1, OthersCrash
<1>7. CASE \E family : obex_transport_connect_request(h, family)
  <2>1. PICK family : obex_transport_connect_request(h, family)
    BY <1>7
  <2>2. PICK r \in {-1, 0, 1} : Connected(h, r) /\ type[h] \notin {"USB", "none"}
    BY <2>1 DEF obex_transport_connect_request
  <2>3. UNCHANGED usbVars
    BY <2>1 DEF obex_transport_connect_request
  <2>4. QED
    BY <2>2, <2>3, OthersCrash
<1>8. QED
  BY <1>1, <1>2, <1>3, <1>4, <1>5, <1>6, <1>7

LEMMA NextCrash ==
  ASSUME OwnInv, CrashInv, [Next]_vars
  PROVE  DeviceOpen' /\ (crashed' => Known')
<1>0. CrashInv /\ Place /\ DeviceOpen
  BY DEF OwnInv, CrashInv
<1>1. CASE UNCHANGED vars
  <2>1. UNCHANGED usbVars /\ UNCHANGED apiVars
    BY <1>1 DEF vars
  <2>2. DeviceOpen'
    BY <1>0, <2>1 DEF DeviceOpen, usbVars, apiVars
  <2>3. QED
    BY <2>1, <2>2, UsbUnchanged
<1>2. ASSUME ~crashed, NEW h \in Handle, UsbStep(h)
      PROVE  DeviceOpen' /\ (crashed' => Known')
  BY <1>0, <1>2, FreeCrash, TransferCrash, FindCrash, InterfaceConnectCrash
     DEF UsbStep
<1>3. ASSUME NEW d \in Socket, World(d)
      PROVE  DeviceOpen' /\ (crashed' => Known')
  <2>1. UNCHANGED usbVars /\ UNCHANGED apiVars
    BY <1>3 DEF World, FileOpens, FileCloses, Arrives
  <2>2. DeviceOpen'
    BY <1>0, <2>1 DEF DeviceOpen, usbVars, apiVars
  <2>3. QED
    BY <2>1, <2>2, UsbUnchanged
<1>4. ASSUME ~crashed, NEW h \in Handle,
             OBEX_TransportDisconnect(h) \/ OBEX_Cleanup(h)
      PROVE  DeviceOpen' /\ (crashed' => Known')
  BY <1>0, <1>4, DisconnectCrash, CleanupCrash
<1>5. ASSUME NEW h \in Handle,
             \/ OBEX_TransportConnect(h) \/ TcpOBEX_TransportConnect(h)
             \/ IrOBEX_TransportConnect(h) \/ BtOBEX_TransportConnect(h)
      PROVE  DeviceOpen' /\ (crashed' => Known')
  <2>1. \E family : obex_transport_connect_request(h, family)
    BY <1>5 DEF OBEX_TransportConnect, TcpOBEX_TransportConnect,
                IrOBEX_TransportConnect, BtOBEX_TransportConnect
  <2>2. QED
    BY <1>0, <2>1, CallsCrash
<1>6. QED
  BY <1>0, <1>1, <1>2, <1>3, <1>4, <1>5, CallsCrash DEF Next, UsbStep, World

(* With any number of handles and any devices on the bus, the process      *)
(* crashes in USB of three causes only: the context of libusb 1.0 was left *)
(* when a list was freed, the interface of a connected handle was replaced *)
(* (OBEX_InterfaceConnect), or libusb 0.1 may not open the device.         *)
THEOREM OnlyKnownCrashes == Spec => []CrashesOnlyKnown
<1>1. Init => OwnInv /\ CrashInv
  BY InitTypes, InitOwned, InitCrash DEF OwnInv
<1>2. OwnInv /\ CrashInv /\ [Next]_vars => OwnInv' /\ CrashInv'
  <2> SUFFICES ASSUME OwnInv, CrashInv, [Next]_vars
               PROVE  OwnInv' /\ CrashInv'
    OBVIOUS
  <2>1. OwnInv'
    BY NextInv
  <2>2. TypeOK'
    BY <2>1 DEF OwnInv
  <2>3. QED
    BY <2>1, <2>2, NextCrash DEF CrashInv
<1>3. CrashInv => CrashesOnlyKnown
  BY DEF CrashInv, CrashesOnlyKnown, Known
<1>4. QED
  BY <1>1, <1>2, <1>3, PTL DEF Spec

-----------------------------------------------------------------------------
(***************************************************************************)
(* Connected handles of sockets and of descriptors.                        *)
(***************************************************************************)
(* Accepting makes no handle connected, but only one that listened accepts, *)
(* and OBEX_ServerAccept hands on a connection that is there.              *)
Linked(h) ==
  /\ serverfd[h] # INVALID_SOCKET => h \in served
  /\ connected[h] /\ type[h] \in SocketTypes /\ h \notin served =>
       fd[h] # INVALID_SOCKET
  /\ connected[h] /\ type[h] = "FD" =>
       INVALID_SOCKET \notin {fd[h], writefd[h]}

Connections == \A h \in Handle : Linked(h)

LEMMA InitLinked == Init => Connections
BY DEF Init, SockInit, Connections, Linked

LEMMA SameLinked ==
  ASSUME Connections, UNCHANGED <<fd, serverfd, writefd, served, type, connected>>
  PROVE  Connections'
BY DEF Connections, Linked

LEMMA NewHandleLinked ==
  ASSUME TypeOK, Place, Connections, NEW h \in Handle, NEW t, NEW keep,
         OBEX_Init(h, t, keep)
  PROVE  Connections'
<1>1. /\ type[h] = "none"
      /\ type' = [type EXCEPT ![h] = t]
      /\ UNCHANGED <<fd, serverfd, writefd, served, connected>>
  BY DEF OBEX_Init, sockVars
<1>2. ~connected[h]
  BY <1>1 DEF Place
<1>3. QED
  BY <1>1, <1>2, TypeOKParts DEF Connections, Linked, ApiTypeOK

LEMMA CleanupLinked ==
  ASSUME TypeOK, Connections, NEW h \in Handle, OBEX_Cleanup(h)
  PROVE  Connections'
<1>1. Gone(h)
  BY DEF OBEX_Cleanup
<1>2. QED
  BY <1>1, TypeOKParts DEF Gone, Connections, Linked, ApiTypeOK, SockTypeOK

LEMMA ListenLinked ==
  ASSUME TypeOK, Connections, NEW h \in Handle, OBEX_ServerRegister(h)
  PROVE  Connections'
<1>1. /\ UNCHANGED <<fd, writefd, type, connected>>
      /\ served' = served \union {h}
  BY DEF OBEX_ServerRegister, obex_transport_listen, inobex_listen,
         irobex_listen, btobex_listen, apiVars
<1>2. \A k \in Handle \ {h} : serverfd'[k] = serverfd[k]
  BY TypeOKParts
     DEF OBEX_ServerRegister, obex_transport_listen, inobex_listen,
         irobex_listen, btobex_listen, ListenFails, Listens, SockTypeOK
<1>3. QED
  BY <1>1, <1>2 DEF Connections, Linked

LEMMA AcceptLinked ==
  ASSUME TypeOK, Place, Connections, NEW h \in Handle, HandleInputAccept(h)
  PROVE  Connections'
<1>0. SockTypeOK
  BY TypeOKParts
<1>1. /\ type[h] \in SocketTypes
      /\ serverfd[h] # INVALID_SOCKET
      /\ UNCHANGED <<writefd, served, type, connected>>
  BY DEF HandleInputAccept, ServerReady, Selects, apiVars
<1>2. h \in served
  BY <1>1 DEF Connections, Linked
<1>3. \A k \in Handle : /\ k # h => fd'[k] = fd[k]
                        /\ serverfd'[k] \in {serverfd[k], INVALID_SOCKET}
  BY <1>0 DEF HandleInputAccept, SockTypeOK
<1>4. QED
  BY <1>1, <1>2, <1>3 DEF Connections, Linked, SocketTypes

LEMMA SplitLinked ==
  ASSUME TypeOK, Place, Connections, NEW h \in Handle, NEW g \in Handle,
         OBEX_ServerAccept(h, g)
  PROVE  Connections'
<1>0. SockTypeOK /\ ApiTypeOK
  BY TypeOKParts
<1>1. /\ type[h] \in SocketTypes /\ type[g] = "none" /\ g # h
      /\ fd[h] # INVALID_SOCKET /\ serverfd[h] # INVALID_SOCKET
      /\ type' = [type EXCEPT ![g] = type[h]]
      /\ fd' = [fd EXCEPT ![g] = fd[h], ![h] = INVALID_SOCKET]
      /\ connected' = [connected EXCEPT ![g] = connected[h]]
      /\ UNCHANGED <<serverfd, writefd, served>>
  BY DEF OBEX_ServerAccept, Splits, Place
<1>2. h \in served
  BY <1>1 DEF Connections, Linked
<1>3. SUFFICES ASSUME NEW k \in Handle PROVE Linked(k)'
  BY DEF Connections
<1>4. Linked(k)
  BY DEF Connections
<1>5. CASE k = g
  <2>1. type'[k] = type[h] /\ fd'[k] = fd[h]
    BY <1>0, <1>1, <1>5 DEF SockTypeOK, ApiTypeOK
  <2>2. QED
    BY <1>1, <1>4, <2>1 DEF Linked, SocketTypes
<1>6. CASE k = h
  <2>1. type'[k] = type[k]
    BY <1>0, <1>1, <1>6 DEF ApiTypeOK
  <2>2. QED
    BY <1>1, <1>2, <1>6, <2>1 DEF Linked, SocketTypes
<1>7. CASE k # g /\ k # h
  BY <1>0, <1>1, <1>4, <1>7 DEF Linked, SockTypeOK, ApiTypeOK
<1>8. QED
  BY <1>5, <1>6, <1>7

LEMMA ConnectLinked ==
  ASSUME TypeOK, Connections, NEW h \in Handle, NEW family,
         obex_transport_connect_request(h, family)
  PROVE  Connections'
<1>0. SockTypeOK /\ ApiTypeOK
  BY TypeOKParts
<1>1. PICK r \in {-1, 0, 1} :
        /\ \/ inobex_connect_request(h, family, r)
           \/ irobex_connect_request(h, r)
           \/ btobex_connect_request(h, r)
        /\ ~connected[h]
        /\ type[h] \in SocketTypes
        /\ Connected(h, r)
  BY DEF obex_transport_connect_request, SocketTypes
<1>2. UNCHANGED <<serverfd, writefd, served, type>>
  BY <1>1 DEF inobex_connect_request, irobex_connect_request,
              btobex_connect_request, Connected
<1>3. r >= 0 => \E d \in Socket : Connects(h, d)
  BY <1>1 DEF inobex_connect_request, irobex_connect_request,
              btobex_connect_request
<1>4. r >= 0 => fd'[h] # INVALID_SOCKET
  BY <1>0, <1>3, NoSuchSocket DEF Connects, SockTypeOK
<1>5. /\ connected'[h] => r >= 0
      /\ \A k \in Handle \ {h} : connected'[k] = connected[k]
  BY <1>0, <1>1 DEF Connected, ApiTypeOK
<1>6. \A k \in Handle \ {h} : fd'[k] = fd[k]
  BY <1>0, <1>1
     DEF inobex_connect_request, irobex_connect_request, inobex_connect_fails,
         btobex_connect_request, Connects, FreeSocket, SockTypeOK
<1>7. QED
  BY <1>0, <1>1, <1>2, <1>4, <1>5, <1>6
     DEF Connections, Linked, ApiTypeOK, SocketTypes

LEMMA FdSetupLinked ==
  ASSUME TypeOK, Connections, NEW h \in Handle, NEW rfd \in Socket,
         NEW wfd \in Socket, FdOBEX_TransportSetup(h, rfd, wfd)
  PROVE  Connections'
<1>1. /\ type[h] = "FD"
      /\ fd' = [fd EXCEPT ![h] = rfd]
      /\ writefd' = [writefd EXCEPT ![h] = wfd]
      /\ connected' = [connected EXCEPT ![h] = connected[h] \/ 0 >= 0]
      /\ UNCHANGED <<serverfd, served, type>>
  BY DEF FdOBEX_TransportSetup, Connected
<1>2. QED
  BY <1>1, NoSuchSocket, TypeOKParts
     DEF Connections, Linked, SockTypeOK, ApiTypeOK, SocketTypes

LEMMA DisconnectLinked ==
  ASSUME TypeOK, Connections, NEW h \in Handle, OBEX_TransportDisconnect(h)
  PROVE  Connections'
<1>0. SockTypeOK /\ ApiTypeOK
  BY TypeOKParts
<1>1. /\ connected' = [connected EXCEPT ![h] = FALSE]
      /\ UNCHANGED <<serverfd, served, type>>
  BY DEF OBEX_TransportDisconnect, Disconnect, inobex_disconnect_request,
         irobex_disconnect_request, btobex_disconnect_request,
         DisconnectSocket, sockVars
<1>2. \A k \in Handle \ {h} : fd'[k] = fd[k] /\ writefd'[k] = writefd[k]
  BY <1>0
     DEF OBEX_TransportDisconnect, Disconnect, inobex_disconnect_request,
         irobex_disconnect_request, btobex_disconnect_request,
         DisconnectSocket, sockVars, SockTypeOK
<1>3. QED
  BY <1>0, <1>1, <1>2 DEF Connections, Linked, ApiTypeOK

LEMMA UsbStepLinked ==
  ASSUME TypeOK, Connections, NEW h \in Handle, UsbStep(h) \/ CustomConnect(h)
  PROVE  Connections'
<1>1. UNCHANGED sockVars /\ UNCHANGED type
  BY DEF UsbStep, OBEX_FreeInterfaces, HandleInputUsb, CustomConnect,
         OBEX_EnumerateInterfaces, OBEX_InterfaceConnect, Connected, apiVars
<1>2. /\ type[h] \in {"USB", "CUSTOM"}
      /\ \A k \in Handle : k # h => connected'[k] = connected[k]
  BY DEF UsbStep, OBEX_FreeInterfaces, HandleInputUsb, CustomConnect,
         OBEX_EnumerateInterfaces, OBEX_InterfaceConnect, Connected, apiVars,
         TypeOK
<1>3. QED
  BY <1>1, <1>2 DEF Connections, Linked, sockVars, SocketTypes

LEMMA NextLinked ==
  ASSUME OwnInv, Connections, [Next]_vars
  PROVE  Connections'
<1>0. TypeOK /\ Place
  BY DEF OwnInv
<1>1. CASE UNCHANGED vars
  BY <1>1, SameLinked DEF vars, sockVars, apiVars
<1>2. ASSUME NEW d \in Socket, World(d) PROVE Connections'
  BY <1>2, SameLinked DEF World, FileOpens, FileCloses, Arrives, apiVars
<1>3. ASSUME NEW h \in Handle,
             \/ OBEX_TransportConnect(h) \/ TcpOBEX_TransportConnect(h)
             \/ IrOBEX_TransportConnect(h) \/ BtOBEX_TransportConnect(h)
      PROVE  Connections'
  BY <1>0, <1>3, ConnectLinked
     DEF OBEX_TransportConnect, TcpOBEX_TransportConnect,
         IrOBEX_TransportConnect, BtOBEX_TransportConnect
<1>4. ASSUME NEW h \in Handle, UsbStep(h) \/ CustomConnect(h)
      PROVE  Connections'
  BY <1>0, <1>4, UsbStepLinked
<1>5. QED
  BY <1>0, <1>1, <1>2, <1>3, <1>4, NewHandleLinked, CleanupLinked,
     ListenLinked, AcceptLinked, SplitLinked, FdSetupLinked, DisconnectLinked
     DEF Next, UsbStep, World

(***************************************************************************)
(* Connected handles of USB.                                               *)
(***************************************************************************)
(* What a handle has of USB. Once replaced, a connected handle stays so:   *)
(* every call that would end the connection crashes.                       *)
Claim(h) ==
  /\ type[h] # "USB" => dev[h] = "none" /\ claims[h] = {}
  /\ type[h] = "USB" /\ connected[h] /\ h \notin replaced =>
       /\ usb[h] \in Interfaces
       /\ dev[h] = "open"
       /\ claims[h] = {Control(usb[h]), Data(usb[h])}
  /\ ~connected[h] => dev[h] # "open" /\ claims[h] = {}

Disjoint ==
  \A g, h \in Handle : g # h => claims[g] \intersect claims[h] = {}

Claims == Disjoint /\ \A h \in Handle : Claim(h)

(* The interfaces of a handle that no step has touched are its own still. *)
LEMMA ClaimStays ==
  ASSUME NEW k \in Handle, Claim(k), UNCHANGED backend,
         k \in replaced => k \in replaced',
         type'[k] = type[k], connected'[k] = connected[k],
         usb'[k] = usb[k], dev'[k] = dev[k], claims'[k] = claims[k]
  PROVE  Claim(k)'
BY SameInterfaces DEF Claim, Control, Data

LEMMA InitClaims == Init => Claims
BY SameHandles DEF Init, UsbInit, Claims, Claim, Disjoint

LEMMA SameClaims ==
  ASSUME Claims, UNCHANGED <<backend, usb, dev, claims, replaced, type, connected>>
  PROVE  Claims'
BY ClaimStays DEF Claims, Disjoint

LEMMA NewHandleClaims ==
  ASSUME TypeOK, Place, Claims, NEW h \in Handle, NEW t, NEW keep,
         OBEX_Init(h, t, keep)
  PROVE  Claims'
<1>1. /\ type[h] = "none"
      /\ type' = [type EXCEPT ![h] = t]
      /\ UNCHANGED <<backend, usb, dev, claims, replaced, connected>>
  BY DEF OBEX_Init, usbVars
<1>2. ~connected[h]
  BY <1>1 DEF Place
<1>3. SUFFICES ASSUME NEW k \in Handle PROVE Claim(k)'
  BY <1>1 DEF Claims, Disjoint
<1>4. CASE k = h
  BY <1>1, <1>2, <1>4 DEF Claims, Claim
<1>5. CASE k # h
  BY <1>1, <1>5, ClaimStays, TypeOKParts DEF Claims, ApiTypeOK
<1>6. QED
  BY <1>4, <1>5

LEMMA SplitClaims ==
  ASSUME TypeOK, Place, Claims, NEW h \in Handle, NEW g \in Handle,
         OBEX_ServerAccept(h, g)
  PROVE  Claims'
<1>0. ApiTypeOK
  BY TypeOKParts
<1>1. /\ type[h] \in SocketTypes /\ type[g] = "none"
      /\ type' = [type EXCEPT ![g] = type[h]]
      /\ connected' = [connected EXCEPT ![g] = connected[h]]
      /\ UNCHANGED <<backend, usb, dev, claims, replaced>>
  BY DEF OBEX_ServerAccept, Place, usbVars
<1>2. SUFFICES ASSUME NEW k \in Handle PROVE Claim(k)'
  BY <1>1 DEF Claims, Disjoint
<1>3. CASE k = g
  <2>1. type'[k] \in SocketTypes
    BY <1>0, <1>1, <1>3 DEF ApiTypeOK
  <2>2. dev[k] = "none" /\ claims[k] = {}
    BY <1>1, <1>3 DEF Claims, Claim
  <2>3. QED
    BY <1>1, <2>1, <2>2 DEF Claim, SocketTypes
<1>4. CASE k # g
  BY <1>0, <1>1, <1>4, ClaimStays DEF Claims, ApiTypeOK
<1>5. QED
  BY <1>3, <1>4

(* A handle of another transport is connected or disconnected. *)
LEMMA OtherTransportClaims ==
  ASSUME TypeOK, Claims, NEW h \in Handle, type[h] # "USB",
         UNCHANGED usbVars, UNCHANGED type,
         \A k \in Handle \ {h} : connected'[k] = connected[k]
  PROVE  Claims'
<1>1. UNCHANGED <<backend, usb, dev, claims, replaced>>
  BY DEF usbVars
<1>2. SUFFICES ASSUME NEW k \in Handle PROVE Claim(k)'
  BY <1>1 DEF Claims, Disjoint
<1>3. CASE k = h
  BY <1>1, <1>3 DEF Claims, Claim
<1>4. CASE k # h
  BY <1>1, <1>4, ClaimStays DEF Claims
<1>5. QED
  BY <1>3, <1>4

(* One handle loses its device and its claims. *)
LEMMA GivesUp ==
  ASSUME Claims, NEW h \in Handle, UNCHANGED <<backend, replaced>>,
         ~connected'[h], dev'[h] = "none", claims'[h] = {},
         \A k \in Handle \ {h} :
           /\ type'[k] = type[k] /\ connected'[k] = connected[k]
           /\ usb'[k] = usb[k] /\ dev'[k] = dev[k] /\ claims'[k] = claims[k]
  PROVE  Claims'
<1>1. Disjoint'
  BY DEF Claims, Disjoint
<1>2. ASSUME NEW k \in Handle PROVE Claim(k)'
  <2>1. CASE k = h
    BY <2>1 DEF Claim
  <2>2. CASE k # h
    BY <2>2, ClaimStays DEF Claims
  <2>3. QED
    BY <2>1, <2>2
<1>3. QED
  BY <1>1, <1>2 DEF Claims

LEMMA DisconnectClaims ==
  ASSUME TypeOK, Claims, ~crashed', NEW h \in Handle,
         OBEX_TransportDisconnect(h)
  PROVE  Claims'
<1> USE SameHandles
<1>0. UsbTypeOK /\ ApiTypeOK
  BY TypeOKParts
<1>1. type' = type /\ connected' = [connected EXCEPT ![h] = FALSE]
  BY DEF OBEX_TransportDisconnect
<1>2. CASE type[h] # "USB"
  <2>1. UNCHANGED usbVars
    BY <1>2 DEF OBEX_TransportDisconnect, Disconnect
  <2>2. QED
    BY <1>0, <1>1, <1>2, <2>1, OtherTransportClaims DEF ApiTypeOK
<1>3. CASE type[h] = "USB" /\ ~connected[h]
  <2>1. UNCHANGED usbVars /\ connected' = connected
    BY <1>0, <1>1, <1>3 DEF OBEX_TransportDisconnect, Disconnect, ApiTypeOK
  <2>2. QED
    BY <1>1, <2>1, SameClaims DEF usbVars
<1>4. CASE type[h] = "USB" /\ connected[h]
  <2>1. usbobex_disconnect_request(h)
    BY <1>4 DEF OBEX_TransportDisconnect, Disconnect
  <2>2. /\ claims' = [claims EXCEPT ![h] = {}]
        /\ dev' = [dev EXCEPT ![h] = "none"]
        /\ UNCHANGED <<backend, usb, replaced>>
    BY <2>1 DEF usbobex_disconnect_request, UsbCrash, UsbCrashIn
  <2>3. QED
    BY <1>0, <1>1, <2>2, GivesUp DEF UsbTypeOK, ApiTypeOK
<1>5. QED
  BY <1>2, <1>3, <1>4

LEMMA CleanupClaims ==
  ASSUME TypeOK, Claims, ~crashed', NEW h \in Handle, OBEX_Cleanup(h)
  PROVE  Claims'
<1> USE SameHandles
<1>0. UsbTypeOK /\ ApiTypeOK
  BY TypeOKParts
<1>1. /\ type' = [type EXCEPT ![h] = "none"]
      /\ connected' = [connected EXCEPT ![h] = FALSE]
  BY DEF OBEX_Cleanup, Gone
<1>2. CASE type[h] # "USB"
  <2>1. UNCHANGED usbVars
    BY <1>2 DEF OBEX_Cleanup, CleanupSockets, CleanupUsb
  <2>2. dev[h] = "none" /\ claims[h] = {}
    BY <1>2 DEF Claims, Claim
  <2>3. QED
    BY <1>0, <1>1, <2>1, <2>2, GivesUp DEF usbVars, ApiTypeOK
<1>3. CASE type[h] = "USB"
  <2>1. CleanupUsb(h)
    BY <1>3 DEF OBEX_Cleanup, CleanupSockets, SocketTypes
  <2>2. /\ claims' = [claims EXCEPT ![h] = IF connected[h] THEN {} ELSE @]
        /\ dev' = [dev EXCEPT ![h] = "none"]
        /\ usb' = [usb EXCEPT ![h] = Absent]
        /\ UNCHANGED <<backend, replaced>>
    BY <2>1 DEF CleanupUsb, UsbCrash, UsbCrashIn
  <2>3. ~connected[h] => claims[h] = {}
    BY DEF Claims, Claim
  <2>4. claims'[h] = {}
    BY <1>0, <2>2, <2>3 DEF UsbTypeOK
  <2>5. QED
    BY <1>0, <1>1, <2>2, <2>4, GivesUp DEF UsbTypeOK, ApiTypeOK
<1>4. QED
  BY <1>2, <1>3

(* Four calls succeed and both interfaces are claimed, or what was claimed *)
(* is released, whichever call failed.                                     *)
LEMMA ClaimsOrReleases ==
  ASSUME UsbTypeOK, NEW h \in UsbHandle, claims[h] = {}, NEW i, NEW r,
         UsbClaims(h, i, r)
  PROVE  /\ \A k \in UsbHandle \ {h} :
              claims'[k] = claims[k] /\ dev'[k] = dev[k]
         /\ r >= 0 => /\ claims'[h] = {Control(i), Data(i)}
                      /\ dev'[h] = "open"
         /\ r < 0 => claims'[h] = {} /\ dev'[h] = "none"
         /\ claims'[h] \intersect Others(h) = {}
<1>1. PICK done \in 0..4 :
        /\ Claimed(i, done) \intersect Others(h) = {}
        /\ r = IF done = 4 THEN 1 ELSE -1
        /\ claims' = [claims EXCEPT ![h] =
             IF done = 4 THEN @ \union Claimed(i, done)
             ELSE (@ \union Claimed(i, done)) \ Released(i, done)]
        /\ dev' = [dev EXCEPT ![h] = IF done = 4 THEN "open" ELSE "none"]
  BY DEF UsbClaims
<1>2. \A k \in UsbHandle \ {h} : claims'[k] = claims[k] /\ dev'[k] = dev[k]
  BY <1>1 DEF UsbTypeOK
<1>3. CASE done = 4
  <2>1. Claimed(i, done) = {Control(i), Data(i)}
    BY <1>3 DEF Claimed
  <2>2. claims'[h] = {} \union Claimed(i, done) /\ dev'[h] = "open" /\ r = 1
    BY <1>1, <1>3 DEF UsbTypeOK
  <2>3. QED
    BY <1>1, <1>2, <2>1, <2>2
<1>4. CASE done # 4
  <2>1. Claimed(i, done) \subseteq Released(i, done)
    BY DEF Claimed, Released
  <2>2. /\ claims'[h] = ({} \union Claimed(i, done)) \ Released(i, done)
        /\ dev'[h] = "none" /\ r = -1
    BY <1>1, <1>4 DEF UsbTypeOK
  <2>3. claims'[h] = {}
    BY <2>1, <2>2
  <2>4. QED
    BY <1>2, <2>2, <2>3
<1>5. QED
  BY <1>3, <1>4

LEMMA InterfaceConnectClaims ==
  ASSUME TypeOK, Claims, ~crashed', NEW h \in Handle, NEW i \in Interfaces,
         OBEX_InterfaceConnect(h, i)
  PROVE  Claims'
<1> USE SameHandles
<1>0. UsbTypeOK /\ ApiTypeOK /\ type[h] = "USB"
  BY TypeOKParts DEF OBEX_InterfaceConnect
<1>1. CASE connected[h]
  <2>1. /\ UNCHANGED <<type, connected, backend, claims>>
        /\ usb' = [usb EXCEPT ![h] = i]
        /\ dev' = [dev EXCEPT ![h] = "garbage"]
        /\ replaced' = replaced \union {h}
    BY <1>1 DEF OBEX_InterfaceConnect, Replace, apiVars, usbobex_prepare_connect
  <2>2. Disjoint'
    BY <2>1 DEF Claims, Disjoint
  <2>3. ASSUME NEW k \in Handle PROVE Claim(k)'
    <3>1. CASE k = h
      BY <1>0, <1>1, <2>1, <3>1 DEF Claim
    <3>2. CASE k # h
      BY <1>0, <2>1, <3>2, ClaimStays DEF Claims, UsbTypeOK
    <3>3. QED
      BY <3>1, <3>2
  <2>4. QED
    BY <2>2, <2>3 DEF Claims
<1>2. CASE ~connected[h]
  <2>1. PICK r \in {-1, 1} : usbobex_connect_request(h, i, r) /\ Connected(h, r)
    BY <1>2 DEF OBEX_InterfaceConnect
  <2>2. /\ UNCHANGED <<type, backend, replaced>>
        /\ usb' = [usb EXCEPT ![h] = i]
        /\ UsbClaims(h, i, r) \/ (r = -1 /\ UNCHANGED <<claims, dev>>)
    BY <2>1 DEF usbobex_connect_request, Connected, UsbCrash, UsbCrashIn,
                usbobex_prepare_connect
  <2>3. claims[h] = {} /\ dev[h] # "open" /\ Disjoint
    BY <1>2 DEF Claims, Claim
  <2>4. /\ \A k \in Handle \ {h} : claims'[k] = claims[k] /\ dev'[k] = dev[k]
        /\ r >= 0 => claims'[h] = {Control(i), Data(i)} /\ dev'[h] = "open"
        /\ r < 0 => claims'[h] = {} /\ dev'[h] # "open"
        /\ claims'[h] \intersect Others(h) = {}
    BY <1>0, <2>2, <2>3, ClaimsOrReleases
  <2>5. /\ \A k \in Handle \ {h} : connected'[k] = connected[k]
        /\ connected'[h] <=> r >= 0
    BY <1>0, <1>2, <2>1 DEF Connected, ApiTypeOK
  <2>6. \A g \in Handle \ {h} : claims'[h] \intersect claims[g] = {}
    BY <2>4 DEF Others
  <2>7. Disjoint'
    BY <2>3, <2>4, <2>6 DEF Disjoint
  <2>8. ASSUME NEW k \in Handle PROVE Claim(k)'
    <3>1. CASE k = h
      <4>1. usb'[k] = i /\ Interfaces' = Interfaces /\ type'[k] = "USB"
        BY <1>0, <2>2, <3>1, SameInterfaces DEF UsbTypeOK
      <4>2. QED
        BY <2>4, <2>5, <3>1, <4>1 DEF Claim, Control, Data
    <3>2. CASE k # h
      BY <1>0, <2>2, <2>4, <2>5, <3>2, ClaimStays DEF Claims, UsbTypeOK
    <3>3. QED
      BY <3>1, <3>2
  <2>9. QED
    BY <2>7, <2>8 DEF Claims
<1>3. QED
  BY <1>1, <1>2

LEMMA NextClaims ==
  ASSUME OwnInv, Claims, ~crashed', [Next]_vars
  PROVE  Claims'
<1>0. TypeOK /\ Place /\ ApiTypeOK
  BY TypeOKParts DEF OwnInv
<1>1. CASE UNCHANGED <<usbVars, apiVars>>
  BY <1>1, SameClaims DEF usbVars, apiVars
<1>2. CASE UNCHANGED vars \/ \E d \in Socket : World(d)
  <2>1. UNCHANGED <<usbVars, apiVars>>
    BY <1>2 DEF vars, World, FileOpens, FileCloses, Arrives
  <2>2. QED
    BY <1>1, <2>1
<1>3. ASSUME NEW h \in Handle, OBEX_ServerRegister(h) \/ HandleInputAccept(h)
      PROVE  Claims'
  <2>1. UNCHANGED <<usbVars, apiVars>>
    BY <1>3 DEF OBEX_ServerRegister, HandleInputAccept
  <2>2. QED
    BY <1>1, <2>1
<1>4. ASSUME NEW h \in Handle, NEW r, Connected(h, r), type[h] # "USB",
             UNCHANGED usbVars
      PROVE  Claims'
  <2>1. /\ UNCHANGED type
        /\ \A k \in Handle \ {h} : connected'[k] = connected[k]
    BY <1>0, <1>4 DEF Connected, ApiTypeOK
  <2>2. QED
    BY <1>0, <1>4, <2>1, OtherTransportClaims
<1>5. ASSUME NEW h \in Handle, CustomConnect(h) PROVE Claims'
  <2>1. Connected(h, 0) /\ type[h] # "USB" /\ UNCHANGED usbVars
    BY <1>5 DEF CustomConnect
  <2>2. QED
    BY <1>4, <2>1
<1>6. ASSUME NEW h \in Handle, NEW rfd, NEW wfd,
             FdOBEX_TransportSetup(h, rfd, wfd)
      PROVE  Claims'
  <2>1. Connected(h, 0) /\ type[h] # "USB" /\ UNCHANGED usbVars
    BY <1>6 DEF FdOBEX_TransportSetup
  <2>2. QED
    BY <1>4, <2>1
<1>7. ASSUME NEW h \in Handle, NEW family,
             obex_transport_connect_request(h, family)
      PROVE  Claims'
  <2>1. PICK r \in {-1, 0, 1} : Connected(h, r) /\ type[h] # "USB"
    BY <1>7 DEF obex_transport_connect_request
  <2>2. UNCHANGED usbVars
    BY <1>7 DEF obex_transport_connect_request
  <2>3. QED
    BY <1>4, <2>1, <2>2
<1>8. ASSUME NEW h \in Handle,
             \/ OBEX_TransportConnect(h) \/ TcpOBEX_TransportConnect(h)
             \/ IrOBEX_TransportConnect(h) \/ BtOBEX_TransportConnect(h)
      PROVE  Claims'
  BY <1>7, <1>8
     DEF OBEX_TransportConnect, TcpOBEX_TransportConnect,
         IrOBEX_TransportConnect, BtOBEX_TransportConnect
(* Lists of interfaces are no part of Claims, transfers change nothing. *)
<1>9. ASSUME NEW h \in Handle,
             \/ OBEX_FreeInterfaces(h)
             \/ OBEX_EnumerateInterfaces(h)
             \/ HandleInputUsb(h)
      PROVE  Claims'
  <2>1. UNCHANGED <<backend, usb, dev, claims, replaced, type, connected>>
    BY <1>9 DEF OBEX_FreeInterfaces, OBEX_EnumerateInterfaces, HandleInputUsb,
                usbobex_free_interfaces, usbobex_find_interfaces, UsbTransfer,
                UsbCrash, UsbCrashIn, usbVars, apiVars
  <2>2. QED
    BY <2>1, SameClaims
<1>10. QED
  BY <1>0, <1>2, <1>3, <1>5, <1>6, <1>8, <1>9, NewHandleClaims, SplitClaims,
     CleanupClaims, DisconnectClaims, InterfaceConnectClaims
     DEF Next, World

(* For any number of handles over any transports: a handle that says it is *)
(* connected has what it needs to send and receive, and no two have the    *)
(* same USB interface; a connect call that failed, at whichever step, left *)
(* nothing claimed. Where each interface that is found on the bus can      *)
(* carry OBEX, a connected USB handle has one that can.                    *)
THEOREM ConnectedUsable ==
  ASSUME FoundCanCarry
  PROVE  Spec => []ConnectedIsUsable
<1> DEFINE Inv == OwnInv /\ Connections /\ (crashed \/ Claims)
<1>1. Init => Inv
  BY InitTypes, InitOwned, InitLinked, InitClaims DEF OwnInv
<1>2. Inv /\ [Next]_vars => Inv'
  <2> SUFFICES ASSUME Inv, [Next]_vars PROVE Inv'
    OBVIOUS
  <2>1. OwnInv' /\ Connections'
    BY NextInv, NextLinked
  <2>2. crashed => crashed'
    BY DEF Next, vars, usbVars
  <2>3. crashed' \/ Claims'
    BY <2>2, NextClaims
  <2>4. QED
    BY <2>1, <2>3
<1>3. Inv => ConnectedIsUsable
  <2> SUFFICES ASSUME Inv, ~crashed, NEW h \in Handle
               PROVE  /\ Linked(h) /\ Claim(h)
                      /\ usb[h] \in Interfaces => usb[h] \in Carrying
                      /\ claims[h] \intersect Others(h) = {}
    BY DEF ConnectedIsUsable, Linked, Claim
  <2>1. Linked(h) /\ Claim(h)
    BY DEF Connections, Claims
  <2>2. Interfaces \subseteq Carrying
    BY DEF FoundCanCarry, Interfaces
  <2>3. claims[h] \intersect Others(h) = {}
    BY SameHandles DEF Claims, Disjoint, Others
  <2>4. QED
    BY <2>1, <2>2, <2>3
<1>4. QED
  BY <1>1, <1>2, <1>3, PTL DEF Spec

(***************************************************************************)
(* How a socket is lost.                                                   *)
(***************************************************************************)
InUse(d) == table[d] \in {"socket", "listening", "waiting", "connected"}

(* A handle other than h holds the same numbers as before. *)
OnlyOf(h) ==
  \A k \in Handle \ {h} :
    fd'[k] = fd[k] /\ serverfd'[k] = serverfd[k] /\ writefd'[k] = writefd[k]

(* A socket that is lost was in use and in the hands of the one handle     *)
(* that the step changes.                                                  *)
LEMMA LetGo ==
  ASSUME NEW d \in Socket, ~Lost(d), Lost(d)', InUse(d)' => InUse(d),
         NEW h \in Handle, OnlyOf(h)
  PROVE  InUse(d) /\ Holds(h, d) /\ ~Holds(h, d)'
BY DEF Lost, InUse, OnlyOf, Holds

(* A handle of descriptors holds files, unless a number was mistaken. *)
LEMMA FilesNotInUse ==
  ASSUME Owned, NEW d \in Socket, InUse(d), NEW h \in Handle,
         type[h] = "FD", Holds(h, d)
  PROVE  Mistaken(d)
<1>1. CASE d \in kept
  BY <1>1 DEF Mistaken
<1>2. CASE d \notin kept
  <2>1. OwnedBy(h, d)
    BY <1>2, OwnedParts
  <2>2. table[d] = "file"
    BY <2>1 DEF OwnedBy
  <2>3. QED
    BY <2>2 DEF InUse
<1>3. QED
  BY <1>1, <1>2

LEMMA SocketsSameLoses ==
  ASSUME NEW d \in Socket, ~Lost(d), Lost(d)',
         UNCHANGED <<fd, serverfd, writefd>>, InUse(d)' => InUse(d)
  PROVE  FALSE
BY DEF Lost, InUse, Holds

LEMMA CleanupLoses ==
  ASSUME TypeOK, Place, Owned, NEW d \in Socket, ~Lost(d), Lost(d)',
         NEW h \in Handle, OBEX_Cleanup(h)
  PROVE  Mistaken(d)
<1>1. \/ UNCHANGED table
      \/ /\ type[h] \in SocketTypes
         /\ table' = ServerClosed(h, obex_delete_socket(fd[h]))
  BY DEF OBEX_Cleanup, CleanupSockets, CleanupUsb
<1>2. OnlyOf(h)
  BY TypeOKParts DEF OBEX_Cleanup, Gone, OnlyOf, SockTypeOK
<1>3. InUse(d)' => InUse(d)
  BY <1>1 DEF InUse, ServerClosed, obex_delete_socket
<1>4. InUse(d) /\ Holds(h, d)
  BY <1>2, <1>3, LetGo
<1>5. d # INVALID_SOCKET
  BY NoSuchSocket
<1>6. CASE type[h] \in SocketTypes
  <2>1. d \in {fd[h], serverfd[h]}
    BY <1>4, <1>5, <1>6 DEF Holds, Place, SocketTypes
  <2>2. table' = ServerClosed(h, obex_delete_socket(fd[h]))
    BY <1>6 DEF OBEX_Cleanup, CleanupSockets, CleanupUsb, SocketTypes
  <2>3. table'[d] = "closed"
    BY <2>1, <2>2 DEF ServerClosed, obex_delete_socket
  <2>4. QED
    BY <2>3 DEF Lost
<1>7. CASE type[h] = "FD"
  BY <1>4, <1>7, FilesNotInUse
<1>8. CASE type[h] \notin SocketTypes \union {"FD"}
  BY <1>4, <1>5, <1>8 DEF Holds, Place
<1>9. QED
  BY <1>6, <1>7, <1>8

LEMMA ListenLoses ==
  ASSUME TypeOK, NEW d \in Socket, ~Lost(d), Lost(d)', NEW h \in Handle,
         OBEX_ServerRegister(h)
  PROVE  Overwritten(d)
<1>0. SockTypeOK
  BY TypeOKParts
<1>1. UNCHANGED <<fd, writefd, type>>
  BY DEF OBEX_ServerRegister, obex_transport_listen, inobex_listen,
         irobex_listen, btobex_listen, apiVars
<1>2. \/ ListenFails(h)
      \/ \E n \in Lowest : \E state \in {"socket", "listening"} :
           Listens(h, n, state)
  BY DEF OBEX_ServerRegister, obex_transport_listen, inobex_listen,
         irobex_listen, btobex_listen
<1>3. OnlyOf(h)
  BY <1>0, <1>1, <1>2 DEF OnlyOf, ListenFails, Listens, SockTypeOK
<1>4. serverfd'[h] # d
  BY DEF Lost, Holds
<1>5. table'[d] = table[d]
  BY <1>0, <1>2, <1>4 DEF ListenFails, Listens, SockTypeOK
<1>6. Holds(h, d) /\ ~Holds(h, d)'
  BY <1>3, <1>5, LetGo DEF InUse
<1>7. serverfd[h] = d
  BY <1>1, <1>6 DEF Holds
<1>8. QED
  BY <1>1, <1>7 DEF Overwritten

LEMMA AcceptLoses ==
  ASSUME TypeOK, NEW d \in Socket, ~Lost(d), Lost(d)', NEW h \in Handle,
         HandleInputAccept(h)
  PROVE  Overwritten(d)
<1>0. SockTypeOK
  BY TypeOKParts
<1>1. serverfd[h] # INVALID_SOCKET /\ UNCHANGED <<writefd, type>>
  BY DEF HandleInputAccept, ServerReady, Selects, apiVars
<1>2. PICK n \in Number :
        /\ fd' = [fd EXCEPT ![h] = n]
        /\ \/ /\ table' = ServerClosed(h, AfterAccept(h, n))
              /\ serverfd' = [serverfd EXCEPT ![h] = INVALID_SOCKET]
           \/ table' = AfterAccept(h, n) /\ UNCHANGED serverfd
  BY DEF HandleInputAccept
<1>3. OnlyOf(h)
  BY <1>0, <1>1, <1>2 DEF OnlyOf, SockTypeOK
<1>4. fd'[h] = n /\ n # d
  BY <1>0, <1>2 DEF Lost, Holds, SockTypeOK
<1>5. InUse(d)' => InUse(d)
  BY <1>2, <1>4 DEF InUse, ServerClosed, AfterAccept
<1>6. Holds(h, d) /\ ~Holds(h, d)'
  BY <1>3, <1>5, LetGo
<1>7. serverfd'[h] = serverfd[h] \/ (serverfd[h] = d => table'[d] = "closed")
  BY <1>2 DEF ServerClosed
<1>8. fd[h] = d
  BY <1>1, <1>6, <1>7 DEF Holds, Lost
<1>9. QED
  BY <1>1, <1>8 DEF Overwritten

LEMMA SplitLoses ==
  ASSUME TypeOK, Place, NEW d \in Socket, ~Lost(d), Lost(d)',
         NEW h \in Handle, NEW g \in Handle, OBEX_ServerAccept(h, g)
  PROVE  FALSE
<1>0. SockTypeOK
  BY TypeOKParts
<1>1. /\ type[g] = "none" /\ g # h
      /\ fd' = [fd EXCEPT ![g] = fd[h], ![h] = INVALID_SOCKET]
      /\ UNCHANGED <<serverfd, writefd, table>>
  BY DEF OBEX_ServerAccept, Splits
<1>2. fd[g] = INVALID_SOCKET /\ d # INVALID_SOCKET
  BY <1>1, NoSuchSocket DEF Place, SocketTypes
<1>3. PICK k \in Handle : Holds(k, d)
  BY <1>1 DEF Lost
<1>4. CASE fd[k] = d
  <2>1. fd'[k] = d \/ fd'[g] = d
    BY <1>0, <1>1, <1>2, <1>4 DEF SockTypeOK
  <2>2. QED
    BY <2>1 DEF Lost, Holds
<1>5. CASE fd[k] # d
  BY <1>1, <1>3, <1>5 DEF Lost, Holds
<1>6. QED
  BY <1>4, <1>5

LEMMA ConnectLoses ==
  ASSUME TypeOK, NEW d \in Socket, ~Lost(d), Lost(d)', NEW h \in Handle,
         NEW family, obex_transport_connect_request(h, family)
  PROVE  Overwritten(d)
<1>0. SockTypeOK
  BY TypeOKParts
<1>1. ~connected[h] /\ UNCHANGED <<serverfd, writefd, type>>
  BY DEF obex_transport_connect_request, inobex_connect_request,
         irobex_connect_request, btobex_connect_request, Connected
<1>2. \/ type[h] = "INET" /\ UNCHANGED table
      \/ /\ type[h] = "INET" \/ fd[h] = INVALID_SOCKET
         /\ \E n \in Socket : Connects(h, n)
      \/ FreeSocket(h)
  BY DEF obex_transport_connect_request, inobex_connect_request,
         irobex_connect_request, btobex_connect_request, inobex_connect_fails
<1>3. OnlyOf(h)
  BY <1>0, <1>1
     DEF obex_transport_connect_request, inobex_connect_request,
         irobex_connect_request, btobex_connect_request, inobex_connect_fails,
         Connects, FreeSocket, OnlyOf, SockTypeOK
<1>4. fd'[h] # d
  BY DEF Lost, Holds
<1>5. InUse(d)' => InUse(d)
  BY <1>0, <1>2, <1>4
     DEF InUse, Connects, FreeSocket, obex_delete_socket, SockTypeOK
<1>6. Holds(h, d) /\ ~Holds(h, d)'
  BY <1>3, <1>5, LetGo
<1>7. fd[h] = d /\ fd[h] # INVALID_SOCKET
  BY <1>1, <1>6, NoSuchSocket DEF Holds
<1>8. ~FreeSocket(h)
  BY <1>7 DEF FreeSocket, obex_delete_socket, Lost
<1>9. type[h] = "INET"
  BY <1>2, <1>7, <1>8
<1>10. QED
  BY <1>1, <1>7, <1>9 DEF Overwritten

LEMMA FdSetupLoses ==
  ASSUME TypeOK, Owned, NEW d \in Socket, ~Lost(d), Lost(d)',
         NEW h \in Handle, NEW rfd, NEW wfd,
         FdOBEX_TransportSetup(h, rfd, wfd)
  PROVE  Mistaken(d)
<1>1. type[h] = "FD" /\ UNCHANGED <<serverfd, table>>
  BY DEF FdOBEX_TransportSetup
<1>2. OnlyOf(h)
  BY TypeOKParts DEF FdOBEX_TransportSetup, OnlyOf, SockTypeOK
<1>3. InUse(d) /\ Holds(h, d)
  BY <1>1, <1>2, LetGo DEF InUse
<1>4. QED
  BY <1>1, <1>3, FilesNotInUse

LEMMA DisconnectLoses ==
  ASSUME TypeOK, Owned, NEW d \in Socket, ~Lost(d), Lost(d)',
         NEW h \in Handle, OBEX_TransportDisconnect(h)
  PROVE  Mistaken(d)
<1>0. SockTypeOK
  BY TypeOKParts
<1>1. CASE UNCHANGED sockVars
  <2>1. FALSE
    BY <1>1, SocketsSameLoses DEF sockVars, InUse
  <2>2. QED
    BY <2>1
<1>2. CASE \E max : DisconnectSocket(h, max)
  <2>1. /\ UNCHANGED <<serverfd, writefd>>
        /\ table' = obex_delete_socket(fd[h])
        /\ fd' = [fd EXCEPT ![h] = INVALID_SOCKET] \/ UNCHANGED fd
    BY <1>2 DEF DisconnectSocket
  <2>2. OnlyOf(h) /\ (InUse(d)' => InUse(d))
    BY <1>0, <2>1 DEF OnlyOf, InUse, obex_delete_socket, SockTypeOK
  <2>3. Holds(h, d) /\ ~Holds(h, d)'
    BY <2>2, LetGo
  <2>4. fd[h] = d
    BY <2>1, <2>3 DEF Holds
  <2>5. table'[d] = "closed"
    BY <2>1, <2>4 DEF obex_delete_socket
  <2>6. QED
    BY <2>5 DEF Lost
<1>3. CASE /\ type[h] = "FD"
           /\ fd' = [fd EXCEPT ![h] = INVALID_SOCKET]
           /\ writefd' = [writefd EXCEPT ![h] = INVALID_SOCKET]
           /\ UNCHANGED <<serverfd, table>>
  <2>1. OnlyOf(h)
    BY <1>0, <1>3 DEF OnlyOf, SockTypeOK
  <2>2. InUse(d) /\ Holds(h, d)
    BY <1>3, <2>1, LetGo DEF InUse
  <2>3. QED
    BY <1>3, <2>2, FilesNotInUse
<1>4. QED
  BY <1>1, <1>2, <1>3
     DEF OBEX_TransportDisconnect, Disconnect, inobex_disconnect_request,
         irobex_disconnect_request, btobex_disconnect_request

LEMMA NextLoses ==
  ASSUME OwnInv, [Next]_vars, NEW d \in Socket, ~Lost(d), Lost(d)'
  PROVE  Overwritten(d) \/ Mistaken(d)
<1>0. TypeOK /\ Place /\ Owned
  BY DEF OwnInv
<1>1. CASE UNCHANGED sockVars
  BY <1>1, SocketsSameLoses DEF sockVars, InUse
<1>2. CASE UNCHANGED vars
  BY <1>1, <1>2 DEF vars
<1>3. ASSUME NEW n \in Socket, World(n) PROVE FALSE
  <2>1. UNCHANGED <<fd, serverfd, writefd>>
    BY <1>3 DEF World, FileOpens, FileCloses, Arrives
  <2>2. InUse(d)' => InUse(d)
    BY <1>0, <1>3, TypeOKParts
       DEF World, FileOpens, FileCloses, Arrives, InUse, SockTypeOK
  <2>3. QED
    BY <2>1, <2>2, SocketsSameLoses
<1>4. ASSUME NEW h \in Handle,
             \/ UsbStep(h)
             \/ CustomConnect(h)
             \/ \E t \in types, keep \in BOOLEAN : OBEX_Init(h, t, keep)
      PROVE  Overwritten(d) \/ Mistaken(d)
  <2>1. UNCHANGED sockVars
    BY <1>4 DEF UsbStep, OBEX_FreeInterfaces, HandleInputUsb, CustomConnect,
                OBEX_EnumerateInterfaces, OBEX_InterfaceConnect, OBEX_Init
  <2>2. QED
    BY <1>1, <2>1
<1>5. ASSUME NEW h \in Handle,
             \/ OBEX_TransportConnect(h) \/ TcpOBEX_TransportConnect(h)
             \/ IrOBEX_TransportConnect(h) \/ BtOBEX_TransportConnect(h)
      PROVE  Overwritten(d)
  BY <1>0, <1>5, ConnectLoses
     DEF OBEX_TransportConnect, TcpOBEX_TransportConnect,
         IrOBEX_TransportConnect, BtOBEX_TransportConnect
<1>6. QED
  BY <1>0, <1>2, <1>3, <1>4, <1>5, CleanupLoses, ListenLoses, AcceptLoses,
     SplitLoses, FdSetupLoses, DisconnectLoses
     DEF Next, UsbStep, World

(* In any order of calls over any mix of transports: a socket is lost only *)
(* by accepting or connecting (TCP) over one that is held, by listening    *)
(* twice, or where a failed close had left its number to a handle of       *)
(* descriptors.                                                            *)
THEOREM LosesOnly == Spec => LosesOnlyOverwritten
<1>1. Init => OwnInv
  BY InitTypes, InitOwned DEF OwnInv
<1>2. OwnInv /\ [Next]_vars => OwnInv'
  BY NextInv
<1>3. OwnInv /\ [Next]_vars =>
        [\A d \in Socket :
           ~Lost(d) /\ Lost(d)' => Overwritten(d) \/ Mistaken(d)]_vars
  BY NextLoses
<1>4. QED
  BY <1>1, <1>2, <1>3, PTL DEF Spec, LosesOnlyOverwritten
===========================================================================
