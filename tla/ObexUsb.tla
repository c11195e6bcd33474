------------------------------ MODULE ObexUsb ------------------------------
(***************************************************************************)
(* The USB transport of the handles of one process: the list of interfaces *)
(* a handle has found, the interface it was told to connect to, the device *)
(* it has opened and the interfaces it has claimed (usbobex.c for libusb   *)
(* 0.1, usb1obex.c for libusb 1.0). As in ObexSockets a definition is one  *)
(* call of the transport.                                                  *)
(*                                                                         *)
(* Using a device or a library context that was never made or is gone is   *)
(* undefined; the outcome taken is that the process crashes.               *)
(***************************************************************************)
EXTENDS UsbDiscovery, Integers

CONSTANTS
  UsbHandle,   \* instances of obex_t
  Bus,         \* the devices on the bus, see UsbDiscovery
  Absent       \* no list, no interface

VARIABLES
  backend,      \* the library of the build
  permitted,    \* the process may open USB devices
  context,      \* libusb_ctx of libusb 1.0: "none", "live", "dead"
  crashed,
  interfaces,   \* per handle: the list found, or Absent
  usb,          \* per handle: trans.self.usb, an interface, or Absent
  dev,          \* per handle: trans.self.usb.dev: "none" is no open device
  claims,       \* per handle: the <<device, interface>> it has claimed
  replaced      \* history: handles whose trans.self.usb was replaced while
                \* they were connected

usbVars == <<backend, permitted, context, crashed, interfaces, usb, dev,
             claims, replaced>>

(* What there is to find with each library, and what of it is any good. *)
Interfaces0 == ToSet(find_interfaces("libusb-0.1", Bus))
Interfaces1 == ToSet(find_interfaces("libusb-1.0", Bus))
Interfaces == IF backend = "libusb-0.1" THEN Interfaces0 ELSE Interfaces1
Carrying == {i \in Interfaces0 \union Interfaces1 : CanCarry(Bus, i)}
FoundCanCarry == Interfaces0 \union Interfaces1 \subseteq Carrying
Control(i) == <<i.device, i.link.control>>
Data(i) == <<i.device, i.link.data>>
Claimable ==
  {Control(i) : i \in Interfaces} \union {Data(i) : i \in Interfaces}

UsbTypeOK ==
  /\ backend \in Backends
  /\ permitted \in BOOLEAN
  /\ context \in {"none", "live", "dead"}
  /\ crashed \in BOOLEAN
  /\ interfaces \in [UsbHandle -> (SUBSET Interfaces) \union {Absent}]
  /\ usb \in [UsbHandle -> Interfaces \union {Absent}]
  /\ dev \in [UsbHandle -> {"none", "open", "garbage"}]
  /\ claims \in [UsbHandle -> SUBSET Claimable]
  /\ replaced \subseteq UsbHandle

(* A process that does not use USB is counted once. *)
UsbInit(used) ==
  /\ backend \in IF used THEN Backends ELSE {"libusb-0.1"}
  /\ permitted \in IF used THEN BOOLEAN ELSE {TRUE}
  /\ context = "none"
  /\ crashed = FALSE
  /\ interfaces = [h \in UsbHandle |-> Absent]
  /\ usb = [h \in UsbHandle |-> Absent]
  /\ dev = [h \in UsbHandle |-> "none"]
  /\ claims = [h \in UsbHandle |-> {}]
  /\ replaced = {}

UsbCrashIn(ctx) ==
  /\ crashed' = TRUE
  /\ context' = ctx
  /\ UNCHANGED <<backend, permitted, interfaces, usb, dev, claims, replaced>>

UsbCrash == UsbCrashIn(context)

(* A device can be used while it and the library context are open. *)
DeviceUsable(h) == dev[h] = "open" /\ context # "dead"

(***************************************************************************)
(* Finding and freeing interfaces.                                         *)
(***************************************************************************)
(* libusb 1.0 is left when a list is freed, and its context kept. *)
Freed(h) == IF interfaces[h] # Absent /\ context # "none"
              THEN "dead" ELSE context

(* Freeing a list releases its devices, and leaves the context: it must be *)
(* live.                                                                   *)
FreeCrashes(h) == interfaces[h] # Absent /\ context = "dead"

(* usbobex_free_interfaces, after which OBEX_FreeInterfaces drops the list. *)
usbobex_free_interfaces(h) ==
  IF FreeCrashes(h) THEN UsbCrash
  ELSE /\ context' = Freed(h)
       /\ interfaces' = [interfaces EXCEPT ![h] = Absent]
       /\ UNCHANGED <<backend, permitted, crashed, usb, dev, claims, replaced>>

(* The names of each interface found are asked from its device: libusb 0.1 *)
(* is handed what usb_open returned, whatever that was.                    *)
FindCrashes(ctx) ==
  IF backend = "libusb-1.0" THEN ctx = "dead"
  ELSE ~permitted /\ Interfaces # {}

(* libusb 1.0 is started when it was not; if it does not start, there are  *)
(* no devices.                                                             *)
Started(h, list) ==
  (IF backend = "libusb-1.0" THEN {"live"} ELSE {Freed(h)})
    \union (IF list \in {{}, Absent} THEN {Freed(h)} ELSE {})

(* usbobex_find_interfaces, called by OBEX_EnumerateInterfaces when it has *)
(* freed the list before. Nodes, or the whole list, are left out when      *)
(* there is no memory for them.                                            *)
usbobex_find_interfaces(h) ==
  IF FreeCrashes(h) THEN UsbCrash
  ELSE IF FindCrashes(Freed(h)) THEN UsbCrashIn(Freed(h))
  ELSE \E list \in (SUBSET Interfaces) \union {Absent} :
         /\ interfaces' = [interfaces EXCEPT ![h] = list]
         /\ context' \in Started(h, list)
         /\ UNCHANGED <<backend, permitted, crashed, usb, dev, claims, replaced>>

(***************************************************************************)
(* Connecting.                                                             *)
(***************************************************************************)
(* usbobex_prepare_connect: the interface is copied with its dev, which is *)
(* not set in a list, over the one in use.                                 *)
usbobex_prepare_connect(h, i) == [usb EXCEPT ![h] = i]

Others(h) == UNION {claims[g] : g \in UsbHandle \ {h}}

(* What is claimed when `done` of the four calls have succeeded: claim the *)
(* control interface, set it, claim the data interface, set it.            *)
Claimed(i, done) ==
  (IF done >= 1 THEN {Control(i)} ELSE {}) \union
  (IF done >= 3 THEN {Data(i)} ELSE {})

(* Variant: without the data interface the control interface stays. *)
ReleasedLast(i, done) == IF done >= 3 THEN {Data(i)} ELSE {}

(* err1, err2, err3: what is released; the device is closed in each case.  *)
Released(i, done) ==
  (IF done >= 3 THEN {Data(i)} ELSE {}) \union
  (IF done >= 1 THEN {Control(i)} ELSE {})

(* The calls after the device was opened. *)
UsbClaims(h, i, r) ==
  \E done \in 0..4 :
    /\ Claimed(i, done) \intersect Others(h) = {}
    /\ r = IF done = 4 THEN 1 ELSE -1
    /\ claims' = [claims EXCEPT ![h] =
         IF done = 4 THEN @ \union Claimed(i, done)
         ELSE (@ \union Claimed(i, done)) \ Released(i, done)]
    /\ dev' = [dev EXCEPT ![h] = IF done = 4 THEN "open" ELSE "none"]

(* usbobex_connect_request with the interface i in trans.self.usb. *)
usbobex_connect_request(h, i, r) ==
  IF context = "dead" \/ (backend = "libusb-0.1" /\ ~permitted)
    THEN r = -1 /\ UsbCrash
    ELSE /\ \/ permitted /\ UsbClaims(h, i, r)
            \/ ~permitted /\ r = -1 /\ UNCHANGED <<claims, dev>>
         /\ usb' = usbobex_prepare_connect(h, i)
         /\ UNCHANGED <<backend, permitted, context, crashed, interfaces, replaced>>

(* OBEX_InterfaceConnect on a handle that is connected: the copy only. *)
Replace(h, i) ==
  /\ usb' = usbobex_prepare_connect(h, i)
  /\ dev' = [dev EXCEPT ![h] = "garbage"]
  /\ replaced' = replaced \union {h}
  /\ UNCHANGED <<backend, permitted, context, crashed, interfaces, claims>>

(***************************************************************************)
(* Disconnecting.                                                          *)
(***************************************************************************)
(* usbobex_disconnect_request of a connected handle; what fails is not     *)
(* acted upon.                                                             *)
usbobex_disconnect_request(h) ==
  IF ~DeviceUsable(h) THEN UsbCrash
  ELSE /\ claims' = [claims EXCEPT ![h] = {}]
       /\ dev' = [dev EXCEPT ![h] = "none"]
       /\ UNCHANGED <<backend, permitted, context, crashed, interfaces, usb,
                      replaced>>

(* A bulk transfer of a connected handle. *)
UsbTransfer(h) == IF DeviceUsable(h) THEN UNCHANGED usbVars ELSE UsbCrash
===========================================================================
