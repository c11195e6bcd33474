--------------------------- MODULE UsbDiscovery ---------------------------
(***************************************************************************)
(* How the USB transport finds the OBEX interfaces of the devices on the   *)
(* bus (usbobex.c for libusb 0.1, usb1obex.c for libusb 1.0, usbutils.c).  *)
(*                                                                         *)
(* A bus is a sequence of devices, a device a sequence of configurations,  *)
(* a configuration a sequence of interface settings:                       *)
(*   number      bInterfaceNumber                                          *)
(*   setting     bAlternateSetting                                         *)
(*   obex        its class is CDC and its subclass OBEX                    *)
(*   endpoints   a sequence of [addr, in, bulk]                            *)
(*   extra       the class descriptors: a sequence of [kind, slave], kind  *)
(*               "union", "service", "other" (a known type that is         *)
(*               skipped) or "garbage" (not a class descriptor)            *)
(* Names, strings and version numbers are left out.                        *)
(***************************************************************************)
EXTENDS Naturals, Sequences, SequencesExt

(* The values of `backend`, a choice of the build. *)
Backends == {"libusb-0.1", "libusb-1.0"}

(* libusb 0.1 is asked for all configurations of a device, 1.0 only for    *)
(* the active one, here the first.                                         *)
Configurations(backend, device) ==
  IF backend = "libusb-0.1" THEN device ELSE SubSeq(device, 1, 1)

(* The two endpoints of an active setting: a bulk endpoint each way, in    *)
(* either order.                                                           *)
IsActive(s) ==
  /\ Len(s.endpoints) = 2
  /\ \A k \in 1..2 : s.endpoints[k].bulk
  /\ s.endpoints[1].in # s.endpoints[2].in

IsIdle(s) == s.endpoints = <<>>

(* find_eps: what one setting of the data interface adds to the link. *)
find_eps(link, s) ==
  IF IsActive(s)
    THEN LET in == IF s.endpoints[1].in THEN 1 ELSE 2
         IN  [link EXCEPT !.active = <<s.setting>>,
                          !.read  = s.endpoints[in].addr,
                          !.write = s.endpoints[3 - in].addr]
    ELSE IF IsIdle(s) THEN [link EXCEPT !.idle = <<s.setting>>] ELSE link

(* The first union descriptor counts, later ones are skipped. *)
Unions(extra) == SelectSeq(extra, LAMBDA x : x.kind = "union")

(* find_obex_service_descriptor: whether the interface names its service. *)
find_obex_service_descriptor(extra) ==
  \E k \in DOMAIN extra : extra[k].kind = "service"

(* find_obex_data_interface: the data interface of control setting s with  *)
(* its settings and endpoints, over all settings of the configuration. The *)
(* last active and the last idle setting win.                              *)
find_obex_data_interface(config, s) ==
  LET slave == Unions(s.extra)[1].slave
      none  == [control |-> s.number, data |-> slave, active |-> <<>>,
                idle |-> <<>>, read |-> 0, write |-> 0,
                service |-> find_obex_service_descriptor(s.extra)]
  IN  FoldLeft(find_eps, none,
               SelectSeq(config, LAMBDA t : t.number = slave))

(* check_intf: the interface that setting s offers, as a sequence of at    *)
(* most one.                                                               *)
check_intf(config, s) ==
  IF ~s.obex \/ Unions(s.extra) = <<>> THEN <<>>
  ELSE LET link == find_obex_data_interface(config, s)
       IN  IF link.idle = <<>> \/ link.active = <<>> THEN <<>> ELSE <<link>>

(* usbobex_find_interfaces, the loops over devices, configurations and     *)
(* settings.                                                               *)
InConfiguration(d, config) ==
  FlattenSeq([k \in 1..Len(config) |->
    [j \in 1..Len(check_intf(config, config[k])) |->
       [device |-> d, link |-> check_intf(config, config[k])[j]]]])

find_interfaces(backend, bus) ==
  FlattenSeq([d \in 1..Len(bus) |->
    LET configs == Configurations(backend, bus[d])
    IN  FlattenSeq([c \in 1..Len(configs) |-> InConfiguration(d, configs[c])])])

(* Reference: interface i of bus can carry OBEX. Its data interface has a  *)
(* setting without endpoints and the setting that will be selected has     *)
(* the endpoint to read from as a bulk IN and the one to write to as a     *)
(* bulk OUT endpoint, all in one configuration of the device, in which an  *)
(* OBEX control setting names that data interface.                         *)
CanCarry(bus, i) ==
  \E c \in 1..Len(bus[i.device]) :
    LET settings == ToSet(bus[i.device][c])
        of(t, e) == \E k \in DOMAIN t.endpoints : t.endpoints[k] = e
    IN  /\ \E s \in settings :
             /\ s.obex /\ s.number = i.link.control
             /\ \E k \in DOMAIN s.extra :
                  s.extra[k] = [kind |-> "union", slave |-> i.link.data]
        /\ \E t \in settings :
             /\ t.number = i.link.data /\ i.link.idle = <<t.setting>>
             /\ t.endpoints = <<>>
        /\ \E t \in settings :
             /\ t.number = i.link.data /\ i.link.active = <<t.setting>>
             /\ of(t, [addr |-> i.link.read, in |-> TRUE, bulk |-> TRUE])
             /\ of(t, [addr |-> i.link.write, in |-> FALSE, bulk |-> TRUE])
===========================================================================
