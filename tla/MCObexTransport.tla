-------------------------- MODULE MCObexTransport --------------------------
(***************************************************************************)
(* The instance of ObexTransport that is checked.                          *)
(***************************************************************************)
EXTENDS ObexTransport

In(a) == [addr |-> a, in |-> TRUE, bulk |-> TRUE]
Out(a) == [addr |-> a, in |-> FALSE, bulk |-> TRUE]
Control0(n, extra) == [number |-> n, setting |-> 0, obex |-> TRUE,
                       endpoints |-> <<>>, extra |-> extra]
Data0(n, s, eps) == [number |-> n, setting |-> s, obex |-> FALSE,
                     endpoints |-> eps, extra |-> <<>>]
Union(n) == [kind |-> "union", slave |-> n]
Extra(k) == [kind |-> k, slave |-> 0]

(* A telephone with two services, whose unions come before and after other *)
(* descriptors and whose endpoints come in either order; its second        *)
(* configuration has an interface without an idle setting. A device whose  *)
(* control interfaces name a data interface with two endpoints the same    *)
(* way, one with a interrupt endpoint, and none at all.                    *)
MCBus ==
  << << << Control0(1, <<Extra("other"), Union(2), Union(4), Extra("service")>>),
           Data0(2, 0, <<>>), Data0(2, 1, <<In(1), Out(2)>>),
           Control0(3, <<Extra("garbage"), Union(4)>>),
           Data0(4, 1, <<Out(3), In(4)>>), Data0(4, 0, <<>>) >>,
        << Control0(1, <<Union(2)>>), Data0(2, 1, <<In(1), Out(2)>>) >> >>,
     << << Control0(1, <<Union(2)>>), Data0(2, 0, <<>>),
           Data0(2, 1, <<In(1), In(2)>>),
           Control0(3, <<Union(4)>>), Data0(4, 0, <<>>),
           Data0(4, 1, <<[addr |-> 1, in |-> TRUE, bulk |-> FALSE], Out(2)>>),
           Control0(5, <<Extra("service")>>) >> >> >>

(* Closing fails, once, over Bluetooth only. *)
MCMaxKept == [INET |-> 0, IRDA |-> 0, BLUETOOTH |-> 1]

(* Every interface that is found on this bus can carry OBEX. *)
ASSUME MCBusCarries == FoundCanCarry

(* No action tells one handle from another. *)
MCHandles == Permutations(Handle)
===========================================================================
