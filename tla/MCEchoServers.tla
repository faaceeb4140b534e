----------------------------- MODULE MCEchoServers -----------------------------
(* Two clients and as many descriptors, so that a descriptor is used again. *)
EXTENDS EchoServers

CONSTANTS k1, k2

MCClients == {k1, k2}
MCMaxUnits == [c \in MCClients |-> 2]
MCListener == 0
MCNoFd == 99
MCKinds == {"select", "poll", "LT", "ET", "ONESHOT"}
MCSelect == {"select"}
================================================================================
