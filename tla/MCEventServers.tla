----------------------------- MODULE MCEventServers -----------------------------
(* Two clients, so that a descriptor is used again; one unit of each buffer  *)
(* is enough to fill it.                                                     *)
EXTENDS EventServers

CONSTANTS k1, k2

MCClients == {k1, k2}
MCMaxUnits == [c \in MCClients |-> IF c = k1 THEN 3 ELSE 1]
MCListener == 0
MCKinds == {"reactor", "protocol", "streams"}
================================================================================
