------------------------------ MODULE MCPyChannel -------------------------------
(* Two senders and two receivers; an item is 10 * sender + its number.      *)
EXTENDS PyChannel

CONSTANTS s1, s2, r1, r2

MCWorkers == {s1, s2, r1, r2}

Op(op, item) == [op |-> op, item |-> item]

(* Senders that may find the buffer full or closed, receivers that outlast  *)
(* them, and a close while the others are busy.                             *)
MCDemo == [t \in MCWorkers |->
  IF t = s1 THEN <<Op("send", 11), Op("send", 12), Op("try_send", 13)>>
  ELSE IF t = s2 THEN <<Op("send", 21), Op("send", 22), Op("close", 0)>>
  ELSE IF t = r1 THEN <<Op("recv", 0), Op("recv", 0), Op("recv", 0)>>
  ELSE <<Op("try_recv", 0), Op("recv", 0), Op("recv", 0)>>]
================================================================================
