----------------------------- MODULE MCCondBuffers ------------------------------
(* Two producers and two consumers over a buffer of one place, and a main   *)
(* thread that closes it.                                                   *)
EXTENDS CondBuffers

CONSTANTS None, p1, p2, q1, q2, main

MCThreads == {p1, p2, q1, q2, main}
MCItems == {11, 12, 21, 22, None}
MCKinds == {"python", "cpp", "channel", "java", "scala", "asyncio"}

Op(op, item) == [op |-> op, item |-> item]
Recvs(n) == [i \in 1..n |-> Op("recv", None)]

OpsOnACondition == [t \in MCThreads |->
  CASE t = p1 -> <<Op("send", 11), Op("send", 12)>>
    [] t = p2 -> <<Op("send", 21), Op("send", 22)>>
    [] t = main -> <<>>
    [] OTHER -> Recvs(2)]
OpsWithClose == [OpsOnACondition EXCEPT ![main] = <<Op("close", None)>>,
                                        ![q1] = Recvs(4), ![q2] = Recvs(4)]
OpsOnOnePlace == [t \in MCThreads |->
  CASE t = p1 -> <<Op("send", 11), Op("trySend", 12)>>
    [] t = p2 -> <<Op("send", 21)>>
    [] t = main -> <<>>
    [] OTHER -> Recvs(1)]
OpsWithoutBound == [OpsOnOnePlace EXCEPT ![q2] = <<Op("tryRecv", None)>>]

MCOps == [k \in Kinds |-> CASE k \in {"python", "asyncio"} -> OpsOnACondition
                               [] k \in {"cpp", "channel"} -> OpsWithClose
                               [] k = "java" -> OpsOnOnePlace
                               [] OTHER -> OpsWithoutBound]

MCSize == [k \in Kinds |-> IF k \in {"java", "scala"} THEN 0 ELSE 1]
================================================================================
