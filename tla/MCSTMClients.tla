------------------------------ MODULE MCSTMClients ------------------------------
(* Of two takers one asks for a retry with retry(), the other with          *)
(* txn.retry(); X holds too little at first, as in the demo.  The depositors*)
(* and the direct writer bring what is missing.                             *)
EXTENDS STMClients

CONSTANTS t1, t2, t3, t4

MCTakers == {t1, t2}
MCDepositors == {t3, t4}
MCThreads == MCTakers \cup MCDepositors
MCTVars == {AccX, AccY}
MCDirect == {AccX}
MCStyle == [t \in MCTakers |-> IF t = t1 THEN "raise" ELSE "flag"]
MCProgram == [t \in MCDepositors |-> IF t = t3 THEN <<AccX>> ELSE <<AccY, AccX>>]
================================================================================
