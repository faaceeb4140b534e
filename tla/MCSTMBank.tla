------------------------------- MODULE MCSTMBank -------------------------------
(* Three threads: one has to wait for the money another one brings.         *)
EXTENDS STMBank

CONSTANTS t1, t2, t3

MCThreads == {t1, t2, t3}
MCTVars == {AccA, AccB, Ledger}
MCInitBalance == [x \in {AccA, AccB} |-> IF x = AccA THEN 1 ELSE 2]

Move(x, y, n) == [from |-> x, to |-> y, amount |-> n]

(* t2's first transfer needs the money t1 or t3 puts on AccA.               *)
MCJobs == [t \in MCThreads |->
            CASE t = t1 -> <<Move(AccB, AccA, 1)>>
              [] t = t2 -> <<Move(AccA, AccB, 2)>>
              [] t = t3 -> <<Move(AccB, AccA, 1)>>]
================================================================================
