------------------------------- MODULE MCLockBank -------------------------------
(* Three threads over three accounts; the transfers take the locks in every *)
(* order of arguments, some amounts are refused, one thread also reads.     *)
EXTENDS LockBank

CONSTANTS t1, t2, t3, accA, accB, accC

MCThreads == {t1, t2, t3}
MCAccounts == {accA, accB, accC}

Call1(kind, a, n) == [kind |-> kind, from |-> a, to |-> a, amount |-> n]
Move(a, b, n) == [kind |-> "transfer", from |-> a, to |-> b, amount |-> n]

MCDistinct == [a \in MCAccounts |-> IF a = accA THEN 1 ELSE IF a = accB THEN 2 ELSE 3]

MCOpening == [a \in MCAccounts |-> IF a = accA THEN 2 ELSE IF a = accB THEN 1 ELSE 0]

(* Transfers in a ring, with a deposit, withdrawals that may or may not     *)
(* find money, amounts that are not positive, and a read.                   *)
MCRing == [t \in MCThreads |->
  IF t = t1 THEN <<Move(accA, accB, 2), Call1("withdraw", accB, 1), Call1("deposit", accC, 0)>>
  ELSE IF t = t2 THEN <<Move(accB, accC, 1), Call1("deposit", accA, 1)>>
  ELSE <<Move(accC, accA, 1), Call1("get", accA, 0), Move(accA, accC, 0)>>]
================================================================================
