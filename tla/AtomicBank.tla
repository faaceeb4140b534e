------------------------------- MODULE AtomicBank -------------------------------
(****************************************************************************)
(* What a bank of two accounts promises its clients, whatever protects it:  *)
(* every thread runs its transfers in order, a transfer happens at one      *)
(* instant, only when the source account can pay it, and is counted.        *)
(****************************************************************************)
EXTENDS Integers, Sequences

CONSTANTS Threads, Accounts, Jobs, InitBalance

VARIABLES balance,  (* money on each account                                *)
          count,    (* transfers made                                       *)
          served    (* number of jobs of each thread that have taken effect *)

vars == <<balance, count, served>>

Init == /\ balance = InitBalance
        /\ count = 0
        /\ served = [t \in Threads |-> 0]

Transfer(t) ==
  /\ served[t] < Len(Jobs[t])
  /\ LET job == Jobs[t][served[t] + 1] IN
       /\ balance[job.from] >= job.amount
       /\ balance' = [balance EXCEPT ![job.from] = @ - job.amount,
                                     ![job.to]   = @ + job.amount]
  /\ count' = count + 1
  /\ served' = [served EXCEPT ![t] = @ + 1]

Next == \E t \in Threads : Transfer(t)

Spec == Init /\ [][Next]_vars

(* A thread whose transfer stays payable gets it done.                      *)
FairSpec == Spec /\ \A t \in Threads : WF_vars(Transfer(t))
================================================================================
