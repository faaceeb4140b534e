----------------------------- MODULE AtomicAccounts -----------------------------
(****************************************************************************)
(* What a set of bank accounts promises its clients, whatever protects it:  *)
(* each call takes effect at one instant, or is refused at one, and its     *)
(* result is the one that instant gives.                                    *)
(****************************************************************************)
EXTENDS Integers, Sequences

CONSTANTS Threads, Accounts, Jobs, InitBalance

VARIABLES balance,  (* money on each account                                *)
          answers   (* results of each thread's calls so far, in order      *)

vars == <<balance, answers>>

Init == balance = InitBalance /\ answers = [t \in Threads |-> <<>>]

Todo(t) == Len(answers[t]) < Len(Jobs[t])
Now(t) == Jobs[t][Len(answers[t]) + 1]

Answer(t, status, val) ==
  answers' = [answers EXCEPT ![t] = Append(@, [status |-> status, val |-> val])]

Covered(job) == balance[job.from] >= job.amount

Read(t) == /\ Todo(t) /\ Now(t).kind = "get"
           /\ Answer(t, "ok", balance[Now(t).from])
           /\ UNCHANGED balance

Deposit(t) == /\ Todo(t) /\ Now(t).kind = "deposit" /\ Now(t).amount > 0
              /\ balance' = [balance EXCEPT ![Now(t).to] = @ + Now(t).amount]
              /\ Answer(t, "ok", 0)

Withdraw(t) == /\ Todo(t) /\ Now(t).kind = "withdraw" /\ Now(t).amount > 0
               /\ Covered(Now(t))
               /\ balance' = [balance EXCEPT ![Now(t).from] = @ - Now(t).amount]
               /\ Answer(t, "ok", 0)

Transfer(t) == /\ Todo(t) /\ Now(t).kind = "transfer" /\ Now(t).amount > 0
               /\ Covered(Now(t))
               /\ balance' = [balance EXCEPT ![Now(t).from] = @ - Now(t).amount,
                                             ![Now(t).to]   = @ + Now(t).amount]
               /\ Answer(t, "ok", 0)

Refuse(t) == /\ Todo(t) /\ Now(t).kind # "get"
             /\ \/ Now(t).amount <= 0
                \/ Now(t).kind # "deposit" /\ ~Covered(Now(t))
             /\ Answer(t, "refused", 0)
             /\ UNCHANGED balance

Next == \E t \in Threads :
          Read(t) \/ Deposit(t) \/ Withdraw(t) \/ Transfer(t) \/ Refuse(t)

Spec == Init /\ [][Next]_vars
================================================================================
