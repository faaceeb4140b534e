-------------------------------- MODULE LockBank --------------------------------
(****************************************************************************)
(* The bank of python/shared_memory_lock/bank_account.py: one               *)
(* threading.Lock per account, deposit, withdraw, get_balance under the     *)
(* account's lock, transfer under both locks, the one with the smaller      *)
(* account_id first.                                                        *)
(*                                                                          *)
(* balance += amount is a load and a store, two steps here.  The locks are  *)
(* not reentrant.  Accounts are objects: two of them may have the same      *)
(* account_id, and a transfer may name one account twice.                   *)
(****************************************************************************)
EXTENDS Integers, Sequences, FiniteSets

CONSTANTS Threads, Accounts, NoThread,
          Id,           (* Id[a]: a.account_id, as its rank in the order     *)
          InitBalance,  (* opening balances                                  *)
          Jobs          (* Jobs[t]: the calls thread t makes, in order       *)

Kinds == {"get", "deposit", "withdraw", "transfer"}
Job == [kind : Kinds, from : Accounts, to : Accounts, amount : Int]

ASSUME AccountsAssumption ==
  /\ NoThread \notin Threads
  /\ Id \in [Accounts -> Nat]
  /\ InitBalance \in [Accounts -> Nat]
  /\ Jobs \in [Threads -> Seq(Job)]

VARIABLES
  balance,  (* BankAccount.balance                                          *)
  owner,    (* who holds BankAccount._lock                                  *)
  pc,       (* where the thread is in its call                              *)
  taken,    (* number of locks the call holds                               *)
  step,     (* number of += and -= the call has made                        *)
  local,    (* the balance loaded by a += that has not stored yet           *)
  result,   (* what the call will return or raise                           *)
  results   (* what the calls of the thread have returned or raised         *)

vars == <<balance, owner, pc, taken, step, local, result, results>>

Result == [status : {"ok", "refused"}, val : Int]
Ok == [status |-> "ok", val |-> 0]
Refused == [status |-> "refused", val |-> 0]

TypeOK ==
  /\ balance \in [Accounts -> Int]
  /\ owner \in [Accounts -> Threads \cup {NoThread}]
  /\ pc \in [Threads -> {"idle", "lock", "load", "store", "unlock"}]
  /\ taken \in [Threads -> 0..2]
  /\ step \in [Threads -> 0..2]
  /\ local \in [Threads -> Int]
  /\ result \in [Threads -> Result]
  /\ results \in [Threads -> Seq(Result)]
  /\ \A t \in Threads : Len(results[t]) <= Len(Jobs[t])

Init == /\ balance = InitBalance
        /\ owner = [a \in Accounts |-> NoThread]
        /\ pc = [t \in Threads |-> "idle"]
        /\ taken = [t \in Threads |-> 0]
        /\ step = [t \in Threads |-> 0]
        /\ local = [t \in Threads |-> 0]
        /\ result = [t \in Threads |-> Ok]
        /\ results = [t \in Threads |-> <<>>]

--------------------------------------------------------------------------------
HasJob(t) == Len(results[t]) < Len(Jobs[t])
TheJob(t) == Jobs[t][Len(results[t]) + 1]

(* sorted([from_account, to_account], key=account_id): a stable sort.       *)
ArgumentOrder(from, to) == <<from, to>>
LockOrder(from, to) == IF Id[to] < Id[from] THEN <<to, from>> ELSE <<from, to>>

SourceLockOnly(job) == IF job.kind = "deposit" THEN <<job.to>> ELSE <<job.from>>
Locks(job) == IF job.kind = "transfer" THEN LockOrder(job.from, job.to)
              ELSE IF job.kind = "deposit" THEN <<job.to>> ELSE <<job.from>>

(* The statements that change a balance, in their order.                    *)
Debit(job) == [acc |-> job.from, by |-> 0 - job.amount]
Credit(job) == [acc |-> job.to, by |-> job.amount]
Updates(job) == IF job.kind = "deposit" THEN <<Credit(job)>>
                ELSE IF job.kind = "withdraw" THEN <<Debit(job)>>
                ELSE <<Debit(job), Credit(job)>>

Call(t) == /\ pc[t] = "idle"
           /\ HasJob(t)
           /\ pc' = [pc EXCEPT ![t] = "lock"]
           /\ UNCHANGED <<balance, owner, taken, step, local, result, results>>

(* with lock: the next lock of the call, when it is free.                   *)
LockFree(a) == owner[a] = NoThread

Acquire(t) ==
  /\ pc[t] = "lock"
  /\ taken[t] < Len(Locks(TheJob(t)))
  /\ LET a == Locks(TheJob(t))[taken[t] + 1] IN
       /\ LockFree(a)
       /\ owner' = [owner EXCEPT ![a] = t]
  /\ taken' = [taken EXCEPT ![t] = @ + 1]
  /\ UNCHANGED <<balance, pc, step, local, result, results>>

(* The ValueErrors of a call: amounts first, funds second.                  *)
Raises(job) == \/ job.kind # "get" /\ job.amount <= 0
               \/ job.kind \in {"withdraw", "transfer"} /\ balance[job.from] < job.amount

(* All locks held: refuse, read, or start to change balances.               *)
Check(t) ==
  /\ pc[t] = "lock"
  /\ taken[t] = Len(Locks(TheJob(t)))
  /\ \/ /\ Raises(TheJob(t))
        /\ result' = [result EXCEPT ![t] = Refused]
        /\ pc' = [pc EXCEPT ![t] = "unlock"]
     \/ /\ ~Raises(TheJob(t))
        /\ TheJob(t).kind = "get"
        /\ result' = [result EXCEPT ![t] = [Ok EXCEPT !.val = balance[TheJob(t).from]]]
        /\ pc' = [pc EXCEPT ![t] = "unlock"]
     \/ /\ ~Raises(TheJob(t))
        /\ TheJob(t).kind # "get"
        /\ result' = [result EXCEPT ![t] = Ok]
        /\ pc' = [pc EXCEPT ![t] = "load"]
  /\ UNCHANGED <<balance, owner, taken, step, local, results>>

TheUpdate(t) == Updates(TheJob(t))[step[t] + 1]

Load(t) == /\ pc[t] = "load"
           /\ local' = [local EXCEPT ![t] = balance[TheUpdate(t).acc]]
           /\ pc' = [pc EXCEPT ![t] = "store"]
           /\ UNCHANGED <<balance, owner, taken, step, result, results>>

Store(t) ==
  /\ pc[t] = "store"
  /\ balance' = [balance EXCEPT ![TheUpdate(t).acc] = local[t] + TheUpdate(t).by]
  /\ LET last == step[t] + 1 = Len(Updates(TheJob(t))) IN
       /\ pc' = [pc EXCEPT ![t] = IF last THEN "unlock" ELSE "load"]
       /\ step' = [step EXCEPT ![t] = IF last THEN 0 ELSE @ + 1]
  /\ UNCHANGED <<owner, taken, local, result, results>>

(* Leaving a with block, inner one first; leaving the outer one returns.    *)
ReleaseUnlessRaised(t) ==
  /\ pc[t] = "unlock"
  /\ LET a == Locks(TheJob(t))[taken[t]] IN
       owner' = [owner EXCEPT ![a] = IF result[t] = Refused THEN @ ELSE NoThread]
  /\ taken' = [taken EXCEPT ![t] = @ - 1]
  /\ IF taken[t] = 1
     THEN /\ pc' = [pc EXCEPT ![t] = "idle"]
          /\ results' = [results EXCEPT ![t] = Append(@, result[t])]
     ELSE UNCHANGED <<pc, results>>
  /\ UNCHANGED <<balance, step, local, result>>

ReleaseRetrying(t) ==
  /\ pc[t] = "unlock"
  /\ LET a == Locks(TheJob(t))[taken[t]] IN
       owner' = [owner EXCEPT ![a] = NoThread]
  /\ taken' = [taken EXCEPT ![t] = @ - 1]
  /\ IF taken[t] = 1
     THEN /\ pc' = [pc EXCEPT ![t] = "idle"]
          /\ results' = IF result[t] = Refused THEN results
                        ELSE [results EXCEPT ![t] = Append(@, result[t])]
     ELSE UNCHANGED <<pc, results>>
  /\ UNCHANGED <<balance, step, local, result>>

Release(t) ==
  /\ pc[t] = "unlock"
  /\ LET a == Locks(TheJob(t))[taken[t]] IN
       owner' = [owner EXCEPT ![a] = NoThread]
  /\ taken' = [taken EXCEPT ![t] = @ - 1]
  /\ IF taken[t] = 1
     THEN /\ pc' = [pc EXCEPT ![t] = "idle"]
          /\ results' = [results EXCEPT ![t] = Append(@, result[t])]
     ELSE UNCHANGED <<pc, results>>
  /\ UNCHANGED <<balance, step, local, result>>

ThreadStep(t) == \/ Call(t) \/ Acquire(t) \/ Check(t) \/ Load(t) \/ Store(t)
                 \/ Release(t)

Ended(t) == pc[t] = "idle" /\ ~HasJob(t)

(* for t in threads: t.join(), and the program exits.                       *)
Exit == (\A t \in Threads : Ended(t)) /\ UNCHANGED vars

Next == (\E t \in Threads : ThreadStep(t)) \/ Exit

Spec == Init /\ [][Next]_vars

(* The threads are scheduled; nothing is assumed of the order in which a    *)
(* lock is handed over.                                                     *)
FairSpec == Spec /\ \A t \in Threads : WF_vars(ThreadStep(t))
--------------------------------------------------------------------------------
(* A waiting call and the lock it waits for.                                *)
NextLock(t) == Locks(TheJob(t))[taken[t] + 1]
Blocked(t) == /\ pc[t] = "lock"
              /\ taken[t] < Len(Locks(TheJob(t)))
              /\ ~LockFree(NextLock(t))

(* No set of calls waits for itself (lines 45-48: "fixed-order locking on   *)
(* account_id to prevent deadlock"): while a call is unfinished, some       *)
(* thread can go on.                                                        *)
DeadlockFree == (\E t \in Threads : ~Ended(t)) =>
                  \E t \in Threads : ~Ended(t) /\ ~Blocked(t)

(* A balance may be changed by the two steps of a += of one thread while    *)
(* other threads check and change it under the same lock: it never goes     *)
(* below zero (lines 34, 55).                                               *)
NoOverdraft == \A a \in Accounts : balance[a] >= 0

(* Every call returns or raises in the end, whatever the order in which     *)
(* the locks are handed over.                                               *)
AllCallsReturn == <>(\A t \in Threads : Ended(t))

(* The balance an account is about to have: the call that passed its check  *)
(* under the lock counts as made, though its += and -= are not all done.    *)
Changing(t) == pc[t] \in {"load", "store"}
Due(t, i, a) == LET upd == Updates(TheJob(t)) IN
  IF i > step[t] /\ i <= Len(upd) /\ upd[i].acc = a THEN upd[i].by ELSE 0
Settled(a) ==
  IF owner[a] # NoThread /\ Changing(owner[a])
  THEN balance[a] + Due(owner[a], 1, a) + Due(owner[a], 2, a)
  ELSE balance[a]
Answered(t) == IF pc[t] \in {"load", "store", "unlock"}
               THEN Append(results[t], result[t]) ELSE results[t]

(* Every call takes effect, or is refused, at one instant, that of its      *)
(* check, and returns what that instant gives: the calls of all threads     *)
(* together behave as if they were made one at a time.                      *)
Bank == INSTANCE AtomicAccounts WITH balance <- [a \in Accounts |-> Settled(a)],
                                     answers <- [t \in Threads |-> Answered(t)]
CallsAreAtomic == Bank!Spec

--------------------------------------------------------------------------------
(* Why the properties hold: the parts of an inductive invariant.            *)

(* Where a call is, and what it has done so far.                            *)
InCall(t) == pc[t] # "idle"
CallOK(t) ==
  /\ ~InCall(t) => taken[t] = 0
  /\ InCall(t) => HasJob(t) /\ taken[t] <= Len(Locks(TheJob(t)))
  /\ pc[t] = "unlock" => taken[t] > 0
  /\ ~Changing(t) => step[t] = 0
  /\ Changing(t) => /\ taken[t] = Len(Locks(TheJob(t)))
                    /\ TheJob(t).kind # "get"
                    /\ TheJob(t).amount > 0
                    /\ step[t] < Len(Updates(TheJob(t)))
  /\ pc[t] = "store" => local[t] = balance[TheUpdate(t).acc]

(* A lock is held by the call that has taken it and not released it; no     *)
(* call holds one lock twice.                                               *)
Holds(t, a) == InCall(t) /\ \E i \in 1..2 : i <= taken[t] /\ Locks(TheJob(t))[i] = a
OwnerInv == \A t \in Threads : \A a \in Accounts : owner[a] = t <=> Holds(t, a)
TwoLocksInv == \A t \in Threads :
  InCall(t) /\ taken[t] = 2 => Locks(TheJob(t))[1] # Locks(TheJob(t))[2]

(* The money a call is about to take is still there.                        *)
Payable(t) == Changing(t) /\ step[t] = 0 /\ TheJob(t).kind \in {"withdraw", "transfer"}
                => balance[TheJob(t).from] >= TheJob(t).amount
FundsInv == NoOverdraft /\ \A t \in Threads : Payable(t)

IInv == TypeOK /\ (\A t \in Threads : CallOK(t)) /\ OwnerInv /\ TwoLocksInv /\ FundsInv
================================================================================
