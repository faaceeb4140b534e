----------------------------- MODULE PyThreadsProofs ----------------------------
(****************************************************************************)
(* Two Python programs whose threads share state under locks.               *)
(*                                                                          *)
(* LockBank, for any threads, accounts and calls: who holds a lock, that no *)
(* balance is overdrawn, that the calls are atomic, and that the order of   *)
(* the account ids keeps the calls from waiting for each other.             *)
(*                                                                          *)
(* PyChannel, for any threads, calls and capacity: what is in the buffer,   *)
(* that None means the end, and that the calls are those of a FIFO channel  *)
(* made one at a time.                                                      *)
(****************************************************************************)
EXTENDS LockBank, PyChannel, WellFoundedInduction, TLAPS

(* The locks a call takes, and the updates it makes under them.             *)
LEMMA LocksShape ==
  ASSUME NEW job \in Job
  PROVE  /\ Len(Locks(job)) = 1 \/ Len(Locks(job)) = 2
         /\ Locks(job)[1] \in Accounts
         /\ job.kind = "transfer" =>
              /\ Len(Locks(job)) = 2 /\ Locks(job)[2] \in Accounts
              /\ \/ Locks(job)[1] = job.from /\ Locks(job)[2] = job.to /\ ~(Id[job.to] < Id[job.from])
                 \/ Locks(job)[1] = job.to /\ Locks(job)[2] = job.from /\ Id[job.to] < Id[job.from]
         /\ job.kind # "transfer" =>
              /\ Len(Locks(job)) = 1
              /\ Locks(job)[1] = IF job.kind = "deposit" THEN job.to ELSE job.from
BY DEF Locks, LockOrder, Job, Kinds

LEMMA UpdatesShape ==
  ASSUME NEW job \in Job
  PROVE  /\ job.kind = "deposit" => Len(Updates(job)) = 1 /\ Updates(job)[1] = Credit(job)
         /\ job.kind = "withdraw" => Len(Updates(job)) = 1 /\ Updates(job)[1] = Debit(job)
         /\ job.kind \notin {"deposit", "withdraw"} =>
              /\ Len(Updates(job)) = 2
              /\ Updates(job)[1] = Debit(job) /\ Updates(job)[2] = Credit(job)
BY DEF Updates, Job, Kinds

LEMMA CurrentJob ==
  ASSUME TypeOK, NEW t \in Threads, HasJob(t)
  PROVE  /\ TheJob(t) \in Job
         /\ TheJob(t).kind \in Kinds
         /\ TheJob(t).from \in Accounts /\ TheJob(t).to \in Accounts
         /\ TheJob(t).amount \in Int
<1>1. results[t] \in Seq(Result) /\ Jobs[t] \in Seq(Job)
  BY AccountsAssumption DEF TypeOK
<1>2. Len(results[t]) + 1 \in 1..Len(Jobs[t])
  BY <1>1 DEF HasJob
<1>3. TheJob(t) \in Job
  BY <1>1, <1>2 DEF TheJob
<1> QED BY <1>3 DEF Job

(* The update a call is about to make.                                      *)
LEMMA UpdateTyped ==
  ASSUME TypeOK, NEW t \in Threads, HasJob(t), TheJob(t).kind # "get",
         step[t] < Len(Updates(TheJob(t)))
  PROVE  /\ TheUpdate(t).acc \in Accounts /\ TheUpdate(t).by \in Int
         /\ Len(Updates(TheJob(t))) = 1 \/ Len(Updates(TheJob(t))) = 2
         /\ \/ /\ TheUpdate(t) = Debit(TheJob(t)) /\ step[t] = 0
               /\ TheJob(t).kind \in {"withdraw", "transfer"}
            \/ /\ TheUpdate(t) = Credit(TheJob(t))
               /\ \/ TheJob(t).kind = "deposit" /\ step[t] = 0
                  \/ TheJob(t).kind = "transfer" /\ step[t] = 1
<1> DEFINE job == TheJob(t)
<1>1. job \in Job /\ job.kind \in Kinds /\ job.from \in Accounts /\ job.to \in Accounts /\ job.amount \in Int
  BY CurrentJob
<1> HIDE DEF job
<1>2. step[t] < Len(Updates(job)) /\ job.kind \in {"deposit", "withdraw", "transfer"} /\ step[t] \in 0..2
  BY <1>1 DEF job, Kinds, TypeOK
<1>3. CASE job.kind = "deposit"
  <2>1. Len(Updates(job)) = 1 /\ Updates(job)[1] = Credit(job)
    BY <1>1, <1>3, UpdatesShape
  <2>2. step[t] = 0
    BY <1>2, <2>1
  <2> QED BY <1>1, <1>3, <2>1, <2>2 DEF TheUpdate, job, Credit
<1>4. CASE job.kind = "withdraw"
  <2>1. Len(Updates(job)) = 1 /\ Updates(job)[1] = Debit(job)
    BY <1>1, <1>4, UpdatesShape
  <2>2. step[t] = 0
    BY <1>2, <2>1
  <2> QED BY <1>1, <1>4, <2>1, <2>2 DEF TheUpdate, job, Debit
<1>5. CASE job.kind = "transfer"
  <2>1. Len(Updates(job)) = 2 /\ Updates(job)[1] = Debit(job) /\ Updates(job)[2] = Credit(job)
    BY <1>1, <1>5, UpdatesShape
  <2>2. step[t] = 0 \/ step[t] = 1
    BY <1>2, <2>1
  <2>3. CASE step[t] = 0
    BY <1>1, <1>5, <2>1, <2>3 DEF TheUpdate, job, Debit
  <2>4. CASE step[t] = 1
    BY <1>1, <1>5, <2>1, <2>4 DEF TheUpdate, job, Credit
  <2> QED BY <2>2, <2>3, <2>4
<1> QED BY <1>2, <1>3, <1>4, <1>5

(* The account a call is about to change, and the one it takes money from,  *)
(* are locked by the call.                                                  *)
LEMMA ChangesHeld ==
  ASSUME TypeOK, OwnerInv, NEW t \in Threads, CallOK(t), Changing(t)
  PROVE  /\ TheUpdate(t).acc \in Accounts /\ TheUpdate(t).by \in Int
         /\ owner[TheUpdate(t).acc] = t
         /\ TheJob(t).kind \in {"withdraw", "transfer"} => owner[TheJob(t).from] = t
         /\ TheJob(t).kind \in {"deposit", "transfer"} => owner[TheJob(t).to] = t
<1>1. InCall(t) /\ HasJob(t) /\ taken[t] = Len(Locks(TheJob(t))) /\ TheJob(t).kind # "get"
      /\ step[t] < Len(Updates(TheJob(t))) /\ step[t] \in 0..2
  BY DEF CallOK, Changing, InCall, TypeOK
<1> DEFINE job == TheJob(t)
<1>2. job \in Job /\ job.kind \in Kinds /\ job.from \in Accounts /\ job.to \in Accounts /\ job.amount \in Int
  BY <1>1, CurrentJob
<1> HIDE DEF job
<1>3. taken[t] = Len(Locks(job)) /\ job.kind # "get" /\ step[t] < Len(Updates(job))
  BY <1>1 DEF job
<1>4. /\ job.kind \in {"withdraw", "transfer"} => \E i \in 1..2 : i <= taken[t] /\ Locks(job)[i] = job.from
      /\ job.kind \in {"deposit", "transfer"} => \E i \in 1..2 : i <= taken[t] /\ Locks(job)[i] = job.to
  BY <1>2, <1>3, LocksShape
<1>5. /\ job.kind \in {"withdraw", "transfer"} => owner[job.from] = t
      /\ job.kind \in {"deposit", "transfer"} => owner[job.to] = t
  BY <1>1, <1>2, <1>4 DEF OwnerInv, Holds, job
<1>6. \/ TheUpdate(t) = Debit(job) /\ job.kind \in {"withdraw", "transfer"}
      \/ TheUpdate(t) = Credit(job) /\ job.kind \in {"deposit", "transfer"}
  BY <1>1, UpdateTyped DEF job
<1> QED BY <1>2, <1>5, <1>6 DEF job, Debit, Credit

--------------------------------------------------------------------------------
(* Type correctness, action by action.                                      *)
LEMMA TypeStep ==
  ASSUME TypeOK, NEW t \in Threads, CallOK(t), ThreadStep(t)
  PROVE  TypeOK'
<1>1. CASE Call(t)
  BY <1>1 DEF TypeOK, Call
<1>2. CASE Acquire(t)
  <2>1. HasJob(t) /\ taken[t] \in 0..2 /\ pc[t] = "lock"
    BY <1>2 DEF CallOK, InCall, Acquire, TypeOK
  <2>2. TheJob(t) \in Job
    BY <2>1, CurrentJob
  <2>3. /\ taken[t] < Len(Locks(TheJob(t)))
        /\ owner' = [owner EXCEPT ![Locks(TheJob(t))[taken[t] + 1]] = t]
        /\ taken' = [taken EXCEPT ![t] = @ + 1]
        /\ UNCHANGED <<balance, pc, step, local, result, results>>
    BY <1>2 DEF Acquire
  <2>4. (Len(Locks(TheJob(t))) = 1 \/ Len(Locks(TheJob(t))) = 2)
    BY <2>2, LocksShape
  <2>5. taken[t] + 1 \in 0..2
    BY <2>1, <2>3, <2>4
  <2> QED BY <2>3, <2>5 DEF TypeOK
<1>3. CASE Check(t)
  <2>1. HasJob(t)
    BY <1>3 DEF CallOK, InCall, Check
  <2>2. TheJob(t).from \in Accounts
    BY <2>1, CurrentJob
  <2>3. Refused \in Result /\ Ok \in Result
        /\ [Ok EXCEPT !.val = balance[TheJob(t).from]] \in Result
    BY <2>2 DEF Refused, Ok, Result, TypeOK
  <2>4. result' \in [Threads -> Result]
    <3>1. PICK r \in Result : result' = [result EXCEPT ![t] = r]
      BY <1>3, <2>3 DEF Check
    <3> QED BY <3>1 DEF TypeOK
  <2>5. pc' \in [Threads -> {"idle", "lock", "load", "store", "unlock"}]
    BY <1>3 DEF TypeOK, Check
  <2>6. UNCHANGED <<balance, owner, taken, step, local, results>>
    BY <1>3 DEF Check
  <2> QED BY <2>4, <2>5, <2>6 DEF TypeOK
<1>4. CASE Load(t)
  <2>1. HasJob(t) /\ Changing(t) /\ step[t] < Len(Updates(TheJob(t))) /\ step[t] \in 0..2
        /\ TheJob(t).kind # "get"
    BY <1>4 DEF CallOK, InCall, Load, Changing, TypeOK
  <2>2. TheUpdate(t).acc \in Accounts
    BY <2>1, UpdateTyped
  <2> QED BY <1>4, <2>2 DEF TypeOK, Load
<1>5. CASE Store(t)
  <2>1. HasJob(t) /\ Changing(t) /\ step[t] < Len(Updates(TheJob(t))) /\ step[t] \in 0..2
        /\ TheJob(t).kind # "get"
    BY <1>5 DEF CallOK, InCall, Store, Changing, TypeOK
  <2>2. TheUpdate(t).by \in Int
    BY <2>1, UpdateTyped
  <2>3. local[t] + TheUpdate(t).by \in Int
    BY <2>2 DEF TypeOK
  <2>4. Len(Updates(TheJob(t))) = 1 \/ Len(Updates(TheJob(t))) = 2
    BY <2>1, UpdateTyped
  <2>5. step[t] + 1 = Len(Updates(TheJob(t))) \/ step[t] + 1 \in 0..2
    <3>1. ASSUME NEW n \in {1, 2}, NEW k \in 0..2, k < n
          PROVE  k + 1 \in 0..2
      BY <3>1
    <3>2. Len(Updates(TheJob(t))) \in {1, 2} /\ step[t] < Len(Updates(TheJob(t)))
      BY <2>1, <2>4
    <3> QED BY <2>1, <3>1, <3>2
  <2>6. balance' \in [Accounts -> Int]
    BY <1>5, <2>3 DEF Store, TypeOK
  <2>7. pc' \in [Threads -> {"idle", "lock", "load", "store", "unlock"}]
    BY <1>5 DEF Store, TypeOK
  <2>8. step' \in [Threads -> 0..2]
    BY <1>5, <2>1, <2>5 DEF Store, TypeOK
  <2> QED BY <1>5, <2>6, <2>7, <2>8 DEF TypeOK, Store
<1>6. CASE Release(t)
  <2>1. HasJob(t) /\ taken[t] \in 1..2 /\ result[t] \in Result /\ results[t] \in Seq(Result)
    BY <1>6 DEF CallOK, InCall, Release, TypeOK
  <2>2. /\ owner' \in [Accounts -> Threads \cup {NoThread}]
        /\ taken' \in [Threads -> 0..2]
        /\ UNCHANGED <<balance, step, local, result>>
    <3>1. taken[t] - 1 \in 0..2
      BY <2>1
    <3>2. taken' = [taken EXCEPT ![t] = taken[t] - 1] /\ UNCHANGED <<balance, step, local, result>>
      BY <1>6 DEF Release
    <3>3. owner' = [owner EXCEPT ![Locks(TheJob(t))[taken[t]]] = NoThread]
      BY <1>6 DEF Release
    <3> QED BY <3>1, <3>2, <3>3 DEF TypeOK
  <2>3. CASE taken[t] = 1
    <3>1. pc' \in [Threads -> {"idle", "lock", "load", "store", "unlock"}]
      BY <1>6, <2>3 DEF Release, TypeOK
    <3>2. results' = [results EXCEPT ![t] = Append(@, result[t])]
      BY <1>6, <2>3 DEF Release
    <3>3. Append(results[t], result[t]) \in Seq(Result)
          /\ Len(Append(results[t], result[t])) <= Len(Jobs[t])
      BY <2>1, AccountsAssumption DEF HasJob
    <3>4. results' \in [Threads -> Seq(Result)] /\ \A u \in Threads : Len(results'[u]) <= Len(Jobs[u])
      BY <3>2, <3>3 DEF TypeOK
    <3> QED BY <2>2, <3>1, <3>4 DEF TypeOK
  <2>4. CASE taken[t] # 1
    BY <1>6, <2>2, <2>4 DEF Release, TypeOK
  <2> QED BY <2>3, <2>4
<1> QED BY <1>1, <1>2, <1>3, <1>4, <1>5, <1>6 DEF ThreadStep

--------------------------------------------------------------------------------
(* What a step of one thread leaves alone.                                  *)
Untouched(u) == /\ pc'[u] = pc[u] /\ taken'[u] = taken[u] /\ step'[u] = step[u]
                /\ local'[u] = local[u] /\ result'[u] = result[u] /\ results'[u] = results[u]

LEMMA OthersUntouched ==
  ASSUME TypeOK, NEW t \in Threads, ThreadStep(t), NEW u \in Threads, u # t
  PROVE  /\ Untouched(u)
         /\ TheJob(u)' = TheJob(u) /\ HasJob(u)' = HasJob(u)
         /\ TheUpdate(u)' = TheUpdate(u)
         /\ InCall(u)' = InCall(u) /\ Changing(u)' = Changing(u)
<1>1. Untouched(u)
  <2>1. CASE Call(t) BY <2>1 DEF Call, TypeOK, Untouched
  <2>2. CASE Acquire(t) BY <2>2 DEF Acquire, TypeOK, Untouched
  <2>3. CASE Check(t) BY <2>3 DEF Check, TypeOK, Untouched
  <2>4. CASE Load(t) BY <2>4 DEF Load, TypeOK, Untouched
  <2>5. CASE Store(t) BY <2>5 DEF Store, TypeOK, Untouched
  <2>6. CASE Release(t) BY <2>6 DEF Release, TypeOK, Untouched
  <2> QED BY <2>1, <2>2, <2>3, <2>4, <2>5, <2>6 DEF ThreadStep
<1>2. TheJob(u)' = TheJob(u) /\ HasJob(u)' = HasJob(u)
  BY <1>1 DEF Untouched, TheJob, HasJob
<1> QED BY <1>1, <1>2 DEF Untouched, TheUpdate, InCall, Changing

(* A step changes the balance of no account but one it has locked.          *)
LEMMA BalanceFrame ==
  ASSUME TypeOK, OwnerInv, NEW t \in Threads, CallOK(t), ThreadStep(t),
         NEW a \in Accounts, owner[a] # t
  PROVE  balance'[a] = balance[a]
<1>1. CASE Store(t)
  <2>1. Changing(t)
    BY <1>1 DEF Store, Changing
  <2>2. owner[TheUpdate(t).acc] = t
    BY <2>1, ChangesHeld
  <2> QED BY <1>1, <2>2 DEF Store, TypeOK
<1>2. CASE ~Store(t)
  BY <1>2 DEF ThreadStep, Call, Acquire, Check, Load, Release
<1> QED BY <1>1, <1>2

(* The call of another thread goes on as it was.                            *)
LEMMA OthersOK ==
  ASSUME TypeOK, OwnerInv, NEW t \in Threads, CallOK(t), ThreadStep(t),
         NEW u \in Threads, u # t, CallOK(u), Payable(u)
  PROVE  CallOK(u)' /\ Payable(u)'
<1>1. /\ Untouched(u)
      /\ TheJob(u)' = TheJob(u) /\ HasJob(u)' = HasJob(u)
      /\ TheUpdate(u)' = TheUpdate(u)
      /\ InCall(u)' = InCall(u) /\ Changing(u)' = Changing(u)
  BY OthersUntouched
<1>2. Changing(u) => /\ balance'[TheUpdate(u).acc] = balance[TheUpdate(u).acc]
                     /\ TheJob(u).kind \in {"withdraw", "transfer"} =>
                          balance'[TheJob(u).from] = balance[TheJob(u).from]
  <2> SUFFICES ASSUME Changing(u)
               PROVE  /\ balance'[TheUpdate(u).acc] = balance[TheUpdate(u).acc]
                      /\ TheJob(u).kind \in {"withdraw", "transfer"} =>
                           balance'[TheJob(u).from] = balance[TheJob(u).from]
    OBVIOUS
  <2>1. HasJob(u)
    BY DEF CallOK, Changing, InCall
  <2>2. TheUpdate(u).acc \in Accounts /\ TheJob(u).from \in Accounts
    BY <2>1, CurrentJob, ChangesHeld
  <2>3. owner[TheUpdate(u).acc] = u
        /\ (TheJob(u).kind \in {"withdraw", "transfer"} => owner[TheJob(u).from] = u)
    BY ChangesHeld
  <2> QED BY <2>2, <2>3, BalanceFrame
<1>3. CallOK(u)'
  BY <1>1, <1>2 DEF CallOK, Untouched, Changing
<1>4. Payable(u)'
  BY <1>1, <1>2 DEF Payable, Untouched
<1> QED BY <1>3, <1>4

(* The call of the thread that takes the step stays as CallOK says.         *)
LEMMA CallStep ==
  ASSUME TypeOK, OwnerInv, NEW t \in Threads, CallOK(t), ThreadStep(t)
  PROVE  CallOK(t)'
<1>1. CASE Call(t)
  <2>1. /\ pc[t] = "idle" /\ pc'[t] = "lock" /\ HasJob(t) /\ taken'[t] = taken[t]
        /\ step'[t] = step[t] /\ results' = results
    BY <1>1 DEF Call, TypeOK
  <2>2. HasJob(t)' /\ TheJob(t)' = TheJob(t)
    BY <2>1 DEF HasJob, TheJob
  <2>3. taken[t] = 0 /\ step[t] = 0
    BY <2>1 DEF CallOK, InCall, Changing
  <2>4. (Len(Locks(TheJob(t))) = 1 \/ Len(Locks(TheJob(t))) = 2)
    BY <2>1, CurrentJob, LocksShape
  <2> QED BY <2>1, <2>2, <2>3, <2>4 DEF CallOK, InCall, Changing
<1>2. CASE Acquire(t)
  <2>1. /\ pc[t] = "lock" /\ pc'[t] = "lock" /\ taken'[t] = taken[t] + 1
        /\ step'[t] = step[t] /\ results' = results /\ taken[t] < Len(Locks(TheJob(t)))
    BY <1>2 DEF Acquire, TypeOK
  <2>2. HasJob(t) /\ HasJob(t)' /\ TheJob(t)' = TheJob(t)
    BY <2>1 DEF HasJob, TheJob, CallOK, InCall
  <2>3. (Len(Locks(TheJob(t))) = 1 \/ Len(Locks(TheJob(t))) = 2) /\ taken[t] \in 0..2
    BY <2>2, CurrentJob, LocksShape DEF TypeOK
  <2>4. taken[t] + 1 <= Len(Locks(TheJob(t)))
    BY <2>1, <2>3
  <2> QED BY <2>1, <2>2, <2>4 DEF CallOK, InCall, Changing
<1>3. CASE Check(t)
  <2>1. /\ pc[t] = "lock" /\ taken'[t] = taken[t] /\ taken[t] = Len(Locks(TheJob(t)))
        /\ step'[t] = step[t] /\ results' = results
        /\ pc'[t] \in {"unlock", "load"}
        /\ pc'[t] = "load" => TheJob(t).kind # "get" /\ ~Raises(TheJob(t))
    BY <1>3 DEF Check, TypeOK
  <2>2. HasJob(t) /\ HasJob(t)' /\ TheJob(t)' = TheJob(t) /\ step[t] = 0
    BY <2>1 DEF HasJob, TheJob, CallOK, InCall, Changing
  <2>3. /\ TheJob(t) \in Job /\ TheJob(t).kind \in Kinds /\ TheJob(t).amount \in Int
        /\ (Len(Locks(TheJob(t))) = 1 \/ Len(Locks(TheJob(t))) = 2) /\ taken[t] \in 0..2
    BY <2>2, CurrentJob, LocksShape DEF TypeOK
  <2>4. taken[t] > 0
    <3>1. CASE Len(Locks(TheJob(t))) = 1 BY <2>1, <3>1
    <3>2. CASE Len(Locks(TheJob(t))) = 2 BY <2>1, <3>2
    <3> QED BY <2>3, <3>1, <3>2
  <2>5. TheJob(t).kind # "get" => 0 < Len(Updates(TheJob(t)))
    BY <2>3, UpdatesShape DEF Kinds
  <2>6. pc'[t] = "load" => TheJob(t).amount > 0
    BY <2>1, <2>3 DEF Raises
  <2> QED BY <2>1, <2>2, <2>4, <2>5, <2>6 DEF CallOK, InCall, Changing
<1>4. CASE Load(t)
  <2>1. /\ pc[t] = "load" /\ pc'[t] = "store" /\ UNCHANGED <<balance, taken, step, results>>
        /\ local'[t] = balance[TheUpdate(t).acc]
    BY <1>4 DEF Load, TypeOK
  <2>2. HasJob(t)' = HasJob(t) /\ TheJob(t)' = TheJob(t) /\ TheUpdate(t)' = TheUpdate(t)
    BY <2>1 DEF HasJob, TheJob, TheUpdate
  <2> QED BY <2>1, <2>2 DEF CallOK, InCall, Changing
<1>5. CASE Store(t)
  <2>1. /\ pc[t] = "store" /\ taken'[t] = taken[t] /\ results' = results
        /\ IF step[t] + 1 = Len(Updates(TheJob(t)))
           THEN pc'[t] = "unlock" /\ step'[t] = 0
           ELSE pc'[t] = "load" /\ step'[t] = step[t] + 1
    BY <1>5 DEF Store, TypeOK
  <2>2. HasJob(t)' = HasJob(t) /\ TheJob(t)' = TheJob(t)
    BY <2>1 DEF HasJob, TheJob
  <2>3. /\ HasJob(t) /\ TheJob(t).kind # "get" /\ TheJob(t).amount > 0
        /\ step[t] < Len(Updates(TheJob(t))) /\ step[t] \in 0..2
        /\ taken[t] = Len(Locks(TheJob(t))) /\ taken[t] \in 0..2
    BY <2>1 DEF CallOK, Changing, InCall, TypeOK
  <2>4. Len(Updates(TheJob(t))) = 1 \/ Len(Updates(TheJob(t))) = 2
    BY <2>3, UpdateTyped
  <2>5. (Len(Locks(TheJob(t))) = 1 \/ Len(Locks(TheJob(t))) = 2)
    BY <2>3, CurrentJob, LocksShape
  <2>6. taken[t] > 0
    <3>1. CASE Len(Locks(TheJob(t))) = 1 BY <2>3, <3>1
    <3>2. CASE Len(Locks(TheJob(t))) = 2 BY <2>3, <3>2
    <3> QED BY <2>5, <3>1, <3>2
  <2>7. step[t] + 1 # Len(Updates(TheJob(t))) => step[t] + 1 < Len(Updates(TheJob(t)))
    BY <2>3, <2>4
  <2> QED BY <2>1, <2>2, <2>3, <2>6, <2>7 DEF CallOK, InCall, Changing
<1>6. CASE Release(t)
  <2>1. /\ pc[t] = "unlock" /\ taken'[t] = taken[t] - 1 /\ step'[t] = step[t]
        /\ taken[t] = 1 => pc'[t] = "idle"
        /\ taken[t] # 1 => pc'[t] = pc[t] /\ results' = results
    BY <1>6 DEF Release, TypeOK
  <2>2. HasJob(t) /\ step[t] = 0 /\ taken[t] \in 1..2 /\ taken[t] <= Len(Locks(TheJob(t)))
    BY <2>1 DEF CallOK, InCall, Changing, TypeOK
  <2>3. CASE taken[t] = 1
    BY <2>1, <2>2, <2>3 DEF CallOK, InCall, Changing
  <2>4. CASE taken[t] # 1
    <3>1. HasJob(t)' = HasJob(t) /\ TheJob(t)' = TheJob(t)
      BY <2>1, <2>4 DEF HasJob, TheJob
    <3>2. (Len(Locks(TheJob(t))) = 1 \/ Len(Locks(TheJob(t))) = 2)
      BY <2>2, CurrentJob, LocksShape
    <3>3. taken[t] - 1 > 0 /\ taken[t] - 1 <= Len(Locks(TheJob(t)))
      BY <2>2, <2>4, <3>2
    <3> QED BY <2>1, <2>2, <2>4, <3>1, <3>3 DEF CallOK, InCall, Changing
  <2> QED BY <2>3, <2>4
<1> QED BY <1>1, <1>2, <1>3, <1>4, <1>5, <1>6 DEF ThreadStep

(* Who holds which lock.                                                    *)
LEMMA OwnerStep ==
  ASSUME IInv, NEW t \in Threads, ThreadStep(t)
  PROVE  OwnerInv' /\ TwoLocksInv'
<1> USE DEF IInv
<1>1. ASSUME NEW u \in Threads, u # t
      PROVE  /\ TwoLocksInv => (InCall(u)' /\ taken'[u] = 2 =>
                                  Locks(TheJob(u)')[1] # Locks(TheJob(u)')[2])
             /\ \A a \in Accounts : Holds(u, a)' = Holds(u, a)
  BY <1>1, OthersUntouched DEF Holds, Untouched, TwoLocksInv
<1>2. CASE Call(t)
  <2>1. /\ ~InCall(t) /\ taken'[t] = taken[t] /\ owner' = owner
    BY <1>2 DEF Call, InCall
  <2>2. taken[t] = 0
    BY <2>1 DEF CallOK
  <2>3. \A a \in Accounts : ~Holds(t, a) /\ ~Holds(t, a)'
    BY <2>1, <2>2 DEF Holds
  <2>4. OwnerInv'
    BY <1>1, <2>1, <2>3 DEF OwnerInv
  <2> QED BY <1>1, <2>1, <2>2, <2>4 DEF TwoLocksInv
<1>3. CASE Acquire(t)
  <2> DEFINE a0 == Locks(TheJob(t))[taken[t] + 1]
  <2>1. /\ pc[t] = "lock" /\ UNCHANGED <<pc, results>> /\ taken'[t] = taken[t] + 1
        /\ taken[t] < Len(Locks(TheJob(t))) /\ owner[a0] = NoThread
        /\ owner' = [owner EXCEPT ![a0] = t]
    BY <1>3 DEF Acquire, LockFree, TypeOK
  <2>2. HasJob(t) /\ TheJob(t)' = TheJob(t) /\ InCall(t) /\ InCall(t)'
    BY <2>1 DEF CallOK, InCall, TheJob
  <2>3. /\ TheJob(t) \in Job /\ (Len(Locks(TheJob(t))) = 1 \/ Len(Locks(TheJob(t))) = 2) /\ taken[t] \in 0..2
    BY <2>2, CurrentJob, LocksShape DEF TypeOK
  <2>4. taken[t] = 0 \/ (taken[t] = 1 /\ Len(Locks(TheJob(t))) = 2)
    BY <2>1, <2>3
  <2>5. a0 \in Accounts
    <3>1. CASE taken[t] = 0 BY <2>3, <3>1, LocksShape
    <3>2. CASE taken[t] = 1 /\ Len(Locks(TheJob(t))) = 2
      BY <2>3, <3>2, LocksShape
    <3> QED BY <2>4, <3>1, <3>2
  <2>6. \A a \in Accounts : Holds(t, a)' <=> Holds(t, a) \/ a = a0
    BY <2>1, <2>2, <2>4 DEF Holds
  <2>7. \A u \in Threads : u # NoThread
    BY AccountsAssumption
  <2>8. \A u \in Threads : ~Holds(u, a0)
    BY <2>1, <2>5, <2>7 DEF OwnerInv
  <2> HIDE DEF a0
  <2>9. ASSUME NEW u \in Threads, NEW a \in Accounts
        PROVE  owner'[a] = u <=> Holds(u, a)'
    <3>1. owner'[a] = IF a = a0 THEN t ELSE owner[a]
      BY <2>1, <2>5 DEF TypeOK
    <3>2. owner[a] = u <=> Holds(u, a)
      BY DEF OwnerInv
    <3>3. CASE u = t BY <2>6, <3>1, <3>2, <3>3
    <3>4. CASE u # t
      <4>1. Holds(u, a)' <=> Holds(u, a)
        BY <1>1, <3>4
      <4> QED BY <2>8, <3>1, <3>2, <3>4, <4>1
    <3> QED BY <3>3, <3>4
  <2>10. taken[t] = 1 => Locks(TheJob(t))[1] # Locks(TheJob(t))[2]
    BY <2>2, <2>5, <2>8 DEF Holds, a0
  <2> QED BY <1>1, <2>1, <2>2, <2>4, <2>9, <2>10 DEF OwnerInv, TwoLocksInv
<1>4. CASE Check(t) \/ Load(t) \/ Store(t)
  <2>1. InCall(t) /\ InCall(t)' /\ UNCHANGED <<taken, owner, results>>
    BY <1>4 DEF Check, Load, Store, InCall, TypeOK
  <2>2. TheJob(t)' = TheJob(t)
    BY <2>1 DEF TheJob
  <2>3. \A a \in Accounts : Holds(t, a)' = Holds(t, a)
    BY <2>1, <2>2 DEF Holds
  <2> QED BY <1>1, <2>1, <2>2, <2>3 DEF OwnerInv, TwoLocksInv
<1>5. CASE Release(t)
  <2> DEFINE a0 == Locks(TheJob(t))[taken[t]]
  <2>1. /\ pc[t] = "unlock" /\ taken'[t] = taken[t] - 1 /\ owner' = [owner EXCEPT ![a0] = NoThread]
        /\ taken[t] = 1 => pc'[t] = "idle"
        /\ taken[t] # 1 => pc'[t] = pc[t] /\ results' = results
    BY <1>5 DEF Release, TypeOK
  <2>2. HasJob(t) /\ InCall(t) /\ (taken[t] = 1 \/ taken[t] = 2)
    BY <2>1 DEF CallOK, InCall, TypeOK
  <2>3. \A a \in Accounts : Holds(t, a)' <=> Holds(t, a) /\ a # a0
    <3>1. CASE taken[t] = 1
      BY <2>1, <2>2, <3>1 DEF Holds, InCall
    <3>2. CASE taken[t] = 2
      <4>1. TheJob(t)' = TheJob(t) /\ InCall(t)' /\ taken'[t] = 1
        BY <2>1, <3>2 DEF TheJob, InCall
      <4>2. Locks(TheJob(t))[1] # Locks(TheJob(t))[2]
        BY <2>2, <3>2 DEF TwoLocksInv
      <4> QED BY <2>2, <3>2, <4>1, <4>2 DEF Holds
    <3> QED BY <2>2, <3>1, <3>2
  <2>4. a0 \in Accounts => Holds(t, a0)
    BY <2>2 DEF Holds
  <2>5. \A u \in Threads : u # NoThread
    BY AccountsAssumption
  <2> HIDE DEF a0
  <2>6. a0 \in Accounts => \A u \in Threads : u # t => ~Holds(u, a0)
    BY <2>4 DEF OwnerInv
  <2>7. ASSUME NEW u \in Threads, NEW a \in Accounts
        PROVE  owner'[a] = u <=> Holds(u, a)'
    <3>1. owner'[a] = IF a = a0 THEN NoThread ELSE owner[a]
      BY <2>1 DEF TypeOK
    <3>2. owner[a] = u <=> Holds(u, a)
      BY DEF OwnerInv
    <3>3. CASE u = t BY <2>3, <2>5, <3>1, <3>2, <3>3
    <3>4. CASE u # t
      <4>1. Holds(u, a)' <=> Holds(u, a)
        BY <1>1, <3>4
      <4> QED BY <2>5, <2>6, <3>1, <3>2, <3>4, <4>1
    <3> QED BY <3>3, <3>4
  <2>8. taken'[t] # 2
    BY <2>1, <2>2
  <2> QED BY <1>1, <2>7, <2>8 DEF OwnerInv, TwoLocksInv
<1> QED BY <1>2, <1>3, <1>4, <1>5 DEF ThreadStep

(* No balance is overdrawn: the money a call takes was there when it        *)
(* checked, under the lock it still holds.                                  *)
LEMMA FundsStep ==
  ASSUME IInv, NEW t \in Threads, ThreadStep(t)
  PROVE  NoOverdraft' /\ Payable(t)'
<1>1. TypeOK /\ OwnerInv /\ CallOK(t) /\ NoOverdraft /\ Payable(t)
  BY DEF IInv, FundsInv
<1>2. CASE Call(t) \/ Acquire(t) \/ Load(t) \/ Release(t)
  <2>1. /\ balance' = balance /\ step' = step
        /\ Changing(t)' => results' = results /\ Changing(t)
    BY <1>1, <1>2 DEF Call, Acquire, Load, Release, Changing, TypeOK
  <2>2. Changing(t)' => TheJob(t)' = TheJob(t)
    BY <2>1 DEF TheJob
  <2> QED BY <1>1, <2>1, <2>2 DEF NoOverdraft, Payable
<1>3. CASE Check(t)
  <2>1. /\ balance' = balance /\ results' = results
        /\ Changing(t)' => ~Raises(TheJob(t))
    BY <1>1, <1>3 DEF Check, Changing, TypeOK
  <2>2. HasJob(t) /\ TheJob(t)' = TheJob(t)
    BY <1>1, <1>3, <2>1 DEF Check, CallOK, InCall, TheJob
  <2>3. balance[TheJob(t).from] \in Int /\ TheJob(t).amount \in Int
    BY <1>1, <2>2, CurrentJob DEF TypeOK
  <2> QED BY <1>1, <2>1, <2>2, <2>3 DEF NoOverdraft, Payable, Raises
<1>4. CASE Store(t)
  <2>1. /\ pc[t] = "store" /\ Changing(t)
        /\ balance' = [balance EXCEPT ![TheUpdate(t).acc] = local[t] + TheUpdate(t).by]
        /\ results' = results
        /\ Changing(t)' => step'[t] = step[t] + 1
    BY <1>1, <1>4 DEF Store, Changing, TypeOK
  <2>2. /\ HasJob(t) /\ TheJob(t).kind # "get" /\ TheJob(t).amount > 0
        /\ step[t] < Len(Updates(TheJob(t))) /\ step[t] \in 0..2
        /\ local[t] = balance[TheUpdate(t).acc]
    BY <1>1, <2>1 DEF CallOK, Changing, InCall, TypeOK
  <2>3. /\ TheJob(t).from \in Accounts /\ TheJob(t).to \in Accounts /\ TheJob(t).amount \in Int
        /\ TheUpdate(t).acc \in Accounts
    BY <1>1, <2>2, CurrentJob, UpdateTyped
  <2>4. balance'[TheUpdate(t).acc] = balance[TheUpdate(t).acc] + TheUpdate(t).by
    BY <1>1, <2>1, <2>2, <2>3 DEF TypeOK
  <2>5. \A a \in Accounts : a # TheUpdate(t).acc => balance'[a] = balance[a]
    BY <1>1, <2>1 DEF TypeOK
  <2>6. balance'[TheUpdate(t).acc] >= 0
    <3>1. CASE /\ TheUpdate(t) = Debit(TheJob(t)) /\ step[t] = 0
               /\ TheJob(t).kind \in {"withdraw", "transfer"}
      <4>1. balance[TheJob(t).from] >= TheJob(t).amount
        BY <1>1, <2>1, <3>1 DEF Payable
      <4>2. TheUpdate(t).acc = TheJob(t).from /\ TheUpdate(t).by = 0 - TheJob(t).amount
        BY <3>1 DEF Debit
      <4>3. balance[TheJob(t).from] \in Int
        BY <1>1, <2>3 DEF TypeOK
      <4> QED BY <2>3, <2>4, <4>1, <4>2, <4>3
    <3>2. CASE TheUpdate(t) = Credit(TheJob(t))
      <4>1. TheUpdate(t).acc = TheJob(t).to /\ TheUpdate(t).by = TheJob(t).amount
        BY <3>2 DEF Credit
      <4>2. balance[TheJob(t).to] \in Int /\ balance[TheJob(t).to] >= 0
        BY <1>1, <2>3 DEF TypeOK, NoOverdraft
      <4> QED BY <2>2, <2>3, <2>4, <4>1, <4>2
    <3> QED BY <1>1, <2>2, <3>1, <3>2, UpdateTyped
  <2>7. NoOverdraft'
    BY <1>1, <2>5, <2>6 DEF NoOverdraft
  <2>8. ~(Changing(t)' /\ step'[t] = 0)
    BY <2>1, <2>2
  <2> QED BY <2>7, <2>8 DEF Payable
<1> QED BY <1>2, <1>3, <1>4 DEF ThreadStep

LEMMA InitIInv == Init => IInv
<1> SUFFICES ASSUME Init PROVE IInv
  OBVIOUS
<1>1. TypeOK
  <2>1. Ok \in Result /\ InitBalance \in [Accounts -> Int]
    BY AccountsAssumption DEF Ok, Result
  <2>2. \A t \in Threads : results[t] = <<>> /\ Len(results[t]) <= Len(Jobs[t])
    BY AccountsAssumption DEF Init
  <2> QED BY <2>1, <2>2 DEF Init, TypeOK
<1>2. \A t \in Threads : ~InCall(t) /\ ~Changing(t) /\ taken[t] = 0 /\ step[t] = 0 /\ pc[t] = "idle"
  BY DEF Init, InCall, Changing
<1>3. \A t \in Threads : CallOK(t)
  BY <1>2 DEF CallOK, InCall, Changing
<1>4. OwnerInv /\ TwoLocksInv
  BY <1>2, AccountsAssumption DEF Init, OwnerInv, TwoLocksInv, Holds
<1>5. FundsInv
  BY <1>2, AccountsAssumption DEF Init, FundsInv, NoOverdraft, Payable
<1> QED BY <1>1, <1>3, <1>4, <1>5 DEF IInv

LEMMA NextIInv == IInv /\ [Next]_vars => IInv'
<1> SUFFICES ASSUME IInv, [Next]_vars PROVE IInv'
  OBVIOUS
<1>1. CASE \E t \in Threads : ThreadStep(t)
  <2> PICK t \in Threads : ThreadStep(t)
    BY <1>1
  <2>1. TypeOK /\ OwnerInv /\ \A u \in Threads : CallOK(u) /\ Payable(u)
    BY DEF IInv, FundsInv
  <2>2. TypeOK'
    BY <2>1, TypeStep
  <2>3. \A u \in Threads : CallOK(u)' /\ Payable(u)'
    BY <2>1, OthersOK, CallStep, FundsStep
  <2>4. OwnerInv' /\ TwoLocksInv' /\ NoOverdraft'
    BY OwnerStep, FundsStep
  <2> QED BY <2>2, <2>3, <2>4 DEF IInv, FundsInv
<1>2. CASE UNCHANGED vars
  <2>1. TypeOK'
    BY <1>2 DEF vars, IInv, TypeOK
  <2>2. \A u \in Threads : CallOK(u)'
    BY <1>2 DEF vars, IInv, CallOK, InCall, HasJob, TheJob, TheUpdate, Changing, Holds
  <2>3. OwnerInv' /\ TwoLocksInv'
    BY <1>2 DEF vars, IInv, OwnerInv, TwoLocksInv, Holds, InCall, HasJob, TheJob, TheUpdate, Changing
  <2>4. FundsInv' /\ NoOverdraft'
    BY <1>2 DEF vars, IInv, FundsInv, NoOverdraft, Payable, Changing, HasJob, TheJob, TheUpdate
  <2> QED BY <2>1, <2>2, <2>3, <2>4 DEF IInv
<1> QED BY <1>1, <1>2 DEF Next, Exit

--------------------------------------------------------------------------------
(* IInv holds in every reachable state: locks are held by the calls that    *)
(* took them, and what a call has checked stays true until it has stored.   *)
THEOREM Invariance == Spec => []IInv
BY InitIInv, NextIInv, PTL DEF Spec

(* Every variable keeps its type.                                           *)
THEOREM TypeCorrect == Spec => []TypeOK
<1>1. IInv => TypeOK
  BY DEF IInv
<1> QED BY <1>1, Invariance, PTL

(* No balance goes below zero, at any step of a transfer or a withdrawal    *)
(* (lines 34 and 55), for any accounts, threads and calls.                  *)
THEOREM NeverOverdrawn == Spec => []NoOverdraft
<1>1. IInv => NoOverdraft
  BY DEF IInv, FundsInv
<1> QED BY <1>1, Invariance, PTL

--------------------------------------------------------------------------------
(* What fixed-order locking takes for granted: different accounts have      *)
(* different ids (finitely many, so bounded), and a transfer names two      *)
(* accounts.                                                                *)
Orderly ==
  /\ \A a, b \in Accounts : Id[a] = Id[b] => a = b
  /\ \E n \in Nat : \A a \in Accounts : Id[a] <= n
  /\ \A t \in Threads : \A i \in 1..Len(Jobs[t]) :
       Jobs[t][i].kind = "transfer" => Jobs[t][i].from # Jobs[t][i].to

Above == {p \in Accounts \X Accounts : Id[p[1]] > Id[p[2]]}

(* There is no endless climb through the ids.                               *)
LEMMA AboveWellFounded ==
  ASSUME Orderly PROVE IsWellFoundedOn(Above, Accounts)
<1> PICK n \in Nat : \A a \in Accounts : Id[a] <= n
  BY DEF Orderly
<1> SUFFICES ASSUME NEW f \in [Nat -> Accounts], \A i \in Nat : <<f[i + 1], f[i]>> \in Above
             PROVE  FALSE
  BY DEF IsWellFoundedOn
<1> DEFINE g == [i \in Nat |-> n - Id[f[i]]]
<1>1. \A i \in Nat : f[i] \in Accounts /\ Id[f[i]] \in Nat /\ Id[f[i]] <= n
  BY AccountsAssumption
<1>2. g \in [Nat -> Nat]
  BY <1>1
<1>3. \A i \in Nat : g[i + 1] < g[i]
  <2> TAKE i \in Nat
  <2>1. i + 1 \in Nat
    OBVIOUS
  <2>2. Id[f[i + 1]] > Id[f[i]]
    BY DEF Above
  <2> QED BY <1>1, <2>1, <2>2
<1> HIDE DEF g
<1>4. \A i \in Nat : <<g[i + 1], g[i]>> \in OpToRel(<, Nat)
  BY <1>2, <1>3 DEF OpToRel
<1> QED BY <1>2, <1>4, NatLessThanWellFounded DEF IsWellFoundedOn

(* A call that holds a lock and waits for another waits for a higher one.   *)
LEMMA WaitsUpward ==
  ASSUME IInv, Orderly, NEW u \in Threads, Blocked(u), NEW a \in Accounts, owner[a] = u
  PROVE  NextLock(u) \in Accounts /\ Id[NextLock(u)] > Id[a]
<1>1. TypeOK /\ CallOK(u) /\ Holds(u, a)
  BY DEF IInv, OwnerInv
<1>2. HasJob(u) /\ taken[u] < Len(Locks(TheJob(u))) /\ taken[u] \in 0..2
  BY <1>1 DEF CallOK, Blocked, InCall, TypeOK
<1> DEFINE job == TheJob(u)
<1>3. job \in Job /\ job.from \in Accounts /\ job.to \in Accounts
  BY <1>1, <1>2, CurrentJob
<1>4. job.kind = "transfer" => job.from # job.to
  <2>1. results[u] \in Seq(Result)
    BY <1>1 DEF TypeOK
  <2>2. Len(results[u]) + 1 \in 1..Len(Jobs[u])
    BY <1>2, <2>1, AccountsAssumption DEF HasJob
  <2> QED BY <2>2 DEF Orderly, TheJob
<1> HIDE DEF job
<1>5. PICK i \in 1..2 : i <= taken[u] /\ Locks(job)[i] = a
  BY <1>1 DEF Holds, job
<1>6. Len(Locks(job)) = 1 \/ Len(Locks(job)) = 2
  BY <1>3, LocksShape
<1>7. taken[u] = 1 /\ i = 1 /\ Len(Locks(job)) = 2
  <2>1. taken[u] < Len(Locks(job))
    BY <1>2 DEF job
  <2>2. CASE Len(Locks(job)) = 1
    <3>1. taken[u] < 1
      BY <2>1, <2>2
    <3> QED BY <1>2, <1>5, <3>1
  <2>3. CASE Len(Locks(job)) = 2
    <3>1. taken[u] < 2
      BY <2>1, <2>3
    <3> QED BY <1>2, <1>5, <2>3, <3>1
  <2> QED BY <1>6, <2>2, <2>3
<1>8. job.kind = "transfer"
  BY <1>3, <1>7, LocksShape
<1>9. Locks(job)[2] \in Accounts /\ Locks(job)[1] # Locks(job)[2] /\ ~(Id[Locks(job)[2]] < Id[Locks(job)[1]])
  <2>1. /\ Locks(job)[2] \in Accounts
        /\ \/ Locks(job)[1] = job.from /\ Locks(job)[2] = job.to /\ ~(Id[job.to] < Id[job.from])
           \/ Locks(job)[1] = job.to /\ Locks(job)[2] = job.from /\ Id[job.to] < Id[job.from]
    BY <1>3, <1>8, LocksShape
  <2>2. Id[job.to] \in Nat /\ Id[job.from] \in Nat
    BY <1>3, AccountsAssumption
  <2> QED BY <1>4, <1>8, <2>1, <2>2
<1>10. Id[Locks(job)[2]] # Id[Locks(job)[1]]
  BY <1>5, <1>7, <1>9 DEF Orderly
<1>11. Id[Locks(job)[2]] > Id[a]
  <2>1. Id[Locks(job)[2]] \in Nat /\ Id[a] \in Nat /\ Locks(job)[1] = a
    BY <1>5, <1>7, <1>9, AccountsAssumption
  <2> QED BY <1>9, <1>10, <2>1
<1> QED BY <1>7, <1>9, <1>11 DEF NextLock, job

(* Someone can always go on: follow the waiting calls upwards to the        *)
(* highest lock anyone waits for; its holder does not wait.                 *)
LEMMA SomeoneGoesOn == IInv /\ Orderly => DeadlockFree
<1> SUFFICES ASSUME IInv, Orderly, NEW t0 \in Threads, ~Ended(t0),
                    \A t \in Threads : ~Ended(t) => Blocked(t)
             PROVE  FALSE
  BY DEF DeadlockFree
<1> DEFINE Awaited == {a \in Accounts : \E t \in Threads : Blocked(t) /\ a = NextLock(t)}
<1>1. ASSUME NEW t \in Threads, Blocked(t)
      PROVE  NextLock(t) \in Accounts /\ owner[NextLock(t)] \in Threads
  <2>1. TypeOK /\ CallOK(t)
    BY DEF IInv
  <2>2. HasJob(t) /\ taken[t] < Len(Locks(TheJob(t))) /\ taken[t] \in 0..2
    BY <1>1, <2>1 DEF CallOK, Blocked, InCall, TypeOK
  <2>3. TheJob(t) \in Job /\ (Len(Locks(TheJob(t))) = 1 \/ Len(Locks(TheJob(t))) = 2)
    BY <2>1, <2>2, CurrentJob, LocksShape
  <2>4. taken[t] = 0 \/ (taken[t] = 1 /\ Len(Locks(TheJob(t))) = 2)
    <3>1. CASE Len(Locks(TheJob(t))) = 1
      <4>1. taken[t] < 1 BY <2>2, <3>1
      <4> QED BY <2>2, <4>1
    <3>2. CASE Len(Locks(TheJob(t))) = 2
      <4>1. taken[t] < 2 BY <2>2, <3>2
      <4> QED BY <2>2, <3>2, <4>1
    <3> QED BY <2>3, <3>1, <3>2
  <2>5. NextLock(t) \in Accounts
    <3>1. CASE taken[t] = 0 BY <2>3, <3>1, LocksShape DEF NextLock
    <3>2. CASE taken[t] = 1 /\ Len(Locks(TheJob(t))) = 2
      BY <2>3, <3>2, LocksShape DEF NextLock
    <3> QED BY <2>4, <3>1, <3>2
  <2> QED BY <1>1, <2>1, <2>5 DEF Blocked, LockFree, TypeOK
<1>2. Awaited # {}
  BY <1>1
<1>3. PICK a \in Awaited : \A b \in Awaited : ~(<<b, a>> \in Above)
  BY <1>2, AboveWellFounded, WFMin
<1>4. PICK t \in Threads : Blocked(t) /\ a = NextLock(t)
  BY <1>3
<1> DEFINE u == owner[a]
<1>5. u \in Threads /\ a \in Accounts
  BY <1>1, <1>4
<1>6. Blocked(u)
  <2>1. Holds(u, a)
    BY <1>5 DEF IInv, OwnerInv
  <2> QED BY <1>5, <2>1 DEF Holds, InCall, Ended
<1>7. NextLock(u) \in Accounts /\ Id[NextLock(u)] > Id[a]
  BY <1>5, <1>6, WaitsUpward
<1>8. NextLock(u) \in Awaited
  BY <1>5, <1>6, <1>7
<1>9. <<NextLock(u), a>> \in Above
  BY <1>5, <1>7 DEF Above
<1> QED BY <1>3, <1>8, <1>9

(* Fixed-order locking on account_id prevents deadlock (lines 45-48), for   *)
(* any number of threads, accounts and calls, as long as different accounts *)
(* have different ids and no transfer names one account twice.              *)
THEOREM NoDeadlock == Orderly /\ Spec => []DeadlockFree
<1>1. ASSUME Orderly PROVE Spec => []DeadlockFree
  <2>1. IInv => DeadlockFree
    BY <1>1, SomeoneGoesOn
  <2> QED BY <2>1, Invariance, PTL
<1> QED BY <1>1

--------------------------------------------------------------------------------
(* The calls are atomic: what a step does to the balances as they are about *)
(* to be, and to the answers.                                               *)
LEMMA SettledFrame ==
  ASSUME IInv, NEW t \in Threads, ThreadStep(t),
         NEW a \in Accounts, owner[a] # t, owner'[a] = owner[a]
  PROVE  Settled(a)' = Settled(a)
<1>1. TypeOK /\ OwnerInv /\ CallOK(t)
  BY DEF IInv
<1>2. balance'[a] = balance[a]
  BY <1>1, BalanceFrame
<1>3. CASE owner[a] = NoThread
  BY <1>2, <1>3 DEF Settled
<1>4. CASE owner[a] # NoThread
  <2>1. owner[a] \in Threads
    BY <1>1, <1>4 DEF TypeOK
  <2> DEFINE u == owner[a]
  <2>2. Untouched(u) /\ TheJob(u)' = TheJob(u) /\ Changing(u)' = Changing(u)
    BY <1>1, <2>1, OthersUntouched
  <2>3. Due(u, 1, a)' = Due(u, 1, a) /\ Due(u, 2, a)' = Due(u, 2, a)
    BY <2>2 DEF Due, Untouched
  <2> QED BY <1>2, <2>2, <2>3 DEF Settled
<1> QED BY <1>3, <1>4

LEMMA AnsweredFrame ==
  ASSUME TypeOK, NEW t \in Threads, ThreadStep(t), NEW u \in Threads, u # t
  PROVE  Answered(u)' = Answered(u)
BY OthersUntouched DEF Untouched, Answered

(* The steps that take effect nowhere but in the detailed state.            *)
SettledSame == \A a \in Accounts : Settled(a)' = Settled(a)
AnsweredSame == \A u \in Threads : Answered(u)' = Answered(u)

LEMMA QuietStep ==
  ASSUME SettledSame, AnsweredSame
  PROVE  UNCHANGED Bank!vars
BY DEF SettledSame, AnsweredSame, Bank!vars

LEMMA LockingQuiet ==
  ASSUME IInv, NEW t \in Threads, Call(t) \/ Acquire(t) \/ Release(t)
  PROVE  SettledSame /\ AnsweredSame
<1>1. TypeOK /\ CallOK(t) /\ ThreadStep(t)
  BY DEF IInv, ThreadStep
<1>2. ~Changing(t) /\ ~Changing(t)' /\ balance' = balance
  BY <1>1 DEF Call, Acquire, Release, Changing, TypeOK
<1>3. \A a \in Accounts : owner'[a] # owner[a] => owner[a] \in {t, NoThread} /\ owner'[a] \in {t, NoThread}
  <2>1. CASE Call(t) BY <2>1 DEF Call
  <2>2. CASE Acquire(t)
    BY <1>1, <2>2 DEF Acquire, LockFree, TypeOK
  <2>3. CASE Release(t)
    <3>1. pc[t] = "unlock" /\ owner' = [owner EXCEPT ![Locks(TheJob(t))[taken[t]]] = NoThread]
      BY <2>3 DEF Release
    <3>2. HasJob(t) /\ taken[t] \in 1..2
      BY <1>1, <3>1 DEF CallOK, InCall, TypeOK
    <3>3. ASSUME NEW a \in Accounts, owner'[a] # owner[a]
          PROVE  owner[a] = t /\ owner'[a] = NoThread
      <4>1. a = Locks(TheJob(t))[taken[t]] /\ owner'[a] = NoThread
        BY <1>1, <3>1, <3>3 DEF TypeOK
      <4>2. Holds(t, a)
        BY <3>1, <3>2, <4>1 DEF Holds, InCall
      <4> QED BY <4>1, <4>2 DEF IInv, OwnerInv
    <3> QED BY <3>3
  <2> QED BY <2>1, <2>2, <2>3
<1>4. SettledSame
  <2> SUFFICES ASSUME NEW a \in Accounts PROVE Settled(a)' = Settled(a)
    BY DEF SettledSame
  <2>1. CASE owner[a] # t /\ owner'[a] = owner[a]
    BY <1>1, <2>1, SettledFrame
  <2>2. CASE owner[a] = t \/ owner'[a] # owner[a]
    <3>1. owner[a] \in {t, NoThread} /\ owner'[a] \in {t, NoThread}
      BY <1>3, <2>2
    <3> QED BY <1>2, <3>1 DEF Settled
  <2> QED BY <2>1, <2>2
<1>5. Answered(t)' = Answered(t)
  <2>1. CASE Call(t) \/ Acquire(t)
    BY <1>1, <2>1 DEF Call, Acquire, Answered, TypeOK
  <2>2. CASE Release(t)
    <3>1. CASE taken[t] = 1
      BY <1>1, <2>2, <3>1 DEF Release, Answered, TypeOK
    <3>2. CASE taken[t] # 1
      BY <1>1, <2>2, <3>2 DEF Release, Answered, TypeOK
    <3> QED BY <3>1, <3>2
  <2> QED BY <2>1, <2>2
<1>6. AnsweredSame
  BY <1>1, <1>5, AnsweredFrame DEF AnsweredSame
<1> QED BY <1>4, <1>6

(* A call makes one update or two.                                          *)
LEMMA LastOrFirst ==
  \A n \in {1, 2} : \A k \in 0..2 :
    k < n => /\ k + 1 = n => (k = 0 /\ n = 1) \/ (k = 1 /\ n = 2)
             /\ k + 1 # n => k = 0 /\ n = 2
OBVIOUS

LEMMA UpdatingQuiet ==
  ASSUME IInv, NEW t \in Threads, Load(t) \/ Store(t)
  PROVE  SettledSame /\ AnsweredSame
<1>1. TypeOK /\ OwnerInv /\ CallOK(t) /\ ThreadStep(t)
  BY DEF IInv, ThreadStep
<1>2. Changing(t) /\ UNCHANGED <<owner, results, result>>
  BY DEF Load, Store, Changing
<1>3. TheJob(t)' = TheJob(t)
  BY <1>2 DEF TheJob
<1>4. AnsweredSame
  <2>1. Answered(t)' = Answered(t)
    <3>1. pc'[t] \in {"load", "store", "unlock"}
      BY <1>1 DEF Load, Store, TypeOK
    <3> QED BY <1>2, <3>1 DEF Answered, Changing
  <2> QED BY <1>1, <2>1, AnsweredFrame DEF AnsweredSame
<1>5. CASE Load(t)
  <2>1. UNCHANGED <<balance, step>> /\ Changing(t)'
    BY <1>1, <1>5 DEF Load, Changing, TypeOK
  <2>2. ASSUME NEW a \in Accounts PROVE Settled(a)' = Settled(a)
    <3>1. CASE owner[a] # t
      BY <1>1, <1>2, <3>1, SettledFrame
    <3>2. CASE owner[a] = t
      <4>1. Due(t, 1, a)' = Due(t, 1, a) /\ Due(t, 2, a)' = Due(t, 2, a)
        BY <1>3, <2>1 DEF Due
      <4> QED BY <1>2, <2>1, <3>2, <4>1 DEF Settled
    <3> QED BY <3>1, <3>2
  <2> QED BY <1>4, <2>2 DEF SettledSame
<1>6. CASE Store(t)
  <2> DEFINE job == TheJob(t)  upd == Updates(job)  acc == TheUpdate(t).acc  by == TheUpdate(t).by
  <2>1. /\ HasJob(t) /\ job.kind # "get" /\ step[t] < Len(upd) /\ step[t] \in 0..2
        /\ local[t] = balance[acc] /\ pc[t] = "store"
    BY <1>1, <1>6 DEF Store, CallOK, Changing, InCall, TypeOK
  <2>2. acc \in Accounts /\ by \in Int /\ (Len(upd) = 1 \/ Len(upd) = 2)
    BY <1>1, <2>1, UpdateTyped
  <2>3. balance' = [balance EXCEPT ![acc] = balance[acc] + by]
    BY <1>6, <2>1 DEF Store
  <2>4. upd[step[t] + 1].acc = acc /\ upd[step[t] + 1].by = by
    BY DEF TheUpdate
  <2>5. /\ job \in Job /\ job.kind \in Kinds /\ job.from \in Accounts /\ job.to \in Accounts
        /\ job.amount \in Int
    BY <1>1, <2>1, CurrentJob
  <2>6. /\ upd[1].by \in Int
        /\ Len(upd) = 2 => upd[2].by \in Int
    <3>1. job.kind \in {"deposit", "withdraw", "transfer"}
      BY <2>1, <2>5 DEF Kinds
    <3>2. Debit(job).by \in Int /\ Credit(job).by \in Int
      BY <2>5 DEF Debit, Credit
    <3>3. CASE job.kind = "deposit" BY <2>5, <3>2, <3>3, UpdatesShape
    <3>4. CASE job.kind = "withdraw" BY <2>5, <3>2, <3>4, UpdatesShape
    <3>5. CASE job.kind = "transfer" BY <2>5, <3>2, <3>5, UpdatesShape
    <3> QED BY <3>1, <3>3, <3>4, <3>5
  <2>7. \/ /\ step[t] + 1 = Len(upd) /\ ~Changing(t)'
        \/ /\ step[t] = 0 /\ Len(upd) = 2 /\ Changing(t)' /\ step'[t] = 1
    <3>1. CASE step[t] + 1 = Len(upd)
      <4>1. pc'[t] = "unlock"
        BY <1>1, <1>6, <3>1 DEF Store, TypeOK
      <4> QED BY <3>1, <4>1 DEF Changing
    <3>2. CASE step[t] + 1 # Len(upd)
      <4>1. step[t] = 0 /\ Len(upd) = 2
        BY <2>1, <2>2, <3>2, LastOrFirst
      <4>2. pc'[t] = "load" /\ step'[t] = step[t] + 1
        BY <1>1, <1>6, <3>2 DEF Store, TypeOK
      <4> QED BY <4>1, <4>2 DEF Changing
    <3> QED BY <3>1, <3>2
  <2> HIDE DEF acc, by, upd
  <2>8. ASSUME NEW a \in Accounts PROVE Settled(a)' = Settled(a)
    <3>1. CASE owner[a] # t
      BY <1>1, <1>2, <3>1, SettledFrame
    <3>2. CASE owner[a] = t
      <4>1. balance'[a] = IF a = acc THEN balance[a] + by ELSE balance[a]
        BY <1>1, <2>3 DEF TypeOK
      <4>2. /\ \A i \in 1..2 : Due(t, i, a) = IF i > step[t] /\ i <= Len(upd) /\ upd[i].acc = a
                                              THEN upd[i].by ELSE 0
            /\ Changing(t)' => \A i \in 1..2 :
                 Due(t, i, a)' = IF i > step'[t] /\ i <= Len(upd) /\ upd[i].acc = a
                                 THEN upd[i].by ELSE 0
        BY <1>3 DEF Due, upd
      <4>3. balance[a] \in Int
        BY <1>1 DEF TypeOK
      <4>4. t # NoThread /\ owner'[a] = t
        BY <1>2, <3>2, AccountsAssumption
      <4>5. Settled(a) = balance[a] + Due(t, 1, a) + Due(t, 2, a)
        BY <1>2, <3>2, <4>4 DEF Settled
      <4>6. CASE step[t] = 0 /\ Len(upd) = 2 /\ Changing(t)' /\ step'[t] = 1
        <5>1. Settled(a)' = balance'[a] + Due(t, 1, a)' + Due(t, 2, a)'
          BY <4>4, <4>6 DEF Settled
        <5>2. Due(t, 1, a)' = 0 /\ Due(t, 2, a)' = Due(t, 2, a) /\ Due(t, 2, a) \in Int
          BY <2>6, <4>2, <4>6
        <5>3. Due(t, 1, a) = IF a = acc THEN by ELSE 0
          BY <2>4, <4>2, <4>6
        <5> QED BY <2>2, <4>1, <4>3, <4>5, <5>1, <5>2, <5>3
      <4>7. CASE step[t] + 1 = Len(upd) /\ ~Changing(t)'
        <5>1. Settled(a)' = balance'[a]
          BY <4>4, <4>7 DEF Settled
        <5>2. (step[t] = 0 /\ Len(upd) = 1) \/ (step[t] = 1 /\ Len(upd) = 2)
          BY <2>1, <2>2, <4>7, LastOrFirst
        <5>3. CASE step[t] = 0 /\ Len(upd) = 1
          <6>1. Due(t, 1, a) = (IF a = acc THEN by ELSE 0) /\ Due(t, 2, a) = 0
            BY <2>4, <4>2, <5>3
          <6> QED BY <2>2, <4>1, <4>3, <4>5, <5>1, <6>1
        <5>4. CASE step[t] = 1 /\ Len(upd) = 2
          <6>1. Due(t, 1, a) = 0 /\ Due(t, 2, a) = IF a = acc THEN by ELSE 0
            BY <2>4, <4>2, <5>4
          <6> QED BY <2>2, <4>1, <4>3, <4>5, <5>1, <6>1
        <5> QED BY <5>2, <5>3, <5>4
      <4> QED BY <2>7, <4>6, <4>7
    <3> QED BY <3>1, <3>2
  <2> QED BY <1>4, <2>8 DEF SettledSame
<1> QED BY <1>5, <1>6

(* The check is the instant at which a call takes effect.                   *)
LEMMA CheckTakesEffect ==
  ASSUME IInv, NEW t \in Threads, Check(t)
  PROVE  Bank!Next
<1> DEFINE job == TheJob(t)  replies == [u \in Threads |-> Answered(u)]
           settled == [a \in Accounts |-> Settled(a)]
<1>1. TypeOK /\ OwnerInv /\ CallOK(t) /\ ThreadStep(t)
  BY DEF IInv, ThreadStep
<1>2. /\ pc[t] = "lock" /\ taken[t] = Len(Locks(job)) /\ HasJob(t) /\ step[t] = 0
      /\ UNCHANGED <<balance, owner, taken, step, local, results>> /\ ~Changing(t)
  BY <1>1 DEF Check, CallOK, InCall, Changing
<1>3. /\ job \in Job /\ job.kind \in Kinds /\ job.from \in Accounts /\ job.to \in Accounts
      /\ job.amount \in Int /\ TheJob(t)' = TheJob(t)
  BY <1>1, <1>2, CurrentJob DEF TheJob
<1>4. /\ job.kind \in {"get", "withdraw", "transfer"} => owner[job.from] = t
      /\ job.kind \in {"deposit", "transfer"} => owner[job.to] = t
      /\ \A a \in Accounts : owner[a] = t =>
           \/ a = job.from /\ job.kind # "deposit"
           \/ a = job.to /\ job.kind \in {"deposit", "transfer"}
  <2>1. /\ job.kind \in {"get", "withdraw", "transfer"} =>
             \E i \in 1..2 : i <= taken[t] /\ Locks(job)[i] = job.from
        /\ job.kind \in {"deposit", "transfer"} =>
             \E i \in 1..2 : i <= taken[t] /\ Locks(job)[i] = job.to
        /\ \A i \in 1..2 : i <= taken[t] =>
             \/ Locks(job)[i] = job.from /\ job.kind # "deposit"
             \/ Locks(job)[i] = job.to /\ job.kind \in {"deposit", "transfer"}
    <3> HIDE DEF job
    <3>1. taken[t] = Len(Locks(job)) /\ job.kind \in {"get", "deposit", "withdraw", "transfer"}
      BY <1>2, <1>3 DEF Kinds
    <3>2. CASE job.kind = "transfer"
      <4>1. taken[t] = 2
        BY <1>3, <3>1, <3>2, LocksShape
      <4>2. \/ Locks(job)[1] = job.from /\ Locks(job)[2] = job.to
            \/ Locks(job)[1] = job.to /\ Locks(job)[2] = job.from
        BY <1>3, <3>2, LocksShape
      <4>3. \A i \in 1..2 : i = 1 \/ i = 2
        OBVIOUS
      <4> QED BY <3>2, <4>1, <4>2, <4>3
    <3>3. CASE job.kind # "transfer"
      <4>1. taken[t] = 1 /\ Locks(job)[1] = IF job.kind = "deposit" THEN job.to ELSE job.from
        BY <1>3, <3>1, <3>3, LocksShape
      <4>2. \A i \in 1..2 : i <= 1 => i = 1
        OBVIOUS
      <4> QED BY <3>1, <3>3, <4>1, <4>2
    <3> QED BY <3>2, <3>3
  <2>2. InCall(t) /\ \A a \in Accounts : owner[a] = t <=> Holds(t, a)
    BY <1>1, <1>2 DEF OwnerInv, InCall
  <2> HIDE DEF job
  <2>3. \A a \in Accounts : owner[a] = t <=> \E i \in 1..2 : i <= taken[t] /\ Locks(job)[i] = a
    BY <2>2 DEF Holds, job
  <2>4. job.kind \in {"get", "withdraw", "transfer"} => owner[job.from] = t
    BY <1>3, <2>1, <2>3
  <2>5. job.kind \in {"deposit", "transfer"} => owner[job.to] = t
    BY <1>3, <2>1, <2>3
  <2>6. ASSUME NEW a \in Accounts, owner[a] = t
        PROVE  \/ a = job.from /\ job.kind # "deposit"
               \/ a = job.to /\ job.kind \in {"deposit", "transfer"}
    BY <2>1, <2>3, <2>6
  <2> QED BY <2>4, <2>5, <2>6
<1>5. t # NoThread /\ \A a \in Accounts : owner[a] = t => Settled(a) = balance[a]
  BY <1>2, AccountsAssumption DEF Settled
<1>6. \A a \in Accounts : owner[a] # t => Settled(a)' = Settled(a)
  BY <1>1, <1>2, SettledFrame
<1>7. /\ replies[t] = results[t] /\ replies' = [replies EXCEPT ![t] = Append(@, result'[t])]
  <2>1. Answered(t) = results[t] /\ Answered(t)' = Append(results[t], result'[t])
    BY <1>1, <1>2 DEF Check, Answered, TypeOK
  <2>2. \A u \in Threads : u # t => Answered(u)' = Answered(u)
    BY <1>1, AnsweredFrame
  <2> QED BY <2>1, <2>2
<1>8. Len(replies[t]) < Len(Jobs[t]) /\ Jobs[t][Len(replies[t]) + 1] = job
  BY <1>2, <1>7 DEF HasJob, TheJob
<1>9. settled[job.from] = IF owner[job.from] = t THEN balance[job.from] ELSE Settled(job.from)
  BY <1>3, <1>5
<1>10. CASE pc'[t] = "unlock"
  <2>1. settled' = settled
    <3>1. \A a \in Accounts : owner[a] = t => Settled(a)' = balance[a]
      BY <1>1, <1>2, <1>10 DEF Settled, Changing
    <3> QED BY <1>5, <1>6, <3>1
  <2>2. CASE result'[t] = Refused /\ Raises(job)
    <3>1. /\ job.kind # "get"
          /\ job.amount <= 0 \/ (job.kind # "deposit" /\ ~(settled[job.from] >= job.amount))
      <4>1. job.kind \in {"withdraw", "transfer"} => settled[job.from] = balance[job.from]
        BY <1>3, <1>4, <1>9
      <4>2. balance[job.from] \in Int
        BY <1>1, <1>3 DEF TypeOK
      <4> QED BY <1>3, <2>2, <4>1, <4>2 DEF Raises, Kinds
    <3> HIDE DEF replies, settled, job
    <3>2. Bank!Refuse(t)
      BY <1>7, <1>8, <2>1, <2>2, <3>1
      DEF Bank!Refuse, Bank!Todo, Bank!Now, Bank!Covered, Bank!Answer, Refused, replies, settled
    <3> QED BY <3>2 DEF Bank!Next
  <2>3. CASE job.kind = "get" /\ result'[t] = [Ok EXCEPT !.val = balance[job.from]]
    <3>1. settled[job.from] = balance[job.from]
      BY <1>4, <1>9, <2>3
    <3>2. result'[t] = [status |-> "ok", val |-> settled[job.from]]
      BY <2>3, <3>1 DEF Ok
    <3> HIDE DEF replies, settled, job
    <3>3. Bank!Read(t)
      BY <1>7, <1>8, <2>1, <2>3, <3>2
      DEF Bank!Read, Bank!Todo, Bank!Now, Bank!Answer, replies, settled
    <3> QED BY <3>3 DEF Bank!Next
  <2> QED BY <1>1, <1>10, <2>2, <2>3 DEF Check, TypeOK
<1>11. CASE pc'[t] = "load"
  <2>1. result'[t] = Ok /\ job.kind # "get" /\ ~Raises(job) /\ Changing(t)'
    BY <1>1, <1>11 DEF Check, Changing, TypeOK
  <2>2. job.amount > 0 /\ (job.kind \in {"withdraw", "transfer"} => settled[job.from] >= job.amount)
    <3>1. job.kind \in {"withdraw", "transfer"} => settled[job.from] = balance[job.from]
      BY <1>3, <1>4, <1>9
    <3>2. balance[job.from] \in Int
      BY <1>1, <1>3 DEF TypeOK
    <3> QED BY <1>3, <2>1, <3>1, <3>2 DEF Raises
  <2>3. ASSUME NEW a \in Accounts, owner[a] = t
        PROVE  Settled(a)' = balance[a] + Due(t, 1, a)' + Due(t, 2, a)'
    BY <1>2, <1>5, <2>1, <2>3 DEF Settled
  <2>4. \A a \in Accounts : \A i \in 1..2 :
          Due(t, i, a)' = IF i <= Len(Updates(job)) /\ Updates(job)[i].acc = a
                          THEN Updates(job)[i].by ELSE 0
    BY <1>2, <1>3 DEF Due
  <2>5. \A a \in Accounts : balance[a] \in Int
    BY <1>1 DEF TypeOK
  <2>6. CASE job.kind = "deposit"
    <3>1. Len(Updates(job)) = 1 /\ Updates(job)[1].acc = job.to /\ Updates(job)[1].by = job.amount
      <4> HIDE DEF job
      <4>1. Len(Updates(job)) = 1 /\ Updates(job)[1] = Credit(job)
        BY <1>3, <2>6, UpdatesShape
      <4> QED BY <4>1 DEF Credit
    <3>2. \A a \in Accounts : Due(t, 2, a)' = 0
                             /\ Due(t, 1, a)' = IF a = job.to THEN job.amount ELSE 0
      BY <2>4, <3>1
    <3>3. owner[job.to] = t /\ Settled(job.to) = balance[job.to]
      BY <1>3, <1>4, <1>5, <2>6
    <3>4. \A a \in Accounts : owner[a] = t => a = job.to
      BY <1>4, <2>6
    <3>5. Settled(job.to)' = Settled(job.to) + job.amount
      BY <1>3, <2>3, <2>5, <3>2, <3>3
    <3>6. settled' = [settled EXCEPT ![job.to] = @ + job.amount]
      BY <1>3, <1>6, <3>4, <3>5
    <3> HIDE DEF replies, settled, job
    <3>7. Bank!Deposit(t)
      BY <1>7, <1>8, <2>1, <2>2, <2>6, <3>6
      DEF Bank!Deposit, Bank!Todo, Bank!Now, Bank!Answer, Ok, replies, settled
    <3> QED BY <3>7 DEF Bank!Next
  <2>7. CASE job.kind = "withdraw"
    <3>1. Len(Updates(job)) = 1 /\ Updates(job)[1].acc = job.from /\ Updates(job)[1].by = 0 - job.amount
      <4> HIDE DEF job
      <4>1. Len(Updates(job)) = 1 /\ Updates(job)[1] = Debit(job)
        BY <1>3, <2>7, UpdatesShape
      <4> QED BY <4>1 DEF Debit
    <3>2. \A a \in Accounts : Due(t, 2, a)' = 0
                             /\ Due(t, 1, a)' = IF a = job.from THEN 0 - job.amount ELSE 0
      BY <2>4, <3>1
    <3>3. owner[job.from] = t /\ Settled(job.from) = balance[job.from]
      BY <1>3, <1>4, <1>5, <2>7
    <3>4. \A a \in Accounts : owner[a] = t => a = job.from
      BY <1>4, <2>7
    <3>5. Settled(job.from)' = Settled(job.from) - job.amount
      BY <1>3, <2>3, <2>5, <3>2, <3>3
    <3>6. settled' = [settled EXCEPT ![job.from] = @ - job.amount]
      BY <1>3, <1>6, <3>4, <3>5
    <3> HIDE DEF replies, settled, job
    <3>7. Bank!Withdraw(t)
      BY <1>7, <1>8, <2>1, <2>2, <2>7, <3>6
      DEF Bank!Withdraw, Bank!Todo, Bank!Now, Bank!Covered, Bank!Answer, Ok, replies, settled
    <3> QED BY <3>7 DEF Bank!Next
  <2>8. CASE job.kind = "transfer"
    <3>1. /\ Len(Updates(job)) = 2
          /\ Updates(job)[1].acc = job.from /\ Updates(job)[1].by = 0 - job.amount
          /\ Updates(job)[2].acc = job.to /\ Updates(job)[2].by = job.amount
      <4> HIDE DEF job
      <4>1. Len(Updates(job)) = 2 /\ Updates(job)[1] = Debit(job) /\ Updates(job)[2] = Credit(job)
        BY <1>3, <2>8, UpdatesShape
      <4> QED BY <4>1 DEF Debit, Credit
    <3>2. \A a \in Accounts : /\ Due(t, 1, a)' = IF a = job.from THEN 0 - job.amount ELSE 0
                             /\ Due(t, 2, a)' = IF a = job.to THEN job.amount ELSE 0
      BY <2>4, <3>1
    <3>3. /\ owner[job.from] = t /\ Settled(job.from) = balance[job.from]
          /\ owner[job.to] = t /\ Settled(job.to) = balance[job.to]
      BY <1>3, <1>4, <1>5, <2>8
    <3>4. \A a \in Accounts : owner[a] = t => a \in {job.from, job.to}
      BY <1>4
    <3>5. job.from # job.to
      <4>1. taken[t] = 2
        BY <1>2, <1>3, <2>8, LocksShape
      <4>2. Locks(job)[1] # Locks(job)[2]
        BY <1>2, <4>1 DEF IInv, TwoLocksInv, InCall
      <4> QED BY <1>3, <2>8, <4>2, LocksShape
    <3>6. /\ Settled(job.from)' = Settled(job.from) - job.amount
          /\ Settled(job.to)' = Settled(job.to) + job.amount
      BY <1>3, <2>3, <2>5, <3>2, <3>3, <3>5
    <3>7. settled' = [settled EXCEPT ![job.from] = @ - job.amount, ![job.to] = @ + job.amount]
      BY <1>3, <1>6, <3>4, <3>5, <3>6
    <3> HIDE DEF replies, settled, job
    <3>8. Bank!Transfer(t)
      BY <1>7, <1>8, <2>1, <2>2, <2>8, <3>7
      DEF Bank!Transfer, Bank!Todo, Bank!Now, Bank!Covered, Bank!Answer, Ok, replies, settled
    <3> QED BY <3>8 DEF Bank!Next
  <2> QED BY <1>3, <2>1, <2>6, <2>7, <2>8 DEF Kinds
<1> QED BY <1>1, <1>10, <1>11 DEF Check, TypeOK

(* Deposits, withdrawals, transfers and reads of the balance behave as if   *)
(* they were made one at a time (lines 22-62): each takes effect, or is     *)
(* refused, at the instant of its check, for any threads, accounts and      *)
(* calls.                                                                   *)
THEOREM Atomicity == Spec => CallsAreAtomic
<1>1. Init => Bank!Init
  <2> SUFFICES ASSUME Init PROVE Bank!Init
    OBVIOUS
  <2>1. [a \in Accounts |-> Settled(a)] = InitBalance
    BY AccountsAssumption DEF Init, Settled
  <2>2. [t \in Threads |-> Answered(t)] = [t \in Threads |-> <<>>]
    BY DEF Init, Answered
  <2> QED BY <2>1, <2>2 DEF Bank!Init
<1>2. IInv /\ [Next]_vars => [Bank!Next]_(Bank!vars)
  <2> SUFFICES ASSUME IInv, [Next]_vars PROVE [Bank!Next]_(Bank!vars)
    OBVIOUS
  <2>1. ASSUME NEW t \in Threads, ThreadStep(t) PROVE [Bank!Next]_(Bank!vars)
    <3>1. CASE Check(t)
      BY <3>1, CheckTakesEffect
    <3>2. CASE Load(t) \/ Store(t)
      BY <3>2, UpdatingQuiet, QuietStep
    <3>3. CASE Call(t) \/ Acquire(t) \/ Release(t)
      BY <3>3, LockingQuiet, QuietStep
    <3> QED BY <2>1, <3>1, <3>2, <3>3 DEF ThreadStep
  <2>2. CASE UNCHANGED vars
    BY <2>2, QuietStep
    DEF vars, SettledSame, AnsweredSame, Settled, Answered, Due, Changing, TheJob
  <2> QED BY <2>1, <2>2 DEF Next, Exit
<1> QED BY <1>1, <1>2, Invariance, PTL DEF Spec, CallsAreAtomic, Bank!Spec

--------------------------------------------------------------------------------
(* PyChannel: sequences, and what one call adds.                            *)
LEMMA Appended ==
  ASSUME NEW S, NEW q \in Seq(S), NEW e \in S
  PROVE  /\ Append(q, e) \in Seq(S) /\ Len(Append(q, e)) = Len(q) + 1
         /\ \A i \in 1..Len(q) : Append(q, e)[i] = q[i]
         /\ Append(q, e)[Len(q) + 1] = e
OBVIOUS

LEMMA Beheaded ==
  ASSUME NEW S, NEW q \in Seq(S), q # <<>>
  PROVE  /\ Tail(q) \in Seq(S) /\ Len(Tail(q)) = Len(q) - 1 /\ Len(q) > 0
         /\ \A i \in 1..(Len(q) - 1) : Tail(q)[i] = q[i + 1]
         /\ Head(q) = q[1] /\ Head(q) \in S
OBVIOUS

LEMMA Element ==
  ASSUME NEW S, NEW q \in Seq(S), NEW i \in 1..Len(q)
  PROVE  q[i] \in S
OBVIOUS

LEMMA CurrentOp ==
  ASSUME ChannelTypeOK, NEW t \in Workers, HasOp(t)
  PROVE  /\ TheOp(t).op \in {"send", "try_send", "recv", "try_recv", "close"}
         /\ TheOp(t).item \in Int
<1>1. answers[t] \in Seq(Answer)
      /\ Ops[t] \in Seq([op : {"send", "try_send", "recv", "try_recv", "close"}, item : Int])
  BY ChannelAssumption DEF ChannelTypeOK
<1>2. Len(answers[t]) + 1 \in 1..Len(Ops[t])
  BY <1>1 DEF HasOp
<1>3. TheOp(t) \in [op : {"send", "try_send", "recv", "try_recv", "close"}, item : Int]
  BY <1>1, <1>2, Element, Zenon DEF TheOp
<1> QED BY <1>3

(* A call that returns adds one answer of its thread and nothing else.      *)
LEMMA Returned ==
  ASSUME ChannelTypeOK, NEW t \in Workers, HasOp(t),
         NEW status \in {"ok", "not_now", "closed"}, NEW item \in Int,
         Return(t, status, item)
  PROVE  /\ DOMAIN answers' = Workers
         /\ \A u \in Workers : answers'[u] \in Seq(Answer) /\ Len(answers'[u]) <= Len(Ops[u])
         /\ \A u \in Workers \ {t} : answers'[u] = answers[u]
         /\ Len(answers'[t]) = Len(answers[t]) + 1
         /\ answers'[t][Len(answers[t]) + 1].status = status
         /\ ToldClosed(t)' <=> status = "closed"
<1> DEFINE a == [status |-> status, item |-> item]
<1>1. a \in Answer /\ a.status = status
  BY DEF Answer
<1>2. answers[t] \in Seq(Answer) /\ Len(answers[t]) < Len(Ops[t]) /\ Ops[t] \in Seq([op : {"send", "try_send", "recv", "try_recv", "close"}, item : Int])
  BY ChannelAssumption DEF ChannelTypeOK, HasOp
<1>3. /\ DOMAIN answers' = Workers
      /\ answers'[t] = Append(answers[t], a)
      /\ \A u \in Workers \ {t} : answers'[u] = answers[u]
  BY DEF ChannelTypeOK, Return
<1> HIDE DEF a
<1>4. /\ answers'[t] \in Seq(Answer) /\ Len(answers'[t]) = Len(answers[t]) + 1
      /\ answers'[t][Len(answers[t]) + 1] = a
  BY <1>1, <1>2, <1>3
<1>5. answers'[t] # <<>> /\ Len(answers'[t]) <= Len(Ops[t])
  BY <1>2, <1>4
<1>6. ToldClosed(t)' <=> status = "closed"
  BY <1>1, <1>4, <1>5 DEF ToldClosed
<1>7. \A u \in Workers : answers'[u] \in Seq(Answer) /\ Len(answers'[u]) <= Len(Ops[u])
  BY <1>3, <1>4, <1>5 DEF ChannelTypeOK
<1> QED BY <1>1, <1>3, <1>4, <1>6, <1>7

(* Waiting threads stay inside their calls when another call returns.       *)
LEMMA ReturnKeepsWaits ==
  ASSUME ChannelTypeOK, WaitInv, NEW t \in Workers, HasOp(t), place[t] = "run",
         \A u \in Workers \ {t} : answers'[u] = answers[u],
         place' \in [Workers -> {"run", "park", "wait"}],
         \A u \in Workers : place'[u] = place[u] \/ place'[u] = "run"
  PROVE  WaitInv'
<1> SUFFICES ASSUME NEW u \in Workers, place'[u] # "run"
             PROVE  HasOp(u)' /\ TheOp(u)'.op \in {"send", "recv"}
  BY DEF WaitInv
<1>1. place'[u] = place[u] /\ u # t
  OBVIOUS
<1>2. answers'[u] = answers[u] /\ HasOp(u) /\ TheOp(u).op \in {"send", "recv"}
  BY <1>1 DEF WaitInv
<1> QED BY <1>2 DEF HasOp, ToldClosed, TheOp

LEMMA Woken ==
  ASSUME ChannelTypeOK, NEW ops, place' = Wake(ops)
  PROVE  /\ place' \in [Workers -> {"run", "park", "wait"}]
         /\ \A u \in Workers : place'[u] = place[u] \/ place'[u] = "run"
BY DEF ChannelTypeOK, Wake

(* The part of the history that is not in the buffer any more has been given*)
(* away, so a step that puts at one end or takes at the other moves a       *)
(* boundary only.                                                           *)
LEMMA PutKeepsBuffer ==
  ASSUME ChannelTypeOK, BufferInv, ~Full, NEW item \in Int,
         buf' = Append(buf, item), sent' = Append(sent, item), given' = given
  PROVE  BufferInv' /\ buf' \in Seq(Int) /\ sent' \in Seq(Int)
<1>1. buf \in Seq(Int) /\ sent \in Seq(Int) /\ given \in Nat /\ MaxSize \in Nat /\ Len(sent) = given + Len(buf)
  BY ChannelAssumption DEF ChannelTypeOK, BufferInv
<1>2. /\ buf' \in Seq(Int) /\ Len(buf') = Len(buf) + 1 /\ buf'[Len(buf) + 1] = item
      /\ \A i \in 1..Len(buf) : buf'[i] = buf[i]
  <2>1. buf \in Seq(Int) /\ item \in Int
    BY <1>1
  <2> QED BY <2>1, Appended
<1>3. /\ sent' \in Seq(Int) /\ Len(sent') = Len(sent) + 1 /\ sent'[Len(sent) + 1] = item
      /\ \A i \in 1..Len(sent) : sent'[i] = sent[i]
  <2>1. sent \in Seq(Int) /\ item \in Int
    BY <1>1
  <2> QED BY <2>1, Appended
<1>4. 0 < MaxSize => Len(buf') <= MaxSize
  BY <1>1, <1>2 DEF Full
<1>5. \A i \in 1..Len(buf') : buf'[i] = sent'[given + i]
  <2> SUFFICES ASSUME NEW i \in 1..Len(buf') PROVE buf'[i] = sent'[given + i]
    OBVIOUS
  <2>1. CASE i = Len(buf) + 1
    BY <1>1, <1>2, <1>3, <2>1
  <2>2. CASE i \in 1..Len(buf)
    <3>1. given + i \in 1..Len(sent)
      BY <1>1, <2>2
    <3>2. buf'[i] = buf[i] /\ buf[i] = sent[given + i] /\ sent'[given + i] = sent[given + i]
      BY <1>2, <1>3, <2>2, <3>1 DEF BufferInv
    <3> QED BY <3>2
  <2>3. i = Len(buf) + 1 \/ i \in 1..Len(buf)
    BY <1>1, <1>2
  <2> QED BY <2>1, <2>2, <2>3
<1>6. Len(sent') = given' + Len(buf')
  BY <1>1, <1>2, <1>3
<1> QED BY <1>2, <1>3, <1>4, <1>5, <1>6 DEF BufferInv

LEMMA GetKeepsBuffer ==
  ASSUME ChannelTypeOK, BufferInv, buf # <<>>,
         buf' = Tail(buf), sent' = sent, given' = given + 1
  PROVE  /\ BufferInv' /\ buf' \in Seq(Int) /\ given' \in Nat
         /\ Head(buf) = sent[given + 1] /\ Head(buf) \in Int /\ given < Len(sent)
<1>1. buf \in Seq(Int) /\ sent \in Seq(Int) /\ given \in Nat /\ MaxSize \in Nat /\ Len(sent) = given + Len(buf)
  BY ChannelAssumption DEF ChannelTypeOK, BufferInv
<1>2. /\ Len(buf) > 0 /\ buf' \in Seq(Int) /\ Len(buf') = Len(buf) - 1
      /\ \A i \in 1..(Len(buf) - 1) : buf'[i] = buf[i + 1]
      /\ Head(buf) = buf[1] /\ Head(buf) \in Int
  BY <1>1, Beheaded
<1>3. \A i \in 1..Len(buf') : buf'[i] = sent'[given' + i]
  <2> SUFFICES ASSUME NEW i \in 1..Len(buf') PROVE buf'[i] = sent[given + 1 + i]
    OBVIOUS
  <2>1. buf'[i] = buf[i + 1] /\ i + 1 \in 1..Len(buf)
    BY <1>1, <1>2
  <2>2. buf[i + 1] = sent[given + (i + 1)] /\ given + (i + 1) = given + 1 + i
    BY <1>1, <2>1 DEF BufferInv
  <2> QED BY <2>1, <2>2
<1>4. Head(buf) = sent[given + 1]
  <2>1. 1 \in 1..Len(buf)
    BY <1>1, <1>2
  <2> QED BY <1>2, <2>1 DEF BufferInv
<1>5. 0 < MaxSize => Len(buf') <= MaxSize
  BY <1>1, <1>2 DEF BufferInv
<1>6. Len(sent') = given' + Len(buf') /\ given' \in Nat /\ given < Len(sent)
  BY <1>1, <1>2
<1> QED BY <1>2, <1>3, <1>4, <1>5, <1>6 DEF BufferInv

--------------------------------------------------------------------------------
LEMMA ChannelInitInv == ChannelInit => ChannelInv /\ NoneMeansTheEnd
<1> SUFFICES ASSUME ChannelInit PROVE ChannelInv /\ NoneMeansTheEnd
  OBVIOUS
<1>1. /\ buf = <<>> /\ sent = <<>> /\ given = 0 /\ closed = FALSE /\ recvEvent = FALSE
      /\ place = [t \in Workers |-> "run"] /\ answers = [t \in Workers |-> <<>>]
  BY DEF ChannelInit
<1>2. \A t \in Workers : Len(Ops[t]) \in Nat
  BY ChannelAssumption
<1>3. ChannelTypeOK
  <2>1. \A t \in Workers : answers[t] \in Seq(Answer) /\ Len(answers[t]) <= Len(Ops[t])
    BY <1>1, <1>2
  <2>2. buf \in Seq(Int) /\ sent \in Seq(Int) /\ given \in Nat
    BY <1>1
  <2>3. DOMAIN answers = Workers /\ place \in [Workers -> {"run", "park", "wait"}]
    BY <1>1
  <2> QED BY <1>1, <2>1, <2>2, <2>3 DEF ChannelTypeOK
<1>4. BufferInv
  BY <1>1, ChannelAssumption DEF BufferInv
<1>5. WaitInv /\ EndInv /\ NoneMeansTheEnd
  BY <1>1 DEF WaitInv, EndInv, NoneMeansTheEnd, ToldClosed
<1> QED BY <1>3, <1>4, <1>5 DEF ChannelInv

(* What is left to show of a step in which a call returns, when the buffer  *)
(* and the waiting threads are known to be in order.                        *)
LEMMA ReturnStep ==
  ASSUME ChannelInv, NEW t \in Workers, HasOp(t), place[t] = "run",
         NEW status \in {"ok", "not_now", "closed"}, NEW item \in Int,
         Return(t, status, item),
         status = "closed" => closed,
         closed => closed', closed' \in BOOLEAN, recvEvent' \in BOOLEAN,
         place' \in [Workers -> {"run", "park", "wait"}],
         \A u \in Workers : place'[u] = place[u] \/ place'[u] = "run",
         buf' \in Seq(Int), sent' \in Seq(Int), given' \in Nat, BufferInv'
  PROVE  ChannelInv'
<1>1. ChannelTypeOK /\ WaitInv /\ EndInv
  BY DEF ChannelInv
<1>2. /\ DOMAIN answers' = Workers
      /\ \A u \in Workers : answers'[u] \in Seq(Answer) /\ Len(answers'[u]) <= Len(Ops[u])
      /\ \A u \in Workers \ {t} : answers'[u] = answers[u]
      /\ ToldClosed(t)' <=> status = "closed"
  BY <1>1, Returned
<1>3. ChannelTypeOK'
  BY <1>2 DEF ChannelTypeOK
<1>4. WaitInv'
  BY <1>1, <1>2, ReturnKeepsWaits
<1>5. EndInv'
  <2> SUFFICES ASSUME NEW u \in Workers, ToldClosed(u)' PROVE closed'
    BY DEF EndInv
  <2>1. CASE u = t
    BY <1>2, <2>1
  <2>2. CASE u # t
    <3>1. answers'[u] = answers[u]
      BY <1>2, <2>2
    <3>2. ToldClosed(u)
      BY <3>1 DEF ToldClosed
    <3> QED BY <1>1, <3>2 DEF EndInv
  <2> QED BY <2>1, <2>2
<1> QED BY <1>3, <1>4, <1>5 DEF ChannelInv

LEMMA BufferUntouched ==
  ASSUME ChannelInv, UNCHANGED <<buf, sent, given>>
  PROVE  BufferInv' /\ buf' \in Seq(Int) /\ sent' \in Seq(Int) /\ given' \in Nat
BY DEF ChannelInv, ChannelTypeOK, BufferInv

(* A step that only moves a thread into or out of a wait.                   *)
LEMMA WaitStep ==
  ASSUME ChannelInv, NEW t \in Workers, HasOp(t), TheOp(t).op \in {"send", "recv"},
         NEW to \in {"run", "park", "wait"},
         place' = [place EXCEPT ![t] = to],
         UNCHANGED <<buf, closed, recvEvent, answers, sent, given>>
  PROVE  ChannelInv'
<1>1. ChannelTypeOK /\ WaitInv /\ EndInv
  BY DEF ChannelInv
<1>2. place' \in [Workers -> {"run", "park", "wait"}]
  BY <1>1 DEF ChannelTypeOK
<1>3. ChannelTypeOK'
  BY <1>1, <1>2 DEF ChannelTypeOK
<1>4. \A u \in Workers : place'[u] # "run" => HasOp(u) /\ TheOp(u).op \in {"send", "recv"}
  BY <1>1 DEF ChannelTypeOK, WaitInv
<1>5. WaitInv'
  BY <1>4 DEF WaitInv, HasOp, ToldClosed, TheOp
<1>6. EndInv'
  BY <1>1 DEF EndInv, ToldClosed
<1>7. BufferInv'
  BY BufferUntouched
<1> QED BY <1>3, <1>5, <1>6, <1>7 DEF ChannelInv

LEMMA ChannelNextInv == ChannelInv /\ [ChannelNext]_channelVars => ChannelInv'
<1> SUFFICES ASSUME ChannelInv, [ChannelNext]_channelVars PROVE ChannelInv'
  OBVIOUS
<1>0. ChannelTypeOK /\ BufferInv /\ WaitInv /\ closed \in BOOLEAN /\ recvEvent \in BOOLEAN
      /\ place \in [Workers -> {"run", "park", "wait"}]
  BY DEF ChannelInv, ChannelTypeOK
<1>1. ASSUME NEW t \in Workers, Put(t) PROVE ChannelInv'
  <2>1. /\ HasOp(t) /\ place[t] = "run" /\ ~Full /\ place' = Wake({"recv"})
        /\ buf' = Append(buf, TheOp(t).item) /\ sent' = Append(sent, TheOp(t).item)
        /\ recvEvent' = FALSE /\ closed' = closed /\ given' = given
        /\ Return(t, "ok", TheOp(t).item)
    BY <1>1 DEF Put, Calls
  <2>2. TheOp(t).item \in Int
    BY <1>0, <2>1, CurrentOp
  <2>3. BufferInv' /\ buf' \in Seq(Int) /\ sent' \in Seq(Int) /\ given' \in Nat
    BY <1>0, <2>1, <2>2, PutKeepsBuffer DEF ChannelTypeOK
  <2>4. /\ place' \in [Workers -> {"run", "park", "wait"}]
        /\ \A u \in Workers : place'[u] = place[u] \/ place'[u] = "run"
    BY <1>0, <2>1, Woken
  <2> QED BY <1>0, <2>1, <2>2, <2>3, <2>4, ReturnStep
<1>2. ASSUME NEW t \in Workers, GiveUp(t) PROVE ChannelInv'
  <2>1. /\ HasOp(t) /\ place[t] = "run"
        /\ Return(t, "not_now", TheOp(t).item)
        /\ UNCHANGED <<buf, closed, recvEvent, place, sent, given>>
    BY <1>2 DEF GiveUp, Calls
  <2>2. TheOp(t).item \in Int
    BY <1>0, <2>1, CurrentOp
  <2>3. BufferInv' /\ buf' \in Seq(Int) /\ sent' \in Seq(Int) /\ given' \in Nat
    BY <2>1, BufferUntouched
  <2> QED BY <1>0, <2>1, <2>2, <2>3, ReturnStep
<1>3. ASSUME NEW t \in Workers, Get(t) PROVE ChannelInv'
  <2>1. /\ HasOp(t) /\ place[t] = "run" /\ buf # <<>> /\ place' = Wake({"send"})
        /\ buf' = Tail(buf) /\ sent' = sent /\ given' = given + 1
        /\ recvEvent' = recvEvent /\ closed' = closed
        /\ Return(t, "ok", Head(buf))
    BY <1>3 DEF Get, Calls
  <2>2. BufferInv' /\ buf' \in Seq(Int) /\ given' \in Nat /\ Head(buf) \in Int
    BY <1>0, <2>1, GetKeepsBuffer
  <2>3. /\ place' \in [Workers -> {"run", "park", "wait"}]
        /\ \A u \in Workers : place'[u] = place[u] \/ place'[u] = "run"
    BY <1>0, <2>1, Woken
  <2>4. sent' \in Seq(Int)
    BY <1>0, <2>1 DEF ChannelTypeOK
  <2> QED BY <1>0, <2>1, <2>2, <2>3, <2>4, ReturnStep
<1>4. ASSUME NEW t \in Workers, TooLate(t) PROVE ChannelInv'
  <2>1. /\ HasOp(t) /\ place[t] = "run" /\ closed
        /\ Return(t, "closed", TheOp(t).item)
        /\ UNCHANGED <<buf, closed, recvEvent, place, sent, given>>
    BY <1>4 DEF TooLate, Calls
  <2>2. TheOp(t).item \in Int
    BY <1>0, <2>1, CurrentOp
  <2>3. BufferInv' /\ buf' \in Seq(Int) /\ sent' \in Seq(Int) /\ given' \in Nat
    BY <2>1, BufferUntouched
  <2> QED BY <1>0, <2>1, <2>2, <2>3, ReturnStep
<1>5. ASSUME NEW t \in Workers, Close(t) PROVE ChannelInv'
  <2>1. /\ HasOp(t) /\ place[t] = "run" /\ place' = Wake({"recv"})
        /\ Return(t, "ok", TheOp(t).item)
        /\ closed' = TRUE /\ recvEvent' = TRUE
        /\ UNCHANGED <<buf, sent, given>>
    BY <1>5 DEF Close, Calls
  <2>2. TheOp(t).item \in Int
    BY <1>0, <2>1, CurrentOp
  <2>3. BufferInv' /\ buf' \in Seq(Int) /\ sent' \in Seq(Int) /\ given' \in Nat
    BY <2>1, BufferUntouched
  <2>4. /\ place' \in [Workers -> {"run", "park", "wait"}]
        /\ \A u \in Workers : place'[u] = place[u] \/ place'[u] = "run"
    BY <1>0, <2>1, Woken
  <2> QED BY <1>0, <2>1, <2>2, <2>3, <2>4, ReturnStep
<1>6. ASSUME NEW t \in Workers, LeaveLock(t) PROVE ChannelInv'
  <2>1. /\ HasOp(t) /\ TheOp(t).op \in {"send", "recv"}
        /\ place' = [place EXCEPT ![t] = "park"]
        /\ UNCHANGED <<buf, closed, recvEvent, answers, sent, given>>
    BY <1>6 DEF LeaveLock, Calls
  <2> QED BY <2>1, WaitStep
<1>7. ASSUME NEW t \in Workers, Park(t) PROVE ChannelInv'
  <2> DEFINE to == IF TheOp(t).op = "recv" /\ recvEvent THEN "run" ELSE "wait"
  <2>1. /\ place[t] = "park" /\ place' = [place EXCEPT ![t] = to]
        /\ UNCHANGED <<buf, closed, recvEvent, answers, sent, given>>
    BY <1>7 DEF Park
  <2>2. HasOp(t) /\ TheOp(t).op \in {"send", "recv"}
    BY <1>0, <2>1 DEF WaitInv
  <2>3. to \in {"run", "park", "wait"}
    OBVIOUS
  <2> HIDE DEF to
  <2> QED BY <2>1, <2>2, <2>3, WaitStep
<1>8. ASSUME NEW t \in Workers, Timeout(t) PROVE ChannelInv'
  <2>1. /\ place[t] = "wait" /\ place' = [place EXCEPT ![t] = "run"]
        /\ UNCHANGED <<buf, closed, recvEvent, answers, sent, given>>
    BY <1>8 DEF Timeout
  <2>2. HasOp(t) /\ TheOp(t).op \in {"send", "recv"}
    BY <1>0, <2>1 DEF WaitInv
  <2> QED BY <2>1, <2>2, WaitStep
<1>9. CASE UNCHANGED channelVars
  <2>1. UNCHANGED <<buf, closed, recvEvent, place, answers, sent, given>>
    BY <1>9 DEF channelVars
  <2> QED BY <2>1 DEF ChannelInv, ChannelTypeOK, BufferInv, WaitInv, EndInv, HasOp, ToldClosed, TheOp
<1> QED BY <1>1, <1>2, <1>3, <1>4, <1>5, <1>6, <1>7, <1>8, <1>9 DEF ChannelNext, WorkerStep, Joined

(* In every state of the channel: a value of its type for every variable,   *)
(* the buffer is the part of the items sent that nobody has been given, and *)
(* never longer than maxsize, threads wait only inside send and recv, and   *)
(* nobody is told that an open channel is closed.                           *)
THEOREM ChannelInvariance == ChannelSpec => []ChannelInv
<1>1. ChannelInit => ChannelInv
  BY ChannelInitInv
<1>2. ChannelInv /\ [ChannelNext]_channelVars => ChannelInv'
  BY ChannelNextInv
<1> QED BY <1>1, <1>2, PTL DEF ChannelSpec

--------------------------------------------------------------------------------
(* After a recv has returned None nothing is ever put: send is refused on a *)
(* closed channel, and the channel stays closed.                            *)
LEMMA EndKept == ChannelInv /\ NoneMeansTheEnd /\ [ChannelNext]_channelVars => NoneMeansTheEnd'
<1> SUFFICES ASSUME ChannelInv, NoneMeansTheEnd, [ChannelNext]_channelVars,
                    NEW t \in Workers, ToldClosed(t)',
                    Ops[t][Len(answers'[t])].op = "recv"
             PROVE  buf' = <<>>
  BY DEF NoneMeansTheEnd
<1>0. ChannelTypeOK /\ EndInv
  BY DEF ChannelInv
<1>1. CASE answers'[t] = answers[t]
  <2>1. buf = <<>> /\ closed
    BY <1>0, <1>1 DEF NoneMeansTheEnd, EndInv, ToldClosed
  <2>2. ASSUME NEW u \in Workers, WorkerStep(u) PROVE buf' = buf
    BY <2>1, <2>2 DEF WorkerStep, Put, GiveUp, Get, TooLate, LeaveLock, Park, Timeout, Close
  <2> QED BY <2>1, <2>2 DEF ChannelNext, Joined, channelVars
<1>2. CASE answers'[t] # answers[t]
  <2>1. PICK u \in Workers : WorkerStep(u)
    BY <1>2 DEF ChannelNext, Joined, channelVars
  <2>2. PICK status \in {"ok", "not_now", "closed"}, item \in Int :
          /\ Return(u, status, item) /\ HasOp(u)
          /\ status = "closed" => TooLate(u)
    <3>1. Put(u) \/ GiveUp(u) \/ Get(u) \/ TooLate(u) \/ Close(u)
      BY <1>2, <2>1 DEF WorkerStep, LeaveLock, Park, Timeout
    <3>2. HasOp(u)
      BY <3>1 DEF Put, GiveUp, Get, TooLate, Close, Calls
    <3>3. TheOp(u).item \in Int
      BY <1>0, <3>2, CurrentOp
    <3>4. CASE Put(u) \/ Close(u)
      <4>1. Return(u, "ok", TheOp(u).item)
        BY <3>4 DEF Put, Close
      <4> QED BY <3>2, <3>3, <4>1
    <3>5. CASE GiveUp(u)
      <4>1. Return(u, "not_now", TheOp(u).item)
        BY <3>5 DEF GiveUp
      <4> QED BY <3>2, <3>3, <4>1
    <3>6. CASE Get(u)
      <4>1. Return(u, "ok", Head(buf)) /\ buf # <<>>
        BY <3>6 DEF Get
      <4>2. Head(buf) \in Int
        BY <1>0, <4>1, Beheaded DEF ChannelTypeOK
      <4> QED BY <3>2, <4>1, <4>2
    <3>7. CASE TooLate(u)
      <4>1. Return(u, "closed", TheOp(u).item)
        BY <3>7 DEF TooLate
      <4> QED BY <3>2, <3>3, <3>7, <4>1
    <3> QED BY <3>1, <3>4, <3>5, <3>6, <3>7
  <2>3. /\ \A v \in Workers \ {u} : answers'[v] = answers[v]
        /\ Len(answers'[u]) = Len(answers[u]) + 1
        /\ ToldClosed(u)' <=> status = "closed"
    BY <1>0, <2>2, Returned
  <2>4. t = u /\ TooLate(u)
    BY <1>2, <2>2, <2>3
  <2>5. TheOp(u).op = "recv"
    BY <2>3, <2>4 DEF TheOp
  <2>6. buf = <<>> /\ buf' = buf
    BY <2>4, <2>5 DEF TooLate, Calls, Drained
  <2> QED BY <2>6
<1> QED BY <1>1, <1>2

(* recv returns None only when no item is left, and none comes after it.    *)
THEOREM EndOfStream == ChannelSpec => []NoneMeansTheEnd
<1>1. ChannelInit => NoneMeansTheEnd
  BY ChannelInitInv
<1>2. ChannelInv /\ NoneMeansTheEnd /\ [ChannelNext]_channelVars => NoneMeansTheEnd'
  BY EndKept
<1> QED BY <1>1, <1>2, ChannelInvariance, PTL DEF ChannelSpec

--------------------------------------------------------------------------------
(* What the buffer says to a call is what the log says to the abstract one. *)
LEMMA SameGuards ==
  ASSUME ChannelInv
  PROVE  /\ Full <=> Fifo!Full
         /\ buf = <<>> <=> given = Len(sent)
         /\ \A t \in Workers : HasOp(t) <=> Fifo!Todo(t)
         /\ \A t : TheOp(t) = Fifo!Now(t)
<1>1. buf \in Seq(Int) /\ Len(sent) = given + Len(buf) /\ given \in Nat /\ MaxSize \in Nat
  BY ChannelAssumption DEF ChannelInv, ChannelTypeOK, BufferInv
<1>2. Full <=> Fifo!Full
  BY <1>1 DEF Full, Fifo!Full
<1>3. buf = <<>> <=> Len(buf) = 0
  BY <1>1
<1>4. buf = <<>> <=> given = Len(sent)
  BY <1>1, <1>3
<1>5. \A t \in Workers : HasOp(t) <=> Fifo!Todo(t)
  BY DEF HasOp, ToldClosed, Fifo!Todo
<1>6. \A t : TheOp(t) = Fifo!Now(t)
  BY DEF TheOp, Fifo!Now
<1> QED BY <1>2, <1>4, <1>5, <1>6

LEMMA Simulation == ChannelInv /\ [ChannelNext]_channelVars => [Fifo!Next]_(Fifo!vars)
<1> SUFFICES ASSUME ChannelInv, [ChannelNext]_channelVars PROVE [Fifo!Next]_(Fifo!vars)
  OBVIOUS
<1> USE SameGuards
<1>1. ASSUME NEW t \in Workers, Put(t) PROVE Fifo!Put(t)
  BY <1>1 DEF Put, Calls, Return, Fifo!Put, Fifo!Answer
<1>2. ASSUME NEW t \in Workers, GiveUp(t) PROVE Fifo!GiveUp(t)
  BY <1>2 DEF GiveUp, Calls, Return, Fifo!GiveUp, Fifo!Answer
<1>3. ASSUME NEW t \in Workers, Get(t) PROVE Fifo!Get(t)
  <2>1. /\ HasOp(t) /\ TheOp(t).op \in {"recv", "try_recv"} /\ buf # <<>>
        /\ buf' = Tail(buf) /\ sent' = sent /\ given' = given + 1 /\ closed' = closed
        /\ Return(t, "ok", Head(buf))
    BY <1>3 DEF Get, Calls
  <2>2. Head(buf) = sent[given + 1] /\ given < Len(sent)
    BY <2>1, GetKeepsBuffer DEF ChannelInv
  <2> QED BY <2>1, <2>2 DEF Return, Fifo!Get, Fifo!Answer
<1>4. ASSUME NEW t \in Workers, TooLate(t) PROVE Fifo!TooLate(t)
  BY <1>4 DEF TooLate, Calls, Drained, Return, Fifo!TooLate, Fifo!Answer
<1>5. ASSUME NEW t \in Workers, Close(t) PROVE Fifo!Close(t)
  BY <1>5 DEF Close, Calls, Return, Fifo!Close, Fifo!Answer
<1>6. ASSUME NEW t \in Workers, LeaveLock(t) \/ Park(t) \/ Timeout(t) PROVE UNCHANGED Fifo!vars
  BY <1>6 DEF LeaveLock, Park, Timeout, Fifo!vars
<1>7. CASE UNCHANGED channelVars
  BY <1>7 DEF channelVars, Fifo!vars
<1> QED BY <1>1, <1>2, <1>3, <1>4, <1>5, <1>6, <1>7
      DEF ChannelNext, WorkerStep, Joined, Fifo!Next

(* The calls behave as if made one at a time on a FIFO channel: the polling,*)
(* the events and the released lock cannot be seen from outside.            *)
THEOREM ChannelAtomicity == ChannelSpec => ChannelCallsAreAtomic
<1>1. ChannelInit => Fifo!Init
  BY DEF ChannelInit, Fifo!Init
<1>2. ChannelInv /\ [ChannelNext]_channelVars => [Fifo!Next]_(Fifo!vars)
  BY Simulation
<1> QED BY <1>1, <1>2, ChannelInvariance, PTL DEF ChannelSpec, ChannelCallsAreAtomic, Fifo!Spec
================================================================================
