-------------------------------- MODULE STMBank --------------------------------
(****************************************************************************)
(* Threads that move money between two TVar accounts with                   *)
(* stm_bank_transfer, counting each transfer in a ledger TVar, and the main *)
(* thread that joins them and adds the balances up (python/stm/stm_model.py)*)
(****************************************************************************)
EXTENDS STM, Sequences

CONSTANTS AccA, AccB, Ledger,  (* the three TVars                            *)
          InitBalance,         (* what create_tvar puts on the two accounts  *)
          Jobs                 (* Jobs[t]: the transfers thread t makes      *)

Accounts == {AccA, AccB}
Job == [from : Accounts, to : Accounts, amount : Nat]

ASSUME BankAssumption ==
  /\ AccA # AccB /\ AccA # Ledger /\ AccB # Ledger
  /\ TVars = {AccA, AccB, Ledger}
  /\ InitBalance \in [Accounts -> Nat]
  /\ Jobs \in [Threads -> Seq(Job)]
  /\ \A t \in Threads : \A i \in 1..Len(Jobs[t]) : Jobs[t][i].from # Jobs[t][i].to

VARIABLES
  done,     (* transfers of each thread that have returned                  *)
  commits,  (* transfers that have returned, all threads together           *)
  audit     (* what the main thread has read after join()                   *)

vars == <<value, version, globalLock, pc, readSet, writeSet, todo, done, commits, audit>>

TypeOK == /\ StmTypeOK
          /\ done \in [Threads -> Nat]
          /\ \A t \in Threads : done[t] <= Len(Jobs[t])
          /\ commits \in Nat
          /\ IsDict(audit, Int)

Init == /\ StmInit([x \in TVars |-> IF x \in Accounts THEN InitBalance[x] ELSE 0])
        /\ done = [t \in Threads |-> 0]
        /\ commits = 0
        /\ audit = EmptyDict

--------------------------------------------------------------------------------
HasJob(t) == done[t] < Len(Jobs[t])
TheJob(t) == Jobs[t][done[t] + 1]

Seen(t, x) == readSet[t][x].val

(* atomically(transfer): a new round for the thread's current job.          *)
Start(t) == /\ HasJob(t)
            /\ Begin(t)
            /\ UNCHANGED <<done, commits, audit>>

(* from_bal = txn.read_tvar(from_acc)                                       *)
ReadFrom(t) ==
  /\ pc[t] = "body"
  /\ DOMAIN readSet[t] = {}
  /\ readSet' = [readSet EXCEPT ![t] = ReadSetAfter(t, TheJob(t).from)]
  /\ UNCHANGED <<value, version, globalLock, pc, writeSet, todo, done, commits, audit>>

Payable(t) == Seen(t, TheJob(t).from) >= TheJob(t).amount

(* to_bal = txn.read_tvar(to_acc), then the funds check and the two writes. *)
ReadTo(t) ==
  /\ pc[t] = "body"
  /\ DOMAIN readSet[t] = {TheJob(t).from}
  /\ readSet' = [readSet EXCEPT ![t] = ReadSetAfter(t, TheJob(t).to)]
  /\ \/ /\ Payable(t)
        /\ writeSet' = [writeSet EXCEPT ![t] =
             Put(Put(@, TheJob(t).from, Seen(t, TheJob(t).from) - TheJob(t).amount),
                 TheJob(t).to, ReadValue(t, TheJob(t).to) + TheJob(t).amount)]
        /\ UNCHANGED <<pc, todo>>
     \/ /\ ~Payable(t)
        /\ EndBodyWithRetry(t)
        /\ UNCHANGED writeSet
  /\ UNCHANGED <<value, version, globalLock, done, commits, audit>>

(* ledger_count = txn.read_tvar(ledger); write it back plus one; return.    *)
ReadLedger(t) ==
  /\ pc[t] = "body"
  /\ DOMAIN readSet[t] = {TheJob(t).from, TheJob(t).to}
  /\ readSet' = [readSet EXCEPT ![t] = ReadSetAfter(t, Ledger)]
  /\ writeSet' = [writeSet EXCEPT ![t] = Put(@, Ledger, ReadValue(t, Ledger) + 1)]
  /\ EndBody(t)
  /\ UNCHANGED <<value, version, globalLock, done, commits, audit>>

Engine(t) == StmStep(t) /\ UNCHANGED <<done, commits, audit>>

(* atomically() returns: the transfer has been made.                        *)
Finish(t) == /\ CommitDone(t)
             /\ done' = [done EXCEPT ![t] = @ + 1]
             /\ commits' = commits + 1
             /\ UNCHANGED audit

(* for t in threads: t.join(); a thread also ends when an exception leaves  *)
(* atomically().                                                            *)
Ended(t) == pc[t] = "raised" \/ (pc[t] = "idle" /\ ~HasJob(t))
AllJoined == \A t \in Threads : Ended(t)

(* read_tvar outside a transaction, by the main thread.                     *)
AuditRead(x) ==
  /\ AllJoined
  /\ x \notin DOMAIN audit
  /\ audit' = Put(audit, x, value[x])
  /\ UNCHANGED <<value, version, globalLock, pc, readSet, writeSet, todo, done, commits>>

(* The program has printed its report and exits.                            *)
Exit == AllJoined /\ DOMAIN audit = TVars /\ UNCHANGED vars

ThreadStep(t) == \/ Start(t) \/ ReadFrom(t) \/ ReadTo(t) \/ ReadLedger(t)
                 \/ Engine(t) \/ Finish(t)

Next == \/ \E t \in Threads : ThreadStep(t)
        \/ \E x \in TVars : AuditRead(x)
        \/ Exit

Spec == Init /\ [][Next]_vars

(* Every thread is scheduled; Python's Lock is not fair, and nothing more   *)
(* than weak fairness of the thread that waits for it is assumed.           *)
FairSpec == Spec /\ \A t \in Threads : WF_vars(ThreadStep(t))
                 /\ \A x \in TVars : WF_vars(AuditRead(x))

--------------------------------------------------------------------------------
(* The state a commit is about to leave: what its lock holder has validated *)
(* counts as written, though the loop of commit() has not reached it yet.   *)
Committing(t) == globalLock = t /\ pc[t] = "write"
Pending(x) == \E t \in Threads : Committing(t) /\ x \in todo[t]
Committed(x) == IF Pending(x) THEN writeSet[globalLock][x] ELSE value[x]

InitTotal == InitBalance[AccA] + InitBalance[AccB]

(* Whenever no commit is under way the two accounts hold what they held at  *)
(* the start: neither a lost update nor a half-applied commit survives the  *)
(* global lock (lines 156-161, asserted at the end of the demo, line 363).  *)
MoneyConserved == globalLock = NoThread => value[AccA] + value[AccB] = InitTotal

(* The ledger TVar counts the transfers that have returned, whenever no     *)
(* commit is under way (line 221-222; the benchmark reports it, line 260).  *)
LedgerCountsTransfers == globalLock = NoThread => value[Ledger] = commits

(* The funds check of line 213 was made on a balance read long before; no   *)
(* account is ever overdrawn all the same, not even inside a commit.        *)
NoOverdraft == \A x \in Accounts : value[x] >= 0

(* commit() is not meant to find a conflict once the lock is held: neither  *)
(* RuntimeError (lines 97, 107), which would leave a transfer half made,    *)
(* can happen.                                                              *)
CommitNeverRaises == \A t \in Threads : pc[t] # "raised"

(* After join() the three reads of the main thread agree: the balances add  *)
(* up to the initial total and the ledger to the number of jobs.            *)
AuditAddsUp ==
  DOMAIN audit = TVars => /\ audit[AccA] + audit[AccB] = InitTotal
                          /\ audit[Ledger] = commits

(* The books of the bank, as a whole.                                       *)
BooksBalance == MoneyConserved /\ LedgerCountsTransfers /\ NoOverdraft /\ AuditAddsUp

(* Every transfer is made in the end when the bank can pay all of them,     *)
(* through conflicts, and through retries while funds are missing.          *)
AllTransfersReturn == <>(\A t \in Threads : ~HasJob(t))

(* Transfers take effect at one instant, that of the last validation, and   *)
(* only on balances that can pay them, for every interleaving (and a        *)
(* transfer that stays payable is made).                                    *)
Bank == INSTANCE AtomicBank WITH
          balance <- [x \in Accounts |-> Committed(x)],
          count   <- Committed(Ledger),
          served  <- [t \in Threads |-> IF Committing(t) THEN done[t] + 1 ELSE done[t]]

TransfersAreAtomic == Bank!FairSpec
--------------------------------------------------------------------------------
(* Why the properties hold: the parts of an inductive invariant.            *)

Holding(t) == pc[t] \in LockedScans \cup {"write"}
Attempting(t) == pc[t] \in Scans \cup {"lock", "write"}

(* The global lock is held by the thread that is past line 158, and by no   *)
(* other.                                                                   *)
LockInv == \A t \in Threads : Holding(t) <=> globalLock = t

(* A scan stays inside the dictionary it scans.                             *)
ScanInv == \A t \in Threads :
  /\ pc[t] \in Scans => todo[t] \subseteq DOMAIN readSet[t]
  /\ pc[t] = "write" => todo[t] \subseteq DOMAIN writeSet[t]

(* A version seen is past or present, and a present version means that the  *)
(* value seen is the present one.                                           *)
ReadInv == \A t \in Threads : \A x \in DOMAIN readSet[t] :
  /\ readSet[t][x].ver <= version[x]
  /\ EntryCurrent(t, x) => readSet[t][x].val = value[x]

(* What the lock holder has validated stays valid until it publishes it.    *)
Validated(t, x) ==
  \/ pc[t] = "revalidate" /\ x \notin todo[t]
  \/ pc[t] = "precommit"
  \/ pc[t] = "write" /\ x \in todo[t]
ValidInv == \A t \in Threads : \A x \in DOMAIN readSet[t] :
  Validated(t, x) => EntryCurrent(t, x)

(* What the body of a transfer has read and written so far.                 *)
MoveWritten(t) ==
  LET from == TheJob(t).from  to == TheJob(t).to  n == TheJob(t).amount IN
  /\ Payable(t)
  /\ writeSet[t][from] = Seen(t, from) - n
  /\ writeSet[t][to] = Seen(t, to) + n
BodyOK(t) ==
  /\ pc[t] = "body" =>
       /\ HasJob(t)
       /\ \/ DOMAIN readSet[t] = {} /\ DOMAIN writeSet[t] = {}
          \/ DOMAIN readSet[t] = {TheJob(t).from} /\ DOMAIN writeSet[t] = {}
          \/ /\ DOMAIN readSet[t] = Accounts
             /\ DOMAIN writeSet[t] = Accounts
             /\ MoveWritten(t)
  /\ Attempting(t) =>
       /\ HasJob(t)
       /\ DOMAIN readSet[t] = TVars
       /\ DOMAIN writeSet[t] = TVars
       /\ MoveWritten(t)
       /\ writeSet[t][Ledger] = Seen(t, Ledger) + 1
BodyInv == \A t \in Threads : BodyOK(t)

(* The books balance at every instant when a validated commit counts as     *)
(* made, and the money is never negative.                                   *)
BooksInv ==
  /\ Committed(AccA) + Committed(AccB) = InitTotal
  /\ Committed(Ledger) = IF \E t \in Threads : Committing(t) THEN commits + 1 ELSE commits
  /\ \A x \in Accounts : Committed(x) >= 0 /\ value[x] >= 0

(* What the main thread has read is still so.                               *)
AuditInv == \A x \in DOMAIN audit : AllJoined /\ audit[x] = value[x]

IInv == /\ TypeOK /\ LockInv /\ ScanInv /\ ReadInv /\ ValidInv
        /\ BodyInv /\ BooksInv /\ CommitNeverRaises /\ AuditInv
================================================================================
