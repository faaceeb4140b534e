----------------------------- MODULE STMBankProofs -----------------------------
(****************************************************************************)
(* The proofs that the transfers of STMBank keep the books, for any number  *)
(* of threads and any jobs.  IInv is inductive: one lemma for each action   *)
(* shows that the action keeps it.                                          *)
(****************************************************************************)
EXTENDS STMBank, TLAPS

(* The current job of a thread that has one is a transfer between two       *)
(* different accounts.                                                      *)
LEMMA CurrentJob ==
  ASSUME TypeOK, NEW t \in Threads, HasJob(t)
  PROVE  /\ TheJob(t) \in Job
         /\ TheJob(t).from \in Accounts /\ TheJob(t).to \in Accounts
         /\ TheJob(t).amount \in Nat
         /\ TheJob(t).from # TheJob(t).to
         /\ {TheJob(t).from, TheJob(t).to} = Accounts
<1>1. done[t] \in Nat /\ Jobs[t] \in Seq(Job) /\ done[t] + 1 \in 1..Len(Jobs[t])
  BY BankAssumption DEF TypeOK, HasJob
<1>2. Jobs[t][done[t] + 1] \in Job
  BY <1>1
<1>3. Jobs[t][done[t] + 1].from # Jobs[t][done[t] + 1].to
  BY <1>1, BankAssumption
<1> QED BY <1>2, <1>3 DEF TheJob, Job, Accounts

LEMMA EmptyIsDict == ASSUME NEW V PROVE IsDict(EmptyDict, V) /\ DOMAIN EmptyDict = {}
BY DEF IsDict, EmptyDict

(* What a read of x leaves in the read set of t.                            *)
ReadLeft(t, x) ==
  /\ DOMAIN readSet' = Threads
  /\ \A u \in Threads : u # t => readSet'[u] = readSet[u]
  /\ \A u \in Threads : IsDict(readSet'[u], Entry)
  /\ DOMAIN readSet'[t] = DOMAIN readSet[t] \cup {x}
  /\ readSet'[t][x].val = value[x] /\ readSet'[t][x].ver = version[x]
  /\ \A y \in DOMAIN readSet[t] : y # x => readSet'[t][y] = readSet[t][y]

LEMMA ReadSetGrows ==
  ASSUME StmTypeOK, NEW t \in Threads, NEW x \in TVars, x \notin DOMAIN writeSet[t],
         readSet' = [readSet EXCEPT ![t] = ReadSetAfter(t, x)]
  PROVE  ReadLeft(t, x)
<1> DEFINE entry == [val |-> value[x], ver |-> version[x]]
<1>1. entry \in Entry /\ entry.val = value[x] /\ entry.ver = version[x]
  BY DEF StmTypeOK, Entry
<1> HIDE DEF entry
<1>2. DOMAIN readSet = Threads /\ \A u \in Threads : IsDict(readSet[u], Entry)
  BY DEF StmTypeOK
<1>3. readSet' = [readSet EXCEPT ![t] = Put(readSet[t], x, entry)]
  BY DEF ReadSetAfter, entry
<1>4. /\ IsDict(Put(readSet[t], x, entry), Entry)
      /\ DOMAIN Put(readSet[t], x, entry) = DOMAIN readSet[t] \cup {x}
      /\ Put(readSet[t], x, entry)[x] = entry
      /\ \A y \in DOMAIN readSet[t] : y # x => Put(readSet[t], x, entry)[y] = readSet[t][y]
  <2>1. IsDict(readSet[t], Entry) /\ entry \in Entry
    BY <1>1, <1>2
  <2> QED BY <2>1 DEF Put, IsDict
<1>5. /\ DOMAIN readSet' = Threads
      /\ readSet'[t] = Put(readSet[t], x, entry)
      /\ \A u \in Threads : u # t => readSet'[u] = readSet[u]
  BY <1>2, <1>3
<1> QED BY <1>1, <1>2, <1>4, <1>5 DEF ReadLeft

(* A read adds an entry of the present.                                     *)
LEMMA ReadKeepsReadInv ==
  ASSUME StmTypeOK, ReadInv, NEW t \in Threads, NEW x \in TVars, ReadLeft(t, x),
         UNCHANGED <<value, version>>
  PROVE  ReadInv'
<1> SUFFICES ASSUME NEW u \in Threads, NEW y \in DOMAIN readSet'[u]
             PROVE  /\ readSet'[u][y].ver <= version[y]
                    /\ version[y] = readSet'[u][y].ver => readSet'[u][y].val = value[y]
  BY DEF ReadInv, EntryCurrent
<1>1. CASE u = t /\ y = x
  BY <1>1 DEF StmTypeOK, ReadLeft
<1>2. CASE ~(u = t /\ y = x)
  <2>1. y \in DOMAIN readSet[u] /\ readSet'[u][y] = readSet[u][y]
    BY <1>2 DEF ReadLeft
  <2> QED BY <2>1 DEF ReadInv, EntryCurrent
<1> QED BY <1>1, <1>2

(* The body invariant of a thread reads nothing but the thread's own state. *)
LEMMA BodyOthers ==
  ASSUME BodyInv, NEW t, UNCHANGED done,
         \A u \in Threads : u # t => /\ pc'[u] = pc[u]
                                     /\ readSet'[u] = readSet[u]
                                     /\ writeSet'[u] = writeSet[u],
         BodyOK(t)'
  PROVE  BodyInv'
<1> SUFFICES ASSUME NEW u \in Threads, u # t PROVE BodyOK(u)'
  BY DEF BodyInv
<1>1. /\ BodyOK(u) /\ pc'[u] = pc[u] /\ readSet'[u] = readSet[u] /\ writeSet'[u] = writeSet[u]
  BY DEF BodyInv
<1> QED BY <1>1 DEF BodyOK, Attempting, HasJob, TheJob, MoveWritten, Payable, Seen

(* The initial state.                                                       *)
LEMMA InitInv == Init => IInv
<1> SUFFICES ASSUME Init PROVE IInv
  OBVIOUS
<1>1. TypeOK
  BY BankAssumption, EmptyIsDict
     DEF Init, StmInit, TypeOK, StmTypeOK, PCs, Accounts
<1>2. LockInv /\ ScanInv /\ CommitNeverRaises
  BY NoThreadAssumption
     DEF Init, StmInit, LockInv, Holding, ScanInv, CommitNeverRaises,
         Scans, LockedScans, UnlockedScan
<1>3. ReadInv /\ ValidInv /\ AuditInv
  BY EmptyIsDict DEF Init, StmInit, ReadInv, ValidInv, AuditInv
<1>4. BodyInv
  BY DEF Init, StmInit, BodyInv, BodyOK, Attempting, Scans, LockedScans, UnlockedScan
<1>5. BooksInv
  BY BankAssumption
     DEF Init, StmInit, BooksInv, Committed, Pending, Committing, InitTotal, Accounts
<1> QED BY <1>1, <1>2, <1>3, <1>4, <1>5 DEF IInv

(* A new round of atomically() begins.                                      *)
LEMMA StartStep ==
  ASSUME IInv, NEW t \in Threads, Start(t) PROVE IInv'
<1> USE DEF Start, Begin
<1>1. TypeOK'
  BY EmptyIsDict DEF IInv, TypeOK, StmTypeOK, PCs
<1>2. LockInv' /\ ScanInv' /\ CommitNeverRaises'
  BY DEF IInv, TypeOK, StmTypeOK, LockInv, Holding, ScanInv, CommitNeverRaises,
         Scans, LockedScans, UnlockedScan
<1>3. ReadInv' /\ ValidInv'
  BY EmptyIsDict
     DEF IInv, TypeOK, StmTypeOK, ReadInv, ValidInv, Validated, EntryCurrent
<1>4. BodyInv'
  <2>1. BodyOK(t)'
    BY EmptyIsDict DEF IInv, TypeOK, StmTypeOK, BodyOK, Attempting, Scans, LockedScans,
                       UnlockedScan, HasJob
  <2> QED BY <2>1, BodyOthers DEF IInv, TypeOK, StmTypeOK
<1>5. BooksInv'
  BY NoThreadAssumption
     DEF IInv, TypeOK, StmTypeOK, LockInv, Holding, LockedScans,
         BooksInv, Committed, Pending, Committing, InitTotal, Accounts
<1>6. AuditInv'
  BY DEF IInv, TypeOK, StmTypeOK, AuditInv, AllJoined, Ended, HasJob
<1> QED BY <1>1, <1>2, <1>3, <1>4, <1>5, <1>6 DEF IInv

(* The body of the transfer reads the source account.                       *)
LEMMA ReadFromStep ==
  ASSUME IInv, NEW t \in Threads, ReadFrom(t) PROVE IInv'
<1> USE DEF ReadFrom
<1> DEFINE x == TheJob(t).from
<1>1. HasJob(t) /\ DOMAIN writeSet[t] = {} /\ DOMAIN readSet[t] = {}
  BY CurrentJob DEF IInv, BodyInv, BodyOK
<1>2. x \in TVars
  BY <1>1, CurrentJob, BankAssumption DEF IInv, Accounts
<1>3. readSet' = [readSet EXCEPT ![t] = ReadSetAfter(t, x)]
  OBVIOUS
<1> HIDE DEF x
<1>5. StmTypeOK /\ x \notin DOMAIN writeSet[t]
  BY <1>1 DEF IInv, TypeOK
<1>6. /\ DOMAIN readSet' = Threads
      /\ \A u \in Threads : u # t => readSet'[u] = readSet[u]
      /\ \A u \in Threads : IsDict(readSet'[u], Entry)
      /\ DOMAIN readSet'[t] = {x}
      /\ readSet'[t][x].val = value[x] /\ readSet'[t][x].ver = version[x]
  <2>1. ReadLeft(t, x)
    BY <1>2, <1>3, <1>5, ReadSetGrows
  <2> QED BY <1>1, <2>1 DEF ReadLeft
<1>7. TypeOK'
  BY <1>6 DEF IInv, TypeOK, StmTypeOK
<1>8. LockInv' /\ ScanInv' /\ CommitNeverRaises'
  BY <1>6 DEF IInv, TypeOK, StmTypeOK, LockInv, Holding, ScanInv, CommitNeverRaises,
              Scans, LockedScans, UnlockedScan
<1>9. ReadInv' /\ ValidInv'
  BY <1>2, <1>6 DEF IInv, TypeOK, StmTypeOK, ReadInv, ValidInv, Validated, EntryCurrent
<1>10. BodyInv'
  <2>1. BodyOK(t)'
    BY <1>1, <1>6 DEF BodyOK, Attempting, Scans, LockedScans, UnlockedScan, HasJob, TheJob, x
  <2> QED BY <1>6, <2>1, BodyOthers DEF IInv, TypeOK, StmTypeOK
<1>11. BooksInv' /\ AuditInv'
  BY DEF IInv, BooksInv, Committed, Pending, Committing, InitTotal, Accounts,
         AuditInv, AllJoined, Ended, HasJob
<1> QED BY <1>7, <1>8, <1>9, <1>10, <1>11 DEF IInv

(* ... then the destination, and either gives up for this round or writes   *)
(* both new balances.                                                       *)
LEMMA ReadToStep ==
  ASSUME IInv, NEW t \in Threads, ReadTo(t) PROVE IInv'
<1> DEFINE from == TheJob(t).from
           to == TheJob(t).to
           n == TheJob(t).amount
<1>1. /\ HasJob(t) /\ DOMAIN writeSet[t] = {} /\ DOMAIN readSet[t] = {from}
      /\ pc[t] = "body"
  BY CurrentJob DEF IInv, BodyInv, BodyOK, ReadTo
<1>2. /\ from \in Accounts /\ to \in Accounts /\ {from, to} = Accounts /\ n \in Nat
      /\ from \in TVars /\ to \in TVars /\ from # to
  BY <1>1, CurrentJob, BankAssumption DEF IInv, Accounts
<1>3. readSet' = [readSet EXCEPT ![t] = ReadSetAfter(t, to)]
  BY DEF ReadTo
<1>4. UNCHANGED <<value, version, globalLock, done, commits, audit>>
  BY DEF ReadTo
<1>5. \/ /\ Payable(t) /\ UNCHANGED <<pc, todo>>
         /\ writeSet' = [writeSet EXCEPT ![t] =
              Put(Put(writeSet[t], from, Seen(t, from) - n), to, ReadValue(t, to) + n)]
      \/ /\ pc' = [pc EXCEPT ![t] = "idle"]
         /\ todo' = [todo EXCEPT ![t] = {}]
         /\ UNCHANGED writeSet
  BY DEF ReadTo, EndBodyWithRetry
<1>6. TheJob(t)' = TheJob(t) /\ (Payable(t) <=> Seen(t, from) >= n)
  BY <1>4 DEF TheJob, Payable
<1> HIDE DEF from, to, n
<1>7. StmTypeOK /\ to \notin DOMAIN writeSet[t]
  BY <1>1 DEF IInv, TypeOK
<1>8. /\ DOMAIN readSet' = Threads
      /\ \A u \in Threads : u # t => readSet'[u] = readSet[u]
      /\ \A u \in Threads : IsDict(readSet'[u], Entry)
      /\ DOMAIN readSet'[t] = {from, to}
      /\ readSet'[t][to].val = value[to] /\ readSet'[t][to].ver = version[to]
      /\ readSet'[t][from] = readSet[t][from]
  <2>1. ReadLeft(t, to)
    BY <1>2, <1>3, <1>7, ReadSetGrows
  <2> QED BY <1>1, <1>2, <2>1 DEF ReadLeft
<1>9. Seen(t, from) \in Int /\ value[to] \in Int
  BY <1>1, <1>2 DEF IInv, TypeOK, StmTypeOK, IsDict, Entry, Seen
<1>10. ReadInv'
  <2>1. ReadLeft(t, to)
    BY <1>2, <1>3, <1>7, ReadSetGrows
  <2> QED BY <1>2, <1>4, <1>7, <2>1, ReadKeepsReadInv DEF IInv
<1>11. BooksInv' /\ AuditInv'
  <2>1. pc[t] # "write" /\ pc'[t] # "write"
    BY <1>1, <1>5 DEF IInv, TypeOK, StmTypeOK
  <2>2. \A u \in Threads : u # t => pc'[u] = pc[u] /\ todo'[u] = todo[u] /\ writeSet'[u] = writeSet[u]
    BY <1>5 DEF IInv, TypeOK, StmTypeOK
  <2>3. BooksInv'
    BY <1>4, <2>1, <2>2
       DEF IInv, BooksInv, Committed, Pending, Committing, InitTotal, Accounts
  <2>4. ~AllJoined
    BY <1>1 DEF AllJoined, Ended
  <2>5. AuditInv'
    BY <1>4, <2>4 DEF IInv, AuditInv
  <2> QED BY <2>3, <2>5
<1>12. CASE /\ Payable(t) /\ UNCHANGED <<pc, todo>>
            /\ writeSet' = [writeSet EXCEPT ![t] =
                 Put(Put(writeSet[t], from, Seen(t, from) - n), to, ReadValue(t, to) + n)]
  <2>1. /\ IsDict(writeSet[t], Int) /\ Seen(t, from) - n \in Int
        /\ ReadValue(t, to) = value[to] /\ value[to] + n \in Int
    BY <1>1, <1>2, <1>7, <1>9 DEF StmTypeOK, ReadValue
  <2>2. /\ IsDict(Put(writeSet[t], from, Seen(t, from) - n), Int)
        /\ DOMAIN Put(writeSet[t], from, Seen(t, from) - n) = {} \cup {from}
        /\ Put(writeSet[t], from, Seen(t, from) - n)[from] = Seen(t, from) - n
    BY <1>1, <1>2, <2>1 DEF Put, IsDict
  <2> DEFINE w == Put(Put(writeSet[t], from, Seen(t, from) - n), to, value[to] + n)
  <2>3. /\ IsDict(w, Int)
        /\ DOMAIN w = ({} \cup {from}) \cup {to}
        /\ w[to] = value[to] + n
        /\ w[from] = Seen(t, from) - n
    BY <1>2, <2>1, <2>2 DEF Put, IsDict
  <2>4. writeSet' = [writeSet EXCEPT ![t] = w]
    BY <1>12, <2>1
  <2> HIDE DEF w
  <2>5. /\ DOMAIN writeSet' = Threads
        /\ \A u \in Threads : u # t => writeSet'[u] = writeSet[u]
        /\ \A u \in Threads : IsDict(writeSet'[u], Int)
        /\ DOMAIN writeSet'[t] = {from, to}
        /\ writeSet'[t][from] = Seen(t, from) - n
        /\ writeSet'[t][to] = value[to] + n
    BY <1>7, <2>3, <2>4 DEF StmTypeOK
  <2>6. TypeOK'
    BY <1>4, <1>8, <1>12, <2>5 DEF IInv, TypeOK, StmTypeOK
  <2>7. LockInv' /\ ScanInv' /\ CommitNeverRaises' /\ ValidInv'
    BY <1>1, <1>4, <1>8, <1>12, <2>5 DEF IInv, LockInv, Holding, ScanInv,
         CommitNeverRaises, Scans, LockedScans, UnlockedScan, ValidInv,
         Validated, EntryCurrent
  <2>8. MoveWritten(t)'
    BY <1>6, <1>8, <1>12, <2>5 DEF MoveWritten, Payable, Seen, from, to, n
  <2>9. BodyInv'
    <3>1. BodyOK(t)'
      BY <1>1, <1>2, <1>4, <1>8, <1>12, <2>5, <2>8
         DEF BodyOK, Attempting, Scans, LockedScans, UnlockedScan, HasJob
    <3> QED BY <1>4, <1>8, <1>12, <2>5, <3>1, BodyOthers DEF IInv
  <2> QED BY <1>10, <1>11, <2>6, <2>7, <2>9 DEF IInv
<1>13. CASE /\ pc' = [pc EXCEPT ![t] = "idle"]
            /\ todo' = [todo EXCEPT ![t] = {}]
            /\ UNCHANGED writeSet
  <2>1. TypeOK'
    BY <1>4, <1>8, <1>13 DEF IInv, TypeOK, StmTypeOK, PCs
  <2>2. LockInv' /\ ScanInv' /\ CommitNeverRaises' /\ ValidInv'
    BY <1>1, <1>4, <1>8, <1>13 DEF IInv, TypeOK, StmTypeOK, LockInv, Holding, ScanInv,
         CommitNeverRaises, Scans, LockedScans, UnlockedScan, ValidInv,
         Validated, EntryCurrent
  <2>3. BodyInv'
    <3>1. BodyOK(t)'
      BY <1>1, <1>13 DEF IInv, TypeOK, StmTypeOK, BodyOK, Attempting, Scans, LockedScans,
                         UnlockedScan
    <3> QED BY <1>4, <1>8, <1>13, <3>1, BodyOthers DEF IInv, TypeOK, StmTypeOK
  <2> QED BY <1>10, <1>11, <2>1, <2>2, <2>3 DEF IInv
<1> QED BY <1>5, <1>12, <1>13

(* ... and last the ledger, which completes the write set.                  *)
LEMMA ReadLedgerStep ==
  ASSUME IInv, NEW t \in Threads, ReadLedger(t) PROVE IInv'
<1>1. /\ HasJob(t) /\ DOMAIN readSet[t] = Accounts /\ DOMAIN writeSet[t] = Accounts
      /\ TheJob(t).from \in Accounts /\ TheJob(t).to \in Accounts
      /\ MoveWritten(t) /\ pc[t] = "body"
  BY CurrentJob, BankAssumption DEF IInv, BodyInv, BodyOK, Accounts, ReadLedger
<1>2. /\ Ledger \notin Accounts /\ Ledger \in TVars /\ TVars = Accounts \cup {Ledger}
      /\ Ledger \notin DOMAIN writeSet[t]
  BY <1>1, BankAssumption DEF Accounts
<1>3. StmTypeOK /\ value[Ledger] + 1 \in Int
  BY <1>2 DEF IInv, TypeOK, StmTypeOK
<1>4. /\ readSet' = [readSet EXCEPT ![t] = ReadSetAfter(t, Ledger)]
      /\ writeSet' = [writeSet EXCEPT ![t] = Put(writeSet[t], Ledger, value[Ledger] + 1)]
      /\ UNCHANGED <<value, version, globalLock, done, commits, audit>>
  BY <1>2 DEF ReadLedger, ReadValue
<1>5. /\ DOMAIN readSet' = Threads
      /\ \A u \in Threads : u # t => readSet'[u] = readSet[u]
      /\ \A u \in Threads : IsDict(readSet'[u], Entry)
      /\ DOMAIN readSet'[t] = TVars
      /\ readSet'[t][Ledger].val = value[Ledger] /\ readSet'[t][Ledger].ver = version[Ledger]
      /\ \A x \in Accounts : readSet'[t][x] = readSet[t][x]
  <2>1. ReadLeft(t, Ledger)
    BY <1>2, <1>3, <1>4, ReadSetGrows
  <2> QED BY <1>1, <1>2, <2>1 DEF ReadLeft
<1>6. /\ IsDict(Put(writeSet[t], Ledger, value[Ledger] + 1), Int)
      /\ DOMAIN Put(writeSet[t], Ledger, value[Ledger] + 1) = DOMAIN writeSet[t] \cup {Ledger}
      /\ Put(writeSet[t], Ledger, value[Ledger] + 1)[Ledger] = value[Ledger] + 1
      /\ \A x \in DOMAIN writeSet[t] :
           x # Ledger => Put(writeSet[t], Ledger, value[Ledger] + 1)[x] = writeSet[t][x]
  <2>1. IsDict(writeSet[t], Int)
    BY <1>3 DEF StmTypeOK
  <2> QED BY <1>2, <1>3, <2>1 DEF Put, IsDict
<1>7. /\ DOMAIN writeSet' = Threads
      /\ \A u \in Threads : u # t => writeSet'[u] = writeSet[u]
      /\ \A u \in Threads : IsDict(writeSet'[u], Int)
      /\ DOMAIN writeSet'[t] = TVars
      /\ writeSet'[t][Ledger] = value[Ledger] + 1
      /\ \A x \in Accounts : writeSet'[t][x] = writeSet[t][x]
  BY <1>1, <1>2, <1>3, <1>4, <1>6 DEF StmTypeOK
<1>8. /\ pc' = [pc EXCEPT ![t] = "validate"] /\ todo' = [todo EXCEPT ![t] = TVars]
  BY <1>5 DEF ReadLedger, EndBody
<1>9. TypeOK'
  BY <1>4, <1>5, <1>7, <1>8 DEF IInv, TypeOK, StmTypeOK, PCs, Scans, UnlockedScan
<1>10. LockInv' /\ ScanInv' /\ CommitNeverRaises'
  BY <1>1, <1>4, <1>5, <1>7, <1>8 DEF IInv, TypeOK, StmTypeOK, LockInv, Holding, ScanInv,
       CommitNeverRaises, Scans, LockedScans, UnlockedScan
<1>11. ReadInv' /\ ValidInv'
  BY <1>1, <1>2, <1>4, <1>5, <1>8
     DEF IInv, TypeOK, StmTypeOK, ReadInv, EntryCurrent, ValidInv, Validated
<1>12. MoveWritten(t)' /\ writeSet'[t][Ledger] = Seen(t, Ledger)' + 1
  BY <1>1, <1>4, <1>5, <1>7 DEF MoveWritten, Payable, Seen, TheJob
<1>13. BodyInv'
  <2>1. BodyOK(t)'
    BY <1>1, <1>4, <1>5, <1>7, <1>8, <1>12
       DEF IInv, TypeOK, StmTypeOK, BodyOK, Attempting, Scans, LockedScans, UnlockedScan, HasJob
  <2> QED BY <1>4, <1>5, <1>7, <1>8, <2>1, BodyOthers DEF IInv, TypeOK, StmTypeOK
<1>14. BooksInv'
  BY <1>1, <1>4, <1>7, <1>8, NoThreadAssumption
     DEF IInv, TypeOK, StmTypeOK, LockInv, Holding, LockedScans, BooksInv, Committed,
         Pending, Committing, InitTotal, Accounts
<1>15. AuditInv'
  BY <1>1, <1>4, <1>8 DEF IInv, TypeOK, StmTypeOK, AuditInv, AllJoined, Ended, HasJob
<1> QED BY <1>9, <1>10, <1>11, <1>13, <1>14, <1>15 DEF IInv
(* Steps that leave the dictionaries alone keep the invariant of the body   *)
(* as long as they do not move the thread to an earlier or a later part.    *)
LEMMA SameDictionaries ==
  ASSUME IInv, NEW t \in Threads, UNCHANGED <<readSet, writeSet, done>>,
         \A u \in Threads : u # t => pc'[u] = pc[u],
         \/ Attempting(t) /\ Attempting(t)'
         \/ pc'[t] \in {"idle", "raised"}
  PROVE  BodyInv'
<1>1. BodyOK(t)'
  BY DEF IInv, BodyInv, BodyOK, Attempting, HasJob, TheJob, MoveWritten, Payable, Seen,
         Scans, LockedScans, UnlockedScan
<1> QED BY <1>1, BodyOthers DEF IInv

(* One entry of the scan is current.                                        *)
LEMMA ScanNextStep ==
  ASSUME IInv, NEW t \in Threads, Engine(t), ScanNext(t) PROVE IInv'
<1>1. PICK x \in todo[t] : EntryCurrent(t, x) /\ todo' = [todo EXCEPT ![t] = todo[t] \ {x}]
  BY DEF ScanNext
<1>2. /\ UNCHANGED <<value, version, globalLock, pc, readSet, writeSet, done, commits, audit>>
      /\ pc[t] \in Scans
  BY DEF ScanNext, Engine
<1>3. /\ todo'[t] = todo[t] \ {x} /\ \A u \in Threads : u # t => todo'[u] = todo[u]
      /\ todo' \in [Threads -> SUBSET TVars]
  BY <1>1 DEF IInv, TypeOK, StmTypeOK
<1>4. TypeOK'
  BY <1>2, <1>3 DEF IInv, TypeOK, StmTypeOK
<1>5. LockInv' /\ CommitNeverRaises' /\ AuditInv' /\ ReadInv'
  BY <1>2 DEF IInv, LockInv, Holding, CommitNeverRaises, AuditInv, AllJoined, Ended, HasJob,
              ReadInv, EntryCurrent
<1>6. ScanInv'
  BY <1>2, <1>3 DEF IInv, ScanInv, Scans, LockedScans, UnlockedScan
<1>7. ValidInv'
  <2> SUFFICES ASSUME NEW u \in Threads, NEW y \in DOMAIN readSet[u], Validated(u, y)'
               PROVE  EntryCurrent(u, y)
    BY <1>2 DEF ValidInv, EntryCurrent
  <2>1. CASE u = t /\ y = x
    BY <1>1, <2>1
  <2>2. CASE ~(u = t /\ y = x)
    <3>1. y \in todo[u] => y \in todo'[u]
      BY <1>3, <2>2
    <3>2. Validated(u, y)
      BY <1>2, <1>3, <3>1 DEF Validated, Scans, LockedScans, UnlockedScan
    <3> QED BY <3>2 DEF IInv, ValidInv
  <2> QED BY <2>1, <2>2
<1>8. BodyInv'
  BY <1>2, SameDictionaries DEF Attempting
<1>9. BooksInv'
  <2>1. pc[t] # "write"
    BY <1>2 DEF Scans, LockedScans, UnlockedScan
  <2> QED BY <1>2, <1>3, <2>1
             DEF IInv, BooksInv, Committed, Pending, Committing, InitTotal, Accounts
<1> QED BY <1>4, <1>5, <1>6, <1>7, <1>8, <1>9 DEF IInv

(* The lock holder is one thread.                                           *)
LEMMA OneHolder ==
  ASSUME IInv, NEW t \in Threads, Holding(t)
  PROVE  globalLock = t /\ \A u \in Threads : u # t => ~Holding(u)
BY DEF IInv, LockInv

(* A scan finds a stale entry: never inside commit(); otherwise the round   *)
(* is given up and the lock, if held, released.                             *)
LEMMA ScanConflictStep ==
  ASSUME IInv, NEW t \in Threads, Engine(t), ScanConflict(t) PROVE IInv'
<1>1. /\ UNCHANGED <<value, version, readSet, writeSet, done, commits, audit>>
      /\ pc[t] \in Scans
  BY DEF ScanConflict, Engine
<1>2. pc[t] # "precommit"
  <2> SUFFICES ASSUME pc[t] = "precommit" PROVE FALSE
    OBVIOUS
  <2>1. PICK x \in todo[t] : ~EntryCurrent(t, x)
    BY DEF ScanConflict
  <2>2. x \in DOMAIN readSet[t]
    BY <1>1, <2>1 DEF IInv, ScanInv
  <2> QED BY <2>1, <2>2 DEF IInv, ValidInv, Validated
<1>3. /\ pc' = [pc EXCEPT ![t] = "idle"]
      /\ todo' = [todo EXCEPT ![t] = {}]
      /\ globalLock' = IF globalLock = t THEN NoThread ELSE globalLock
  BY <1>2 DEF ScanConflict, ReleaseIfHeldBy
<1>4. TypeOK'
  BY <1>1, <1>3 DEF IInv, TypeOK, StmTypeOK, PCs
<1>5. LockInv' /\ CommitNeverRaises' /\ ScanInv' /\ ReadInv' /\ ValidInv'
  BY <1>1, <1>3, NoThreadAssumption
     DEF IInv, TypeOK, StmTypeOK, LockInv, Holding, CommitNeverRaises, ScanInv, ReadInv,
         ValidInv, Validated, EntryCurrent, Scans, LockedScans, UnlockedScan
<1>6. BodyInv'
  <2>1. pc'[t] = "idle" /\ \A u \in Threads : u # t => pc'[u] = pc[u]
    BY <1>3 DEF IInv, TypeOK, StmTypeOK
  <2> QED BY <1>1, <2>1, SameDictionaries
<1>7. BooksInv'
  <2>1. pc[t] # "write" /\ ~Committing(t) /\ ~Committing(t)'
    BY <1>1, <1>3 DEF IInv, TypeOK, StmTypeOK, Committing, Scans, LockedScans, UnlockedScan
  <2>2. \A u \in Threads : u # t => (Committing(u)' <=> Committing(u)) /\ todo'[u] = todo[u]
    BY <1>3, NoThreadAssumption DEF IInv, TypeOK, StmTypeOK, LockInv, Holding, Committing
  <2>3. \A x : Pending(x)' <=> Pending(x)
    BY <2>1, <2>2 DEF Pending
  <2>4. \A x : Committed(x)' = Committed(x)
    BY <1>1, <1>3, <2>1, <2>2, <2>3, NoThreadAssumption DEF Committed, Pending, Committing
  <2> QED BY <1>1, <2>1, <2>2, <2>4 DEF IInv, BooksInv, InitTotal
<1>8. AuditInv'
  <2>1. ~AllJoined
    BY <1>1 DEF AllJoined, Ended, Scans, LockedScans, UnlockedScan
  <2> QED BY <1>1, <2>1 DEF IInv, AuditInv
<1> QED BY <1>4, <1>5, <1>6, <1>7, <1>8 DEF IInv
(* The scan is over.  Leaving the last one, the whole write set counts as   *)
(* committed: both accounts and the ledger change at this instant, from     *)
(* values that are all current.                                             *)
LEMMA ScanDoneStep ==
  ASSUME IInv, NEW t \in Threads, Engine(t), ScanDone(t) PROVE IInv'
<1>1. /\ UNCHANGED <<value, version, globalLock, readSet, writeSet, done, commits, audit>>
      /\ todo[t] = {}
      /\ \/ GoOn(t, "validate", "lock", {})
         \/ GoOn(t, "revalidate", "precommit", DOMAIN readSet[t])
         \/ GoOn(t, "precommit", "write", DOMAIN writeSet[t])
  BY DEF ScanDone, Engine
<1>2. /\ pc \in [Threads -> PCs] /\ todo \in [Threads -> SUBSET TVars]
      /\ DOMAIN readSet[t] \subseteq TVars /\ DOMAIN writeSet[t] \subseteq TVars
  BY DEF IInv, TypeOK, StmTypeOK, IsDict
<1>3. \A u \in Threads : u # t => pc'[u] = pc[u] /\ todo'[u] = todo[u]
  BY <1>1, <1>2 DEF GoOn
<1>4. TypeOK'
  <2>1. pc' \in [Threads -> PCs] /\ todo' \in [Threads -> SUBSET TVars]
    <3>1. PICK p \in PCs, k \in SUBSET TVars :
            pc' = [pc EXCEPT ![t] = p] /\ todo' = [todo EXCEPT ![t] = k]
      BY <1>1, <1>2 DEF GoOn, PCs, Scans, LockedScans
    <3> QED BY <1>2, <3>1
  <2> QED BY <1>1, <2>1 DEF IInv, TypeOK, StmTypeOK, IsDict
<1>5. LockInv' /\ CommitNeverRaises' /\ ScanInv' /\ ReadInv'
  BY <1>1, <1>2
     DEF IInv, LockInv, Holding, CommitNeverRaises, ScanInv, ReadInv, EntryCurrent, GoOn,
         Scans, LockedScans, UnlockedScan
<1>6. ValidInv'
  BY <1>1, <1>2 DEF IInv, ValidInv, Validated, EntryCurrent, GoOn
<1>7. BodyInv'
  <2>1. Attempting(t) /\ Attempting(t)'
    BY <1>1, <1>2 DEF GoOn, Attempting, Scans, LockedScans, UnlockedScan
  <2> QED BY <1>1, <1>3, <2>1, SameDictionaries
<1>8. AuditInv'
  <2>1. ~AllJoined
    BY <1>1 DEF GoOn, AllJoined, Ended
  <2> QED BY <1>1, <2>1 DEF IInv, AuditInv
<1>9. CASE pc[t] # "precommit"
  <2>1. pc[t] # "write" /\ pc'[t] # "write"
    BY <1>1, <1>2, <1>9 DEF GoOn
  <2>2. BooksInv'
    BY <1>1, <1>3, <2>1
       DEF IInv, BooksInv, Committed, Pending, Committing, InitTotal, Accounts
  <2> QED BY <1>4, <1>5, <1>6, <1>7, <1>8, <2>2 DEF IInv
<1>10. CASE pc[t] = "precommit"
  <2>1. pc'[t] = "write" /\ todo'[t] = DOMAIN writeSet[t]
    BY <1>1, <1>2, <1>10 DEF GoOn
  <2>2. /\ globalLock = t /\ ~Committing(t) /\ Committing(t)'
        /\ \A u \in Threads : u # t => ~Committing(u) /\ ~Committing(u)'
    BY <1>1, <1>10, <2>1 DEF IInv, LockInv, Holding, LockedScans, Committing
  <2>3. /\ DOMAIN readSet[t] = TVars /\ DOMAIN writeSet[t] = TVars /\ MoveWritten(t)
        /\ writeSet[t][Ledger] = Seen(t, Ledger) + 1
        /\ HasJob(t)
    BY <1>10 DEF IInv, BodyInv, BodyOK, Attempting, Scans, LockedScans
  <2>4. \A x \in TVars : Seen(t, x) = value[x]
    BY <1>10, <2>3 DEF IInv, ValidInv, Validated, ReadInv, Seen
  <2>5. \A x \in TVars : Committed(x) = value[x] /\ Committed(x)' = writeSet[t][x]
    BY <1>1, <2>1, <2>2, <2>3 DEF Committed, Pending
  <2> DEFINE from == TheJob(t).from
             to == TheJob(t).to
             n == TheJob(t).amount
  <2>6. /\ {from, to} = Accounts /\ from # to /\ n \in Nat
        /\ AccA \in TVars /\ AccB \in TVars /\ Ledger \in TVars /\ AccA # AccB
        /\ \A x \in TVars : value[x] \in Int
    BY <2>3, CurrentJob, BankAssumption DEF IInv, TypeOK, StmTypeOK
  <2>7. /\ writeSet[t][from] = value[from] - n
        /\ writeSet[t][to] = value[to] + n
        /\ value[from] >= n
        /\ writeSet[t][Ledger] = value[Ledger] + 1
    BY <2>3, <2>4, <2>6 DEF MoveWritten, Payable, Accounts
  <2>8. /\ value[AccA] + value[AccB] = InitTotal
        /\ value[Ledger] = commits
        /\ value[from] >= 0 /\ value[to] >= 0
    <3>1. ~\E u \in Threads : Committing(u)
      BY <2>2
    <3> QED BY <2>5, <2>6, <3>1 DEF IInv, BooksInv
  <2> HIDE DEF from, to, n
  <2>9. (from = AccA /\ to = AccB) \/ (from = AccB /\ to = AccA)
    BY <2>6 DEF Accounts
  <2>10. /\ Committed(AccA)' + Committed(AccB)' = InitTotal
         /\ Committed(Ledger)' = commits + 1
         /\ \A x \in Accounts : Committed(x)' >= 0
    BY <2>5, <2>6, <2>7, <2>8, <2>9 DEF Accounts
  <2>11. \A x \in Accounts : value'[x] >= 0
    BY <1>1 DEF IInv, BooksInv
  <2>12. BooksInv'
    BY <1>1, <2>2, <2>10, <2>11 DEF BooksInv, InitTotal
  <2> QED BY <1>4, <1>5, <1>6, <1>7, <1>8, <2>12 DEF IInv
<1> QED BY <1>9, <1>10

(* The thread takes the free lock.                                          *)
LEMMA AcquireStep ==
  ASSUME IInv, NEW t \in Threads, Engine(t), AcquireGlobal(t) PROVE IInv'
<1>1. /\ UNCHANGED <<value, version, readSet, writeSet, done, commits, audit>>
      /\ pc[t] = "lock" /\ globalLock = NoThread /\ globalLock' = t
      /\ pc' = [pc EXCEPT ![t] = "revalidate"]
      /\ todo' = [todo EXCEPT ![t] = DOMAIN readSet[t]]
  BY DEF AcquireGlobal, Engine, LockFree
<1>2. /\ pc'[t] = "revalidate" /\ todo'[t] = DOMAIN readSet[t]
      /\ \A u \in Threads : u # t => pc'[u] = pc[u] /\ todo'[u] = todo[u]
  BY <1>1 DEF IInv, TypeOK, StmTypeOK
<1>3. TypeOK'
  BY <1>1 DEF IInv, TypeOK, StmTypeOK, IsDict, PCs, Scans, LockedScans
<1>4. LockInv' /\ CommitNeverRaises' /\ ScanInv' /\ ReadInv' /\ ValidInv'
  BY <1>1, <1>2, NoThreadAssumption
     DEF IInv, LockInv, Holding, CommitNeverRaises, ScanInv, ReadInv, ValidInv, Validated,
         EntryCurrent, Scans, LockedScans, UnlockedScan
<1>5. BodyInv'
  <2>1. Attempting(t) /\ Attempting(t)'
    BY <1>1, <1>2 DEF Attempting, Scans, LockedScans
  <2> QED BY <1>1, <1>2, <2>1, SameDictionaries
<1>6. BooksInv'
  <2>1. \A u \in Threads : ~Committing(u) /\ ~Committing(u)'
    BY <1>1, <1>2, NoThreadAssumption DEF Committing
  <2> QED BY <1>1, <2>1 DEF IInv, BooksInv, Committed, Pending, InitTotal
<1>7. AuditInv'
  <2>1. ~AllJoined
    BY <1>1 DEF AllJoined, Ended
  <2> QED BY <1>1, <2>1 DEF IInv, AuditInv
<1> QED BY <1>3, <1>4, <1>5, <1>6, <1>7 DEF IInv

(* One TVar is published.  It has counted as committed since the last       *)
(* validation, so the books do not move.                                    *)
LEMMA CommitWriteStep ==
  ASSUME IInv, NEW t \in Threads, Engine(t), CommitWrite(t) PROVE IInv'
<1>1. PICK x \in todo[t] : /\ Publish(x, writeSet[t][x])
                           /\ todo' = [todo EXCEPT ![t] = todo[t] \ {x}]
  BY DEF CommitWrite
<1>2. /\ UNCHANGED <<globalLock, pc, readSet, writeSet, done, commits, audit>>
      /\ pc[t] = "write"
  BY DEF CommitWrite, Engine
<1>3. /\ globalLock = t /\ Committing(t) /\ Committing(t)'
      /\ \A u \in Threads : u # t => ~Committing(u) /\ ~Committing(u)' /\ ~Holding(u)
  BY <1>2 DEF IInv, LockInv, Holding, Committing
<1>4. /\ x \in TVars /\ writeSet[t][x] \in Int
      /\ x \in DOMAIN writeSet[t] /\ DOMAIN readSet[t] = TVars
  BY <1>2 DEF IInv, TypeOK, StmTypeOK, IsDict, ScanInv, BodyInv, BodyOK, Attempting
<1>5. /\ value' = [value EXCEPT ![x] = writeSet[t][x]]
      /\ version' = [version EXCEPT ![x] = version[x] + 1]
      /\ value'[x] = writeSet[t][x] /\ version'[x] = version[x] + 1
      /\ \A y \in TVars : y # x => value'[y] = value[y] /\ version'[y] = version[y]
      /\ \A y \in TVars : version[y] \in Nat
  BY <1>1, <1>4 DEF Publish, IInv, TypeOK, StmTypeOK
<1>6. /\ todo'[t] = todo[t] \ {x} /\ \A u \in Threads : u # t => todo'[u] = todo[u]
      /\ todo' \in [Threads -> SUBSET TVars]
  BY <1>1 DEF IInv, TypeOK, StmTypeOK
<1>7. TypeOK'
  BY <1>2, <1>4, <1>5, <1>6 DEF IInv, TypeOK, StmTypeOK
<1>8. LockInv' /\ CommitNeverRaises' /\ ScanInv'
  BY <1>2, <1>6 DEF IInv, LockInv, Holding, CommitNeverRaises, ScanInv, Scans, LockedScans,
                    UnlockedScan
<1>9. ReadInv'
  <2> SUFFICES ASSUME NEW u \in Threads, NEW y \in DOMAIN readSet[u]
               PROVE  /\ readSet[u][y].ver <= version'[y]
                      /\ version'[y] = readSet[u][y].ver => readSet[u][y].val = value'[y]
    BY <1>2 DEF ReadInv, EntryCurrent
  <2>1. /\ y \in TVars /\ readSet[u][y].ver \in Nat
        /\ readSet[u][y].ver <= version[y]
        /\ version[y] = readSet[u][y].ver => readSet[u][y].val = value[y]
    BY DEF IInv, TypeOK, StmTypeOK, IsDict, Entry, ReadInv, EntryCurrent
  <2> QED BY <1>5, <2>1
<1>10. ValidInv'
  <2> SUFFICES ASSUME NEW u \in Threads, NEW y \in DOMAIN readSet[u], Validated(u, y)'
               PROVE  version'[y] = readSet[u][y].ver
    BY <1>2 DEF ValidInv, EntryCurrent
  <2>1. u = t
    BY <1>2, <1>3 DEF Validated, Holding, LockedScans
  <2>2. y \in todo[t] /\ y # x /\ y \in TVars
    BY <1>2, <1>4, <1>6, <2>1 DEF Validated
  <2> QED BY <1>2, <1>5, <2>1, <2>2 DEF IInv, ValidInv, Validated, EntryCurrent
<1>11. BodyInv'
  BY <1>2, SameDictionaries DEF Attempting
<1>12. BooksInv'
  <2>1. \A y \in TVars : Committed(y)' = Committed(y)
    BY <1>2, <1>3, <1>5, <1>6 DEF Committed, Pending
  <2>2. Committed(x) = writeSet[t][x]
    BY <1>3 DEF Committed, Pending
  <2>3. \A y \in Accounts : y \in TVars /\ Committed(y) >= 0 /\ value[y] >= 0
    BY BankAssumption DEF IInv, BooksInv, Accounts
  <2>4. \A y \in Accounts : value'[y] >= 0
    BY <1>5, <2>2, <2>3
  <2>5. AccA \in TVars /\ AccB \in TVars /\ Ledger \in TVars
    BY BankAssumption
  <2>6. \E u \in Threads : Committing(u)
    BY <1>3
  <2> QED BY <1>2, <1>3, <2>1, <2>3, <2>4, <2>5, <2>6 DEF IInv, BooksInv, InitTotal
<1>13. AuditInv'
  <2>1. ~AllJoined
    BY <1>2 DEF AllJoined, Ended
  <2> QED BY <1>2, <2>1 DEF IInv, AuditInv
<1> QED BY <1>7, <1>8, <1>9, <1>10, <1>11, <1>12, <1>13 DEF IInv

(* The re-check of the commit loop never fails.                             *)
LEMMA CommitRaiseImpossible ==
  ASSUME IInv, NEW t \in Threads PROVE ~CommitRaise(t)
BY DEF CommitRaise, IInv, ValidInv, Validated
(* Everything is published: the lock is released and the transfer returns.  *)
LEMMA FinishStep ==
  ASSUME IInv, NEW t \in Threads, Finish(t) PROVE IInv'
<1>1. /\ UNCHANGED <<value, version, readSet, writeSet, todo, audit>>
      /\ pc[t] = "write" /\ todo[t] = {} /\ globalLock' = NoThread
      /\ pc' = [pc EXCEPT ![t] = "idle"]
      /\ done' = [done EXCEPT ![t] = done[t] + 1]
      /\ commits' = commits + 1
  BY DEF Finish, CommitDone
<1>2. /\ globalLock = t /\ Committing(t) /\ HasJob(t)
      /\ \A u \in Threads : u # t => ~Holding(u) /\ ~Committing(u)
  BY <1>1 DEF IInv, LockInv, Holding, Committing, BodyInv, BodyOK, Attempting
<1>3. /\ pc'[t] = "idle" /\ done'[t] = done[t] + 1
      /\ \A u \in Threads : u # t => pc'[u] = pc[u] /\ done'[u] = done[u]
      /\ \A u \in Threads : ~Committing(u)'
  BY <1>1, NoThreadAssumption DEF IInv, TypeOK, StmTypeOK, Committing
<1>4. TypeOK'
  <2>1. done[t] + 1 <= Len(Jobs[t])
    BY <1>2, BankAssumption DEF IInv, TypeOK, HasJob
  <2> QED BY <1>1, <2>1 DEF IInv, TypeOK, StmTypeOK, PCs
<1>5. LockInv' /\ CommitNeverRaises' /\ ScanInv' /\ ReadInv' /\ ValidInv'
  BY <1>1, <1>2, <1>3, NoThreadAssumption
     DEF IInv, LockInv, Holding, CommitNeverRaises, ScanInv, ReadInv, ValidInv, Validated,
         EntryCurrent, Scans, LockedScans, UnlockedScan
<1>6. BodyInv'
  <2> SUFFICES ASSUME NEW u \in Threads PROVE BodyOK(u)'
    BY DEF BodyInv
  <2>1. CASE u = t
    BY <1>3, <2>1 DEF BodyOK, Attempting, Scans, LockedScans, UnlockedScan
  <2>2. CASE u # t
    <3>1. BodyOK(u) /\ pc'[u] = pc[u] /\ done'[u] = done[u]
      BY <1>3, <2>2 DEF IInv, BodyInv
    <3> QED BY <1>1, <3>1 DEF BodyOK, Attempting, HasJob, TheJob, MoveWritten, Payable, Seen
  <2> QED BY <2>1, <2>2
<1>7. BooksInv'
  <2>1. \A x : Committed(x) = value[x] /\ Committed(x)' = value[x]
    BY <1>1, <1>2, <1>3 DEF Committed, Pending
  <2>2. \E u \in Threads : Committing(u)
    BY <1>2
  <2> QED BY <1>1, <1>3, <2>1, <2>2 DEF IInv, BooksInv, InitTotal
<1>8. AuditInv'
  <2>1. ~AllJoined
    BY <1>1 DEF AllJoined, Ended
  <2> QED BY <1>1, <2>1 DEF IInv, AuditInv
<1> QED BY <1>4, <1>5, <1>6, <1>7, <1>8 DEF IInv

(* The main thread reads one TVar.                                          *)
LEMMA AuditReadStep ==
  ASSUME IInv, NEW x \in TVars, AuditRead(x) PROVE IInv'
<1>1. /\ UNCHANGED <<value, version, globalLock, pc, readSet, writeSet, todo, done, commits>>
      /\ AllJoined
      /\ audit' = Put(audit, x, value[x])
  BY DEF AuditRead
<1>2. /\ IsDict(audit, Int) /\ value[x] \in Int
  BY DEF IInv, TypeOK, StmTypeOK
<1>3. /\ IsDict(audit', Int)
      /\ \A y \in DOMAIN audit' : audit'[y] = IF y = x THEN value[x] ELSE audit[y]
      /\ DOMAIN audit' = DOMAIN audit \cup {x}
  BY <1>1, <1>2 DEF IsDict, Put
<1>4. TypeOK'
  BY <1>1, <1>3 DEF IInv, TypeOK, StmTypeOK
<1>5. LockInv' /\ ScanInv' /\ ReadInv' /\ ValidInv' /\ CommitNeverRaises'
  BY <1>1 DEF IInv, LockInv, Holding, ScanInv, ReadInv, ValidInv, Validated, EntryCurrent,
              CommitNeverRaises
<1>6. BodyInv'
  BY <1>1 DEF IInv, BodyInv, BodyOK, Attempting, HasJob, TheJob, MoveWritten, Payable, Seen
<1>7. BooksInv'
  BY <1>1 DEF IInv, BooksInv, Committed, Pending, Committing, InitTotal
<1>8. AuditInv'
  BY <1>1, <1>3 DEF IInv, AuditInv, AllJoined, Ended, HasJob
<1> QED BY <1>4, <1>5, <1>6, <1>7, <1>8 DEF IInv

LEMMA StutterStep == ASSUME IInv, UNCHANGED vars PROVE IInv'
<1>1. TypeOK' /\ LockInv' /\ ScanInv' /\ ReadInv' /\ ValidInv' /\ CommitNeverRaises'
  BY DEF vars, IInv, TypeOK, StmTypeOK, LockInv, Holding, ScanInv, ReadInv, ValidInv,
         Validated, EntryCurrent, CommitNeverRaises
<1>2. BodyInv' /\ BooksInv' /\ AuditInv'
  BY DEF vars, IInv, BodyInv, BodyOK, Attempting, HasJob, TheJob, MoveWritten, Payable, Seen,
         BooksInv, Committed, Pending, Committing, InitTotal, AuditInv, AllJoined, Ended
<1> QED BY <1>1, <1>2 DEF IInv

--------------------------------------------------------------------------------
(* No step of any thread, and no read of the main thread, breaks the        *)
(* inductive invariant.                                                     *)
LEMMA NextInv == ASSUME IInv, [Next]_vars PROVE IInv'
<1>1. ASSUME NEW t \in Threads, ThreadStep(t) PROVE IInv'
  <2>1. CASE Start(t)
    BY <2>1, StartStep
  <2>2. CASE ReadFrom(t)
    BY <2>2, ReadFromStep
  <2>3. CASE ReadTo(t)
    BY <2>3, ReadToStep
  <2>4. CASE ReadLedger(t)
    BY <2>4, ReadLedgerStep
  <2>5. CASE Engine(t)
    BY <2>5, ScanNextStep, ScanConflictStep, ScanDoneStep, AcquireStep, CommitWriteStep,
       CommitRaiseImpossible DEF Engine, StmStep
  <2>6. CASE Finish(t)
    BY <2>6, FinishStep
  <2> QED BY <1>1, <2>1, <2>2, <2>3, <2>4, <2>5, <2>6 DEF ThreadStep
<1>2. ASSUME NEW x \in TVars, AuditRead(x) PROVE IInv'
  BY <1>2, AuditReadStep
<1>3. CASE Exit
  BY <1>3, StutterStep DEF Exit
<1>4. CASE UNCHANGED vars
  BY <1>4, StutterStep
<1> QED BY <1>1, <1>2, <1>3, <1>4 DEF Next

(* The inductive invariant holds in every reachable state.                  *)
THEOREM Invariance == Spec => []IInv
<1>1. Init => IInv
  BY InitInv
<1>2. IInv /\ [Next]_vars => IInv'
  BY NextInv
<1> QED BY <1>1, <1>2, PTL DEF Spec

(* Every variable keeps its type, and no thread makes more transfers than   *)
(* it was given.                                                            *)
THEOREM TypeCorrect == Spec => []TypeOK
<1>1. IInv => TypeOK
  BY DEF IInv
<1> QED BY <1>1, Invariance, PTL

(* Money is neither made nor lost: between two commits the balances add up  *)
(* to what the bank opened with (lines 94-109 under the lock of line 158).  *)
THEOREM Conservation == Spec => []MoneyConserved
<1>1. IInv => MoneyConserved
  <2> SUFFICES ASSUME IInv, globalLock = NoThread
               PROVE  value[AccA] + value[AccB] = InitTotal
    BY DEF MoneyConserved
  <2>1. \A t \in Threads : ~Committing(t)
    BY NoThreadAssumption DEF Committing
  <2>2. \A x : Committed(x) = value[x]
    BY <2>1 DEF Committed, Pending
  <2> QED BY <2>2 DEF IInv, BooksInv
<1> QED BY <1>1, Invariance, PTL

(* The ledger TVar has lost no increment.                                   *)
THEOREM LedgerExact == Spec => []LedgerCountsTransfers
<1>1. IInv => LedgerCountsTransfers
  <2> SUFFICES ASSUME IInv, globalLock = NoThread
               PROVE  value[Ledger] = commits
    BY DEF LedgerCountsTransfers
  <2>1. \A t \in Threads : ~Committing(t)
    BY NoThreadAssumption DEF Committing
  <2>2. Committed(Ledger) = value[Ledger]
    BY <2>1 DEF Committed, Pending
  <2> QED BY <2>1, <2>2 DEF IInv, BooksInv
<1> QED BY <1>1, Invariance, PTL

(* No balance is ever negative, and commit() never raises.                  *)
THEOREM NeverOverdrawn == Spec => []NoOverdraft
<1>1. IInv => NoOverdraft
  BY DEF IInv, BooksInv, NoOverdraft
<1> QED BY <1>1, Invariance, PTL

THEOREM CommitSucceeds == Spec => []CommitNeverRaises
<1>1. IInv => CommitNeverRaises
  BY DEF IInv
<1> QED BY <1>1, Invariance, PTL

(* What the main thread reads after join() adds up.                         *)
THEOREM AuditCorrect == Spec => []AuditAddsUp
<1>1. IInv => AuditAddsUp
  <2> SUFFICES ASSUME IInv, DOMAIN audit = TVars
               PROVE  audit[AccA] + audit[AccB] = InitTotal /\ audit[Ledger] = commits
    BY DEF AuditAddsUp
  <2>1. /\ AccA \in TVars /\ AccB \in TVars /\ Ledger \in TVars
    BY BankAssumption
  <2>2. AllJoined /\ \A x \in TVars : audit[x] = value[x]
    BY <2>1 DEF IInv, AuditInv
  <2>3. \A t \in Threads : ~Committing(t)
    BY <2>2 DEF AllJoined, Ended, Committing
  <2>4. \A x : Committed(x) = value[x]
    BY <2>3 DEF Committed, Pending
  <2> QED BY <2>1, <2>2, <2>3, <2>4 DEF IInv, BooksInv
<1> QED BY <1>1, Invariance, PTL

(* The books of stm_bank_transfer and of the report, as a whole.            *)
THEOREM BooksAreKept == Spec => []BooksBalance
<1>1. MoneyConserved /\ LedgerCountsTransfers /\ NoOverdraft /\ AuditAddsUp => BooksBalance
  BY DEF BooksBalance
<1> QED BY <1>1, Conservation, LedgerExact, NeverOverdrawn, AuditCorrect, PTL

--------------------------------------------------------------------------------
(* The refinement.  The abstract state is a function of what counts as      *)
(* committed and of the transfers that have taken effect.                   *)
Served(t) == IF Committing(t) THEN done[t] + 1 ELSE done[t]

LEMMA AbstractStutter ==
  ASSUME \A u \in Threads : Served(u)' = Served(u),
         \A x \in TVars : Committed(x)' = Committed(x)
  PROVE  UNCHANGED Bank!vars
<1>1. Accounts \subseteq TVars /\ Ledger \in TVars
  BY BankAssumption DEF Accounts
<1>2. [x \in Accounts |-> Committed(x)]' = [x \in Accounts |-> Committed(x)]
  BY <1>1
<1>3. [t \in Threads |-> IF Committing(t) THEN done[t] + 1 ELSE done[t]]'
        = [t \in Threads |-> IF Committing(t) THEN done[t] + 1 ELSE done[t]]
  BY DEF Served
<1> QED BY <1>1, <1>2, <1>3 DEF Bank!vars

(* A thread that neither is nor gets past its last validation changes       *)
(* nothing of the abstract state.                                           *)
LEMMA QuietStep ==
  ASSUME NEW t \in Threads, UNCHANGED <<value, done>>,
         pc[t] # "write", pc'[t] # "write",
         \A u \in Threads : u # t => /\ pc'[u] = pc[u] /\ todo'[u] = todo[u]
                                     /\ writeSet'[u] = writeSet[u],
         \/ UNCHANGED globalLock
         \/ globalLock \in {t, NoThread} /\ globalLock' \in {t, NoThread}
  PROVE  UNCHANGED Bank!vars
<1>1. ~Committing(t) /\ ~Committing(t)'
  BY DEF Committing
<1>2. \A u \in Threads : u # t => (Committing(u)' <=> Committing(u))
  BY NoThreadAssumption DEF Committing
<1>3. \A x \in TVars : Committed(x)' = Committed(x)
  <2> SUFFICES ASSUME NEW x \in TVars PROVE Committed(x)' = Committed(x)
    OBVIOUS
  <2>1. Pending(x)' <=> Pending(x)
    BY <1>1, <1>2 DEF Pending
  <2>2. ASSUME Pending(x) PROVE writeSet'[globalLock'] = writeSet[globalLock]
    <3>1. PICK u \in Threads : Committing(u) /\ u # t
      BY <1>1, <2>2 DEF Pending
    <3> QED BY <1>2, <3>1 DEF Committing
  <2> QED BY <2>1, <2>2 DEF Committed
<1> QED BY <1>1, <1>2, <1>3, AbstractStutter DEF Served

(* The last validation is the instant of the abstract transfer.             *)
LEMMA CommitPoint ==
  ASSUME IInv, NEW t \in Threads, Engine(t), ScanDone(t), pc[t] = "precommit"
  PROVE  Bank!Transfer(t)
<1>1. /\ UNCHANGED <<value, globalLock, readSet, writeSet, done>>
      /\ pc' = [pc EXCEPT ![t] = "write"]
      /\ todo' = [todo EXCEPT ![t] = DOMAIN writeSet[t]]
  BY DEF ScanDone, Engine, GoOn
<1>2. /\ pc'[t] = "write" /\ todo'[t] = DOMAIN writeSet[t]
      /\ \A u \in Threads : u # t => pc'[u] = pc[u]
  BY <1>1 DEF IInv, TypeOK, StmTypeOK
<1>3. /\ globalLock = t /\ ~Committing(t) /\ Committing(t)'
      /\ \A u \in Threads : u # t => ~Committing(u) /\ ~Committing(u)'
  BY <1>1, <1>2 DEF IInv, LockInv, Holding, LockedScans, Committing
<1>4. /\ DOMAIN readSet[t] = TVars /\ DOMAIN writeSet[t] = TVars /\ MoveWritten(t)
      /\ writeSet[t][Ledger] = Seen(t, Ledger) + 1
      /\ HasJob(t)
  BY DEF IInv, BodyInv, BodyOK, Attempting, Scans, LockedScans
<1>5. \A x \in TVars : Seen(t, x) = value[x]
  BY <1>4 DEF IInv, ValidInv, Validated, ReadInv, Seen
<1>6. \A x \in TVars : Committed(x) = value[x] /\ Committed(x)' = writeSet[t][x]
  BY <1>1, <1>2, <1>3, <1>4 DEF Committed, Pending
<1> DEFINE from == TheJob(t).from
           to == TheJob(t).to
           n == TheJob(t).amount
<1>7. /\ {from, to} = Accounts /\ from # to /\ Accounts \subseteq TVars /\ Ledger \in TVars
  BY <1>4, CurrentJob, BankAssumption DEF IInv, Accounts
<1>8. /\ writeSet[t][from] = value[from] - n
      /\ writeSet[t][to] = value[to] + n
      /\ value[from] >= n
      /\ writeSet[t][Ledger] = value[Ledger] + 1
  BY <1>4, <1>5, <1>7 DEF MoveWritten, Payable
<1> HIDE DEF from, to, n
<1> DEFINE b == [x \in Accounts |-> Committed(x)]
           s == [u \in Threads |-> IF Committing(u) THEN done[u] + 1 ELSE done[u]]
<1>9. b[from] >= n /\ b' = [b EXCEPT ![from] = @ - n, ![to] = @ + n]
  <2>1. b = [x \in Accounts |-> value[x]] /\ b' = [x \in Accounts |-> writeSet[t][x]]
    BY <1>6, <1>7
  <2> QED BY <1>7, <1>8, <2>1
<1>10. Committed(Ledger)' = Committed(Ledger) + 1
  BY <1>6, <1>7, <1>8
<1>11. s[t] = done[t] /\ s' = [s EXCEPT ![t] = @ + 1]
  BY <1>1, <1>3
<1>12. Jobs[t][s[t] + 1] = TheJob(t) /\ s[t] < Len(Jobs[t])
  BY <1>4, <1>11 DEF TheJob, HasJob
<1> QED BY <1>9, <1>10, <1>11, <1>12 DEF Bank!Transfer, from, to, n

(* Publishing one TVar, and returning, are steps of the detail only.        *)
LEMMA PublishQuiet ==
  ASSUME IInv, NEW t \in Threads, Engine(t), CommitWrite(t)
  PROVE  UNCHANGED Bank!vars
<1>1. PICK x \in todo[t] : /\ Publish(x, writeSet[t][x])
                           /\ todo' = [todo EXCEPT ![t] = todo[t] \ {x}]
  BY DEF CommitWrite
<1>2. /\ UNCHANGED <<globalLock, pc, readSet, writeSet, done, commits, audit>>
      /\ pc[t] = "write"
  BY DEF CommitWrite, Engine
<1>3. /\ globalLock = t /\ Committing(t) /\ Committing(t)'
      /\ \A u \in Threads : u # t => ~Committing(u) /\ ~Committing(u)'
  BY <1>2 DEF IInv, LockInv, Holding, Committing
<1>4. /\ todo'[t] = todo[t] \ {x} /\ x \in TVars
      /\ \A y \in TVars : value'[y] = IF y = x THEN writeSet[t][x] ELSE value[y]
  BY <1>1 DEF Publish, IInv, TypeOK, StmTypeOK
<1>5. \A y \in TVars : Committed(y)' = Committed(y)
  BY <1>2, <1>3, <1>4 DEF Committed, Pending
<1> QED BY <1>2, <1>3, <1>5, AbstractStutter DEF Served

LEMMA FinishQuiet ==
  ASSUME IInv, NEW t \in Threads, Finish(t)
  PROVE  UNCHANGED Bank!vars
<1>1. /\ UNCHANGED value /\ pc[t] = "write" /\ todo[t] = {} /\ globalLock' = NoThread
      /\ done' = [done EXCEPT ![t] = done[t] + 1]
  BY DEF Finish, CommitDone
<1>2. /\ Committing(t) /\ globalLock = t
      /\ \A u \in Threads : u # t => ~Committing(u)
      /\ \A u \in Threads : ~Committing(u)'
  BY <1>1, NoThreadAssumption DEF IInv, LockInv, Holding, Committing
<1>3. \A u \in Threads : done'[u] = IF u = t THEN done[u] + 1 ELSE done[u]
  BY <1>1 DEF IInv, TypeOK
<1>4. \A x \in TVars : Committed(x)' = Committed(x)
  BY <1>1, <1>2 DEF Committed, Pending
<1> QED BY <1>2, <1>3, <1>4, AbstractStutter DEF Served

(* Every step is an abstract transfer or leaves the abstract bank alone.    *)
LEMMA StepRefines == ASSUME IInv, [Next]_vars PROVE [Bank!Next]_(Bank!vars)
<1>1. ASSUME NEW t \in Threads, Start(t) \/ ReadFrom(t) \/ ReadTo(t) \/ ReadLedger(t)
      PROVE  UNCHANGED Bank!vars
  <2>1. /\ pc[t] \in {"idle", "body"} /\ pc'[t] # "write"
        /\ UNCHANGED <<value, done, globalLock>>
        /\ \A u \in Threads : u # t => pc'[u] = pc[u] /\ todo'[u] = todo[u]
                                       /\ writeSet'[u] = writeSet[u]
    BY <1>1 DEF Start, Begin, ReadFrom, ReadTo, ReadLedger, EndBody, EndBodyWithRetry,
                IInv, TypeOK, StmTypeOK
  <2> QED BY <2>1, QuietStep
<1>2. ASSUME NEW t \in Threads, Engine(t), ScanNext(t) \/ ScanConflict(t) \/ AcquireGlobal(t)
      PROVE  UNCHANGED Bank!vars
  <2>1. /\ pc[t] \in Scans \cup {"lock"} /\ pc'[t] # "write"
        /\ UNCHANGED <<value, done, writeSet>>
        /\ \A u \in Threads : u # t => pc'[u] = pc[u] /\ todo'[u] = todo[u]
        /\ \/ UNCHANGED globalLock
           \/ globalLock \in {t, NoThread} /\ globalLock' \in {t, NoThread}
    BY <1>2 DEF Engine, ScanNext, ScanConflict, AcquireGlobal, LockFree, ReleaseIfHeldBy,
                IInv, TypeOK, StmTypeOK, Scans, LockedScans, UnlockedScan
  <2> QED BY <2>1, QuietStep DEF Scans, LockedScans, UnlockedScan
<1>3. ASSUME NEW t \in Threads, Engine(t), ScanDone(t) PROVE [Bank!Next]_(Bank!vars)
  <2>1. CASE pc[t] = "precommit"
    BY <1>3, <2>1, CommitPoint DEF Bank!Next
  <2>2. CASE pc[t] # "precommit"
    <3>1. /\ pc[t] # "write" /\ pc'[t] # "write"
          /\ UNCHANGED <<value, done, writeSet, globalLock>>
          /\ \A u \in Threads : u # t => pc'[u] = pc[u] /\ todo'[u] = todo[u]
      BY <1>3, <2>2 DEF Engine, ScanDone, GoOn, IInv, TypeOK, StmTypeOK
    <3> QED BY <3>1, QuietStep
  <2> QED BY <2>1, <2>2
<1>4. ASSUME NEW t \in Threads, ThreadStep(t) PROVE [Bank!Next]_(Bank!vars)
  <2>1. CASE Engine(t)
    BY <1>2, <1>3, <2>1, PublishQuiet, CommitRaiseImpossible DEF Engine, StmStep
  <2>2. CASE Finish(t)
    BY <2>2, FinishQuiet
  <2> QED BY <1>1, <1>4, <2>1, <2>2 DEF ThreadStep
<1>5. ASSUME UNCHANGED <<value, globalLock, pc, writeSet, todo, done>>
      PROVE  UNCHANGED Bank!vars
  <2>1. \A x \in TVars : Committed(x)' = Committed(x)
    BY <1>5 DEF Committed, Pending, Committing
  <2>2. \A u \in Threads : Served(u)' = Served(u)
    BY <1>5 DEF Served, Committing
  <2> QED BY <2>1, <2>2, AbstractStutter
<1>6. CASE \E x \in TVars : AuditRead(x)
  BY <1>5, <1>6 DEF AuditRead
<1>7. CASE Exit \/ UNCHANGED vars
  BY <1>5, <1>7 DEF Exit, vars
<1> QED BY <1>4, <1>6, <1>7 DEF Next

(* The fine-grained transactions implement a bank whose transfers take      *)
(* effect one at a time: the last validation under the lock (line 96) is    *)
(* the instant of the transfer.                                             *)
THEOREM Atomicity == Spec => Bank!Spec
<1>1. Init => Bank!Init
  <2> SUFFICES ASSUME Init PROVE Bank!Init
    OBVIOUS
  <2>1. \A t \in Threads : ~Committing(t)
    BY NoThreadAssumption DEF Init, StmInit, Committing
  <2>2. \A x : Committed(x) = value[x]
    BY <2>1 DEF Committed, Pending
  <2>3. /\ value[Ledger] = 0
        /\ [x \in Accounts |-> Committed(x)] = InitBalance
    BY <2>2, BankAssumption DEF Init, StmInit, Accounts
  <2>4. [t \in Threads |-> IF Committing(t) THEN done[t] + 1 ELSE done[t]]
          = [t \in Threads |-> 0]
    BY <2>1 DEF Init
  <2> QED BY <2>2, <2>3, <2>4 DEF Bank!Init
<1>2. IInv /\ [Next]_vars => [Bank!Next]_(Bank!vars)
  BY StepRefines
<1> QED BY <1>1, <1>2, Invariance, PTL DEF Spec, Bank!Spec
================================================================================
