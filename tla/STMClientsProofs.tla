---------------------------- MODULE STMClientsProofs ----------------------------
(****************************************************************************)
(* The proofs that no change of the transactions of STMClients is lost and  *)
(* that each takes one of its alternatives, for any number of takers,       *)
(* depositors and direct writes.  IInv is inductive if no program reads a   *)
(* TVar twice.  It says nothing of the global lock: what a commit publishes *)
(* is current because the loop of commit() looks again.                     *)
(****************************************************************************)
EXTENDS STMClients, TLAPS

LEMMA EmptyIsDict == ASSUME NEW V PROVE IsDict(EmptyDict, V) /\ DOMAIN EmptyDict = {}
BY DEF IsDict, EmptyDict

LEMMA PutIsDict ==
  ASSUME NEW V, NEW dict, IsDict(dict, V), NEW x \in TVars, NEW v \in V
  PROVE  /\ IsDict(Put(dict, x, v), V) /\ DOMAIN Put(dict, x, v) = DOMAIN dict \cup {x}
         /\ Put(dict, x, v)[x] = v
         /\ \A y \in DOMAIN dict : y # x => Put(dict, x, v)[y] = dict[y]
BY DEF Put, IsDict

LEMMA Accounts == AccX \in TVars /\ AccY \in TVars
BY ClientsAssumption

LEMMA EitherKind ==
  ASSUME NEW t \in Threads
  PROVE  (t \in Takers /\ t \notin Depositors) \/ (t \in Depositors /\ t \notin Takers)
BY ClientsAssumption

(* A program reads TVars.                                                   *)
LEMMA ProgramReads ==
  ASSUME NEW t \in Depositors
  PROVE  /\ Program[t] \in Seq(TVars) /\ Len(Program[t]) \in Nat
         /\ \A i \in 1..Len(Program[t]) : Program[t][i] \in TVars
<1>1. Program[t] \in Seq(TVars)
  BY ClientsAssumption
<1> QED BY <1>1

LEMMA WholeIsTVars == ASSUME NEW t \in Threads PROVE Whole(t) \subseteq TVars
<1>1. CASE t \in Takers
  BY <1>1, Accounts DEF Whole
<1>2. CASE t \notin Takers
  <2>1. t \in Depositors
    BY <1>2, EitherKind
  <2> QED BY <1>2, <2>1, ProgramReads DEF Whole, ReadUpTo
<1> QED BY <1>1, <1>2

(* What one more read adds, and that it is new.                             *)
LEMMA OneMore ==
  ASSUME ReadOnce, NEW t \in Depositors, NEW n \in Nat, n < Len(Program[t])
  PROVE  /\ Program[t][n + 1] \in TVars /\ Program[t][n + 1] \notin ReadUpTo(t, n)
         /\ ReadUpTo(t, n + 1) = ReadUpTo(t, n) \cup {Program[t][n + 1]}
<1>1. Len(Program[t]) \in Nat
  BY ProgramReads
<1>2. n + 1 \in 1..Len(Program[t]) /\ \A i \in 1..n : i \in 1..Len(Program[t]) /\ i # n + 1
  BY <1>1
<1>3. Program[t][n + 1] \in TVars
  BY <1>2, ProgramReads
<1>4. Program[t][n + 1] \notin ReadUpTo(t, n)
  BY <1>2 DEF ReadOnce, ReadUpTo
<1>5. 1..(n + 1) = (1..n) \cup {n + 1}
  OBVIOUS
<1>6. ReadUpTo(t, n + 1) = ReadUpTo(t, n) \cup {Program[t][n + 1]}
  BY <1>5 DEF ReadUpTo
<1> QED BY <1>3, <1>4, <1>6

LEMMA ChangeIsInt == ASSUME NEW t \in Threads PROVE Change(t) \in Int
BY ClientsAssumption DEF Change

--------------------------------------------------------------------------------
(* A step of t leaves what the others have alone.                           *)
Same(u) ==
  /\ pc'[u] = pc[u] /\ todo'[u] = todo[u]
  /\ readSet'[u] = readSet[u] /\ writeSet'[u] = writeSet[u]
  /\ published'[u] = published[u] /\ (u \in returned' <=> u \in returned)
  /\ u \in Takers => branch'[u] = branch[u]
  /\ u \in Depositors => reads'[u] = reads[u] /\ local'[u] = local[u]

LEMMA SameInv ==
  ASSUME NEW u \in Threads, Same(u), BodyOK(u), PublishOK(u)
  PROVE  BodyOK(u)' /\ PublishOK(u)'
<1>1. Whole(u)' = Whole(u)
  BY DEF Same, Whole
<1>2. BodyOK(u)'
  <2>1. CASE u \in Takers
    BY <1>1, <2>1, EitherKind DEF BodyOK, Same, Change
  <2>2. CASE u \in Depositors
    BY <1>1, <2>2, EitherKind DEF BodyOK, Same, Change, ReadUpTo
  <2> QED BY <2>1, <2>2, EitherKind
<1>3. PublishOK(u)'
  BY <1>1 DEF PublishOK, Same
<1> QED BY <1>2, <1>3

(* What has been published tells which alternative has been taken.          *)
LEMMA StepKeeps ==
  ASSUME IInv, NEW t \in Threads, \A u \in Threads : u # t => Same(u),
         TypeOK', NoLostChange', ReadInv', BodyOK(t)', PublishOK(t)'
  PROVE  IInv'
<1>1. BodyInv' /\ PublishInv'
  <2>1. \A u \in Threads : u # t => BodyOK(u)' /\ PublishOK(u)'
    BY SameInv DEF IInv, BodyInv, PublishInv
  <2> QED BY <2>1 DEF BodyInv, PublishInv
<1>2. \A u \in Threads : PublishOK(u)'
  BY <1>1 DEF PublishInv
<1>3. OneAlternativeEach'
  <2>1. \A u \in Threads : u \in returned' => published'[u] = Whole(u)'
    BY <1>2 DEF PublishOK
  <2>2. \A u \in Threads : published'[u] \notin {{}, Whole(u)'} => pc'[u] \in {"write", "raised"}
    BY <1>2 DEF PublishOK
  <2>3. Takers \subseteq Threads /\ Depositors \subseteq Threads
    BY ClientsAssumption
  <2> QED BY <2>1, <2>2, <2>3 DEF OneAlternativeEach
<1> QED BY <1>1, <1>3 DEF IInv

LEMMA PublishTells == ASSUME PublishInv PROVE OneAlternativeEach
<1>1. Takers \subseteq Threads /\ Depositors \subseteq Threads
  BY ClientsAssumption
<1> QED BY <1>1 DEF PublishInv, PublishOK, OneAlternativeEach

--------------------------------------------------------------------------------
(* What a read of x leaves in the read set of t.                            *)
ReadLeft(t, x) ==
  /\ DOMAIN readSet' = Threads
  /\ \A u \in Threads : u # t => readSet'[u] = readSet[u]
  /\ \A u \in Threads : IsDict(readSet'[u], Entry)
  /\ DOMAIN readSet'[t] = DOMAIN readSet[t] \cup {x}
  /\ readSet'[t][x].val = value[x] /\ readSet'[t][x].ver = version[x]
  /\ \A y \in DOMAIN readSet[t] : y # x => readSet'[t][y] = readSet[t][y]

LEMMA ReadSetGrows ==
  ASSUME StmTypeOK, NEW t \in Threads, NEW x \in TVars, DOMAIN writeSet[t] = {},
         readSet' = [readSet EXCEPT ![t] = ReadSetAfter(t, x)]
  PROVE  ReadLeft(t, x)
<1> DEFINE entry == [val |-> value[x], ver |-> version[x]]
<1>1. entry \in Entry /\ entry.val = value[x] /\ entry.ver = version[x]
  BY DEF StmTypeOK, Entry
<1> HIDE DEF entry
<1>2. DOMAIN readSet = Threads /\ \A u \in Threads : IsDict(readSet[u], Entry)
  BY DEF StmTypeOK
<1>3. readSet' = [readSet EXCEPT ![t] = Put(readSet[t], x, entry)]
  BY DEF ReadSetAfter, entry
<1>4. /\ IsDict(Put(readSet[t], x, entry), Entry)
      /\ DOMAIN Put(readSet[t], x, entry) = DOMAIN readSet[t] \cup {x}
      /\ Put(readSet[t], x, entry)[x] = entry
      /\ \A y \in DOMAIN readSet[t] : y # x => Put(readSet[t], x, entry)[y] = readSet[t][y]
  BY <1>1, <1>2, PutIsDict
<1>5. /\ DOMAIN readSet' = Threads
      /\ readSet'[t] = Put(readSet[t], x, entry)
      /\ \A u \in Threads : u # t => readSet'[u] = readSet[u]
  BY <1>2, <1>3
<1> QED BY <1>1, <1>2, <1>4, <1>5 DEF ReadLeft

LEMMA ReadKeepsReadInv ==
  ASSUME StmTypeOK, ReadInv, NEW t \in Threads, NEW x \in TVars, ReadLeft(t, x),
         UNCHANGED <<value, version>>
  PROVE  ReadInv'
<1> SUFFICES ASSUME NEW u \in Threads, NEW y \in DOMAIN readSet'[u]
             PROVE  /\ readSet'[u][y].ver <= version[y]
                    /\ version[y] = readSet'[u][y].ver => readSet'[u][y].val = value[y]
  BY DEF ReadInv, EntryCurrent
<1>1. CASE u = t /\ y = x
  BY <1>1 DEF StmTypeOK, ReadLeft
<1>2. CASE ~(u = t /\ y = x)
  <2>1. y \in DOMAIN readSet[u] /\ readSet'[u][y] = readSet[u][y]
    BY <1>2 DEF ReadLeft
  <2> QED BY <2>1 DEF ReadInv, EntryCurrent
<1> QED BY <1>1, <1>2

(* No read set grows and no TVar changes.                                   *)
LEMMA QuietReadInv ==
  ASSUME ReadInv, UNCHANGED <<value, version, readSet>> PROVE ReadInv'
BY DEF ReadInv, EntryCurrent

--------------------------------------------------------------------------------
LEMMA InitInv == Init => IInv
<1> SUFFICES ASSUME Init PROVE IInv
  OBVIOUS
<1>1. value \in [TVars -> Int]
  BY ClientsAssumption DEF Init, StmInit
<1>2. StmTypeOK
  BY <1>1, EmptyIsDict DEF Init, StmInit, StmTypeOK, PCs
<1>3. TypeOK
  <2>1. \A t \in Depositors : reads[t] = 0 /\ local[t] = EmptyDict
    BY DEF Init
  <2>2. \A t \in Depositors : reads[t] <= Len(Program[t]) /\ IsDict(local[t], Int)
    BY <2>1, ProgramReads, EmptyIsDict
  <2>3. /\ branch \in [Takers -> {"first", "second"}]
        /\ reads \in [Depositors -> Nat] /\ DOMAIN local = Depositors
        /\ returned \subseteq Threads /\ direct \in 0..MaxDirect
        /\ published \in [Threads -> SUBSET TVars]
    BY ClientsAssumption DEF Init
  <2>4. expected \in [TVars -> Int]
    BY <1>1 DEF Init
  <2> QED BY <1>2, <2>2, <2>3, <2>4 DEF TypeOK
<1>4. NoLostChange
  BY DEF Init, NoLostChange
<1>5. ReadInv
  BY EmptyIsDict DEF Init, StmInit, ReadInv
<1>6. BodyInv /\ PublishInv
  BY DEF Init, StmInit, BodyInv, BodyOK, PublishInv, PublishOK, Scans, LockedScans, UnlockedScan
<1> QED BY <1>3, <1>4, <1>5, <1>6, PublishTells DEF IInv

--------------------------------------------------------------------------------
(* A new round of atomically() begins.                                      *)
LEMMA StartStep == ASSUME IInv, NEW t \in Threads, Start(t) PROVE IInv'
<1> USE DEF Start, Begin
<1>1. StmTypeOK'
  BY EmptyIsDict DEF IInv, TypeOK, StmTypeOK, PCs
<1>2. TypeOK'
  <2>1. branch' \in [Takers -> {"first", "second"}]
    BY DEF IInv, TypeOK
  <2>2. /\ reads' \in [Depositors -> Nat] /\ DOMAIN local' = Depositors
        /\ \A u \in Depositors : reads'[u] <= Len(Program[u]) /\ IsDict(local'[u], Int)
    BY EmptyIsDict, ProgramReads DEF IInv, TypeOK
  <2> QED BY <1>1, <2>1, <2>2 DEF IInv, TypeOK
<1>3. \A u \in Threads : u # t => Same(u)
  BY DEF IInv, TypeOK, StmTypeOK, Same
<1>4. NoLostChange'
  BY DEF IInv, NoLostChange
<1>5. ReadInv'
  BY EmptyIsDict DEF IInv, TypeOK, StmTypeOK, ReadInv, EntryCurrent
<1>6. /\ DOMAIN writeSet'[t] = {} /\ DOMAIN readSet'[t] = {} /\ pc'[t] = "body"
      /\ t \in Depositors => reads'[t] = 0 /\ DOMAIN local'[t] = {}
  BY EmptyIsDict DEF IInv, TypeOK, StmTypeOK
<1>7. BodyOK(t)'
  <2>1. t \in Depositors => ReadUpTo(t, 0) = {} /\ ReadUpTo(t, reads[t])' = ReadUpTo(t, 0)
    BY <1>6 DEF ReadUpTo
  <2>2. DOMAIN readSet'[t] = IF t \in Takers THEN {} ELSE ReadUpTo(t, reads[t])'
    BY <1>6, <2>1, EitherKind
  <2> QED BY <1>6, <2>2 DEF BodyOK, Scans, LockedScans, UnlockedScan
<1>8. PublishOK(t)'
  BY <1>6 DEF IInv, PublishInv, PublishOK
<1> QED BY <1>2, <1>3, <1>4, <1>5, <1>7, <1>8, StepKeeps

--------------------------------------------------------------------------------
(* A taker's body: it has read and written nothing before.                  *)
LEMMA TakerIsFresh ==
  ASSUME IInv, NEW t \in Threads, t \in Takers, BodyStep(t)
  PROVE  /\ DOMAIN writeSet[t] = {} /\ DOMAIN readSet[t] = {} /\ t \notin returned
         /\ pc[t] = "body" /\ published[t] = {}
<1>1. BodyOK(t) /\ PublishOK(t)
  BY DEF IInv, BodyInv, PublishInv
<1> QED BY <1>1 DEF BodyStep, BodyOK, PublishOK

(* It pays with x, the account of the alternative it is in.                 *)
LEMMA TakeStep ==
  ASSUME IInv, NEW t \in Threads, t \in Takers, BodyStep(t),
         NEW x \in TVars, Whole(t) = {x}, Take(t, x)
  PROVE  IInv'
<1>1. /\ DOMAIN writeSet[t] = {} /\ DOMAIN readSet[t] = {} /\ t \notin returned
      /\ pc[t] = "body" /\ published[t] = {}
  BY TakerIsFresh
<1>2. StmTypeOK
  BY DEF IInv, TypeOK
<1>3. ReadLeft(t, x)
  BY <1>1, <1>2, ReadSetGrows DEF Take
<1>4. value[x] \in Int /\ Need \in Nat /\ value[x] - Need \in Int
  BY <1>2, ClientsAssumption DEF StmTypeOK
<1>5. ReadValue(t, x) = value[x]
  BY <1>1 DEF ReadValue
<1>6. /\ IsDict(Put(writeSet[t], x, value[x] - Need), Int)
      /\ DOMAIN Put(writeSet[t], x, value[x] - Need) = {x}
      /\ Put(writeSet[t], x, value[x] - Need)[x] = value[x] - Need
  <2>1. IsDict(writeSet[t], Int) /\ {} \cup {x} = {x}
    BY <1>2 DEF StmTypeOK
  <2>2. PICK v \in Int : v = value[x] - Need
    BY <1>4
  <2>3. /\ IsDict(Put(writeSet[t], x, v), Int)
        /\ DOMAIN Put(writeSet[t], x, v) = {x} /\ Put(writeSet[t], x, v)[x] = v
    BY <1>1, <2>1, PutIsDict
  <2> QED BY <2>2, <2>3
<1>7. writeSet' = [writeSet EXCEPT ![t] = Put(writeSet[t], x, value[x] - Need)]
  BY <1>5 DEF Take
<1>8. /\ DOMAIN writeSet' = Threads /\ \A u \in Threads : IsDict(writeSet'[u], Int)
      /\ DOMAIN writeSet'[t] = {x} /\ writeSet'[t][x] = value[x] - Need
      /\ \A u \in Threads : u # t => writeSet'[u] = writeSet[u]
  BY <1>2, <1>6, <1>7 DEF StmTypeOK
<1>9. /\ pc' = [pc EXCEPT ![t] = "validate"] /\ todo' = [todo EXCEPT ![t] = DOMAIN readSet'[t]]
      /\ UNCHANGED <<value, version, globalLock, returned, direct, expected, published,
                     branch, reads, local>>
  BY DEF Take, EndBody, BodyStep
<1>10. DOMAIN readSet'[t] = {x} /\ readSet'[t][x].val = value[x]
  BY <1>1, <1>3 DEF ReadLeft
<1>11. TypeOK'
  <2>1. pc' \in [Threads -> PCs] /\ todo' \in [Threads -> SUBSET TVars]
    BY <1>2, <1>9, <1>10 DEF StmTypeOK, PCs, Scans, UnlockedScan
  <2>2. StmTypeOK'
    BY <1>2, <1>3, <1>8, <1>9, <2>1 DEF StmTypeOK, ReadLeft
  <2> QED BY <1>9, <2>2 DEF IInv, TypeOK
<1>12. \A u \in Threads : u # t => Same(u)
  BY <1>2, <1>3, <1>8, <1>9 DEF Same, StmTypeOK, ReadLeft
<1>13. NoLostChange' /\ ReadInv'
  BY <1>2, <1>3, <1>9, ReadKeepsReadInv DEF IInv, NoLostChange
<1>14. pc'[t] = "validate" /\ Whole(t)' = {x}
  BY <1>2, <1>9 DEF StmTypeOK, Whole
<1>15. BodyOK(t)'
  <2>1. Change(t) = -Need
    BY DEF Change
  <2>2. writeSet'[t][x] = readSet'[t][x].val + Change(t)
    BY <1>4, <1>8, <1>10, <2>1
  <2> QED BY <1>8, <1>10, <1>14, <2>2 DEF BodyOK, Change
<1>16. PublishOK(t)'
  BY <1>1, <1>9, <1>14 DEF PublishOK
<1> QED BY <1>11, <1>12, <1>13, <1>15, <1>16, StepKeeps

LEMMA TryXFlagsStep ==
  ASSUME IInv, NEW t \in Threads, t \in Takers, TryXFlags(t) PROVE IInv'
<1>1. /\ DOMAIN writeSet[t] = {} /\ DOMAIN readSet[t] = {} /\ t \notin returned
      /\ pc[t] = "body" /\ published[t] = {}
  BY TakerIsFresh DEF TryXFlags
<1>2. StmTypeOK
  BY DEF IInv, TypeOK
<1>3. ReadLeft(t, AccX)
  BY <1>1, <1>2, Accounts, ReadSetGrows DEF TryXFlags
<1>4. /\ pc' = [pc EXCEPT ![t] = "idle"] /\ todo' = [todo EXCEPT ![t] = {}]
      /\ UNCHANGED <<value, version, globalLock, returned, direct, expected, published,
                     writeSet, branch, reads, local>>
  BY DEF TryXFlags, EndBodyWithRetry, BodyStep
<1>5. TypeOK'
  BY <1>2, <1>3, <1>4 DEF IInv, TypeOK, StmTypeOK, ReadLeft, PCs
<1>6. \A u \in Threads : u # t => Same(u)
  BY <1>2, <1>3, <1>4 DEF Same, StmTypeOK, ReadLeft
<1>7. NoLostChange' /\ ReadInv'
  BY <1>2, <1>3, <1>4, Accounts, ReadKeepsReadInv DEF IInv, NoLostChange
<1>8. pc'[t] = "idle"
  BY <1>2, <1>4 DEF StmTypeOK
<1>9. BodyOK(t)' /\ PublishOK(t)'
  BY <1>1, <1>4, <1>8 DEF BodyOK, PublishOK, Scans, LockedScans, UnlockedScan
<1> QED BY <1>5, <1>6, <1>7, <1>9, StepKeeps

(* The second alternative starts with empty sets, and nothing is published. *)
LEMMA TryXRaisesStep ==
  ASSUME IInv, NEW t \in Threads, t \in Takers, TryXRaises(t) PROVE IInv'
<1>1. /\ DOMAIN writeSet[t] = {} /\ DOMAIN readSet[t] = {} /\ t \notin returned
      /\ pc[t] = "body" /\ published[t] = {}
  BY TakerIsFresh DEF TryXRaises
<1>2. /\ branch' = [branch EXCEPT ![t] = "second"]
      /\ UNCHANGED <<value, version, globalLock, returned, direct, expected, published,
                     pc, readSet, writeSet, todo, reads, local>>
  BY DEF TryXRaises, BodyStep
<1>3. TypeOK'
  BY <1>2 DEF IInv, TypeOK, StmTypeOK
<1>4. \A u \in Threads : u # t => Same(u)
  BY <1>2 DEF Same, IInv, TypeOK
<1>5. NoLostChange' /\ ReadInv'
  BY <1>2, QuietReadInv DEF IInv, NoLostChange
<1>6. BodyOK(t)' /\ PublishOK(t)'
  BY <1>1, <1>2, EitherKind DEF BodyOK, PublishOK, Scans, LockedScans, UnlockedScan
<1> QED BY <1>3, <1>4, <1>5, <1>6, StepKeeps

LEMMA TakerStep ==
  ASSUME IInv, NEW t \in Threads, t \in Takers, TakerBody(t) PROVE IInv'
<1>1. CASE TryX(t)
  BY <1>1, TakeStep, Accounts DEF TryX, Whole
<1>2. CASE TryXFlags(t)
  BY <1>2, TryXFlagsStep
<1>3. CASE TryXRaises(t)
  BY <1>3, TryXRaisesStep
<1>4. CASE TryY(t)
  BY <1>4, TakeStep, Accounts DEF TryY, Whole
<1> QED BY <1>1, <1>2, <1>3, <1>4 DEF TakerBody

--------------------------------------------------------------------------------
(* A depositor's body reads the next TVar of its program, a new one.        *)
LEMMA ReadNextStep ==
  ASSUME IInv, ReadOnce, NEW t \in Threads, t \in Depositors, ReadNext(t) PROVE IInv'
<1> DEFINE n == reads[t]
<1>1. BodyOK(t) /\ PublishOK(t) /\ StmTypeOK /\ t \notin Takers
  BY EitherKind DEF IInv, BodyInv, PublishInv, TypeOK
<1>2. /\ pc[t] = "body" /\ n < Len(Program[t]) /\ n \in Nat
      /\ UNCHANGED <<value, version, globalLock, returned, direct, expected, published,
                     pc, writeSet, todo, branch>>
  BY DEF ReadNext, BodyStep, IInv, TypeOK
<1>3. /\ DOMAIN writeSet[t] = {} /\ DOMAIN readSet[t] = ReadUpTo(t, n)
      /\ DOMAIN local[t] = DOMAIN readSet[t]
      /\ \A y \in DOMAIN local[t] : local[t][y] = readSet[t][y].val
  BY <1>1, <1>2 DEF BodyOK
<1>4. PICK x \in TVars : x = Program[t][n + 1]
  BY <1>2, OneMore
<1>5. x \notin ReadUpTo(t, n) /\ ReadUpTo(t, n + 1) = ReadUpTo(t, n) \cup {x}
  BY <1>2, <1>4, OneMore
<1>6. /\ readSet' = [readSet EXCEPT ![t] = ReadSetAfter(t, x)]
      /\ local' = [local EXCEPT ![t] = Put(local[t], x, ReadValue(t, x))]
      /\ reads' = [reads EXCEPT ![t] = n + 1]
  BY <1>3, <1>4, <1>5 DEF ReadNext
<1> HIDE DEF n
<1>7. ReadLeft(t, x)
  BY <1>1, <1>3, <1>6, ReadSetGrows
<1>8. PICK v \in Int : v = value[x] /\ ReadValue(t, x) = v
  BY <1>1, <1>3 DEF StmTypeOK, ReadValue
<1>9. /\ IsDict(Put(local[t], x, v), Int)
      /\ DOMAIN Put(local[t], x, v) = DOMAIN local[t] \cup {x} /\ Put(local[t], x, v)[x] = v
      /\ \A y \in DOMAIN local[t] : y # x => Put(local[t], x, v)[y] = local[t][y]
  <2>1. PICK d : d = local[t]
    OBVIOUS
  <2>2. IsDict(d, Int)
    BY <2>1 DEF IInv, TypeOK
  <2>3. /\ IsDict(Put(d, x, v), Int)
        /\ DOMAIN Put(d, x, v) = DOMAIN d \cup {x} /\ Put(d, x, v)[x] = v
        /\ \A y \in DOMAIN d : y # x => Put(d, x, v)[y] = d[y]
    BY <2>2 DEF Put, IsDict
  <2> QED BY <2>1, <2>3
<1>10. /\ DOMAIN local' = Depositors /\ local'[t] = Put(local[t], x, v)
       /\ \A u \in Depositors : u # t => local'[u] = local[u]
  BY <1>6, <1>8 DEF IInv, TypeOK
<1>11. /\ reads' \in [Depositors -> Nat] /\ reads'[t] = n + 1
       /\ \A u \in Depositors : u # t => reads'[u] = reads[u]
  BY <1>2, <1>6 DEF IInv, TypeOK
<1>12. TypeOK'
  <2>1. StmTypeOK'
    BY <1>1, <1>2, <1>7 DEF StmTypeOK, ReadLeft
  <2>2. \A u \in Depositors : IsDict(local'[u], Int)
    BY <1>9, <1>10 DEF IInv, TypeOK
  <2>3. n + 1 <= Len(Program[t])
    BY <1>2, ProgramReads
  <2>4. \A u \in Depositors : reads'[u] <= Len(Program[u])
    BY <1>11, <2>3 DEF IInv, TypeOK
  <2> QED BY <1>2, <1>10, <1>11, <2>1, <2>2, <2>4 DEF IInv, TypeOK
<1>13. \A u \in Threads : u # t => Same(u)
  BY <1>2, <1>7, <1>10, <1>11 DEF Same, ReadLeft
<1>14. NoLostChange' /\ ReadInv'
  BY <1>1, <1>2, <1>7, ReadKeepsReadInv DEF IInv, NoLostChange
<1>15. BodyOK(t)'
  <2>1. DOMAIN readSet'[t] = ReadUpTo(t, reads[t])' /\ DOMAIN local'[t] = DOMAIN readSet'[t]
    BY <1>3, <1>5, <1>7, <1>9, <1>10, <1>11 DEF ReadLeft, ReadUpTo
  <2>2. \A y \in DOMAIN local'[t] : local'[t][y] = readSet'[t][y].val
    <3> SUFFICES ASSUME NEW y \in DOMAIN local'[t] PROVE local'[t][y] = readSet'[t][y].val
      OBVIOUS
    <3>1. CASE y = x
      BY <1>7, <1>8, <1>9, <1>10, <3>1 DEF ReadLeft
    <3>2. CASE y # x
      BY <1>3, <1>7, <1>9, <1>10, <3>2 DEF ReadLeft
    <3> QED BY <3>1, <3>2
  <2> QED BY <1>1, <1>2, <1>3, <2>1, <2>2 DEF BodyOK, Scans, LockedScans, UnlockedScan
<1>16. PublishOK(t)'
  BY <1>1, <1>2 DEF PublishOK
<1> QED BY <1>12, <1>13, <1>14, <1>15, <1>16, StepKeeps

(* It writes the whole program back.                                        *)
LEMMA WriteAllStep ==
  ASSUME IInv, NEW t \in Threads, t \in Depositors, WriteAll(t) PROVE IInv'
<1>1. BodyOK(t) /\ PublishOK(t) /\ StmTypeOK /\ t \notin Takers
  BY EitherKind DEF IInv, BodyInv, PublishInv, TypeOK
<1>2. /\ pc[t] = "body" /\ reads[t] = Len(Program[t])
      /\ pc' = [pc EXCEPT ![t] = "validate"] /\ todo' = [todo EXCEPT ![t] = DOMAIN readSet'[t]]
      /\ UNCHANGED <<value, version, globalLock, returned, direct, expected, published,
                     readSet, branch, reads, local>>
  BY DEF WriteAll, BodyStep, EndBody
<1>3. /\ DOMAIN readSet[t] = Whole(t) /\ DOMAIN local[t] = Whole(t)
      /\ \A y \in DOMAIN local[t] : local[t][y] = readSet[t][y].val
  BY <1>1, <1>2 DEF BodyOK, Whole
<1>4. PICK w : w = [y \in DOMAIN local[t] |-> local[t][y] + Need]
  OBVIOUS
<1>5. \A y \in Whole(t) : local[t][y] \in Int /\ Need \in Int
  BY <1>3, ClientsAssumption DEF IInv, TypeOK, IsDict
<1>6. DOMAIN w = Whole(t) /\ \A y \in Whole(t) : w[y] = readSet[t][y].val + Need /\ w[y] \in Int
  BY <1>3, <1>4, <1>5
<1>7. /\ DOMAIN writeSet' = Threads /\ writeSet'[t] = w
      /\ \A u \in Threads : u # t => writeSet'[u] = writeSet[u]
  BY <1>1, <1>4 DEF WriteAll, StmTypeOK
<1>8. TypeOK'
  <2>1. IsDict(w, Int)
    BY <1>6, WholeIsTVars DEF IsDict
  <2>2. todo' \in [Threads -> SUBSET TVars] /\ pc' \in [Threads -> PCs]
    BY <1>1, <1>2, <1>3, WholeIsTVars DEF StmTypeOK, PCs, Scans, UnlockedScan
  <2>3. StmTypeOK'
    BY <1>1, <1>2, <1>7, <2>1, <2>2 DEF StmTypeOK
  <2> QED BY <1>2, <2>3 DEF IInv, TypeOK
<1>9. \A u \in Threads : u # t => Same(u)
  BY <1>1, <1>2, <1>7 DEF Same, StmTypeOK
<1>10. NoLostChange' /\ ReadInv'
  BY <1>2, QuietReadInv DEF IInv, NoLostChange
<1>11. pc'[t] = "validate" /\ Whole(t)' = Whole(t) /\ Change(t) = Need
  BY <1>1, <1>2 DEF StmTypeOK, Whole, Change
<1>12. BodyOK(t)'
  BY <1>2, <1>3, <1>6, <1>7, <1>11 DEF BodyOK, Change
<1>13. PublishOK(t)'
  BY <1>1, <1>2, <1>11 DEF PublishOK
<1> QED BY <1>8, <1>9, <1>10, <1>12, <1>13, StepKeeps

--------------------------------------------------------------------------------
(* A step of the engine that publishes nothing leaves the histories alone.  *)
LEMMA QuietHistory ==
  ASSUME IInv, NEW t \in Threads, Engine(t), ~(pc[t] = "write" /\ pc'[t] = "write")
  PROVE  UNCHANGED <<expected, published, branch, reads, local, returned, direct>>
<1>1. /\ expected' = [x \in TVars |-> expected[x]]
      /\ published' = [published EXCEPT ![t] = published[t] \cup {}]
  BY DEF Engine
<1>2. expected \in [TVars -> Int] /\ published \in [Threads -> SUBSET TVars]
  BY DEF IInv, TypeOK
<1>3. expected' = expected /\ published' = published
  BY <1>1, <1>2
<1> QED BY <1>3 DEF Engine, client

(* The parts of IInv that a step keeps that changes pc[t] and todo[t] alone *)
(* (and the lock), and moves t from body to commit or out.                  *)
LEMMA EngineKeeps ==
  ASSUME IInv, NEW t \in Threads, Engine(t), NEW p \in PCs, NEW keys \in SUBSET TVars,
         pc[t] # "body", p # "body",
         ~(pc[t] = "write" /\ p = "write"),
         pc' = [pc EXCEPT ![t] = p], todo' = [todo EXCEPT ![t] = keys],
         globalLock' \in Threads \cup {NoThread},
         UNCHANGED <<value, version, readSet, writeSet>>,
         BodyOK(t)', PublishOK(t)'
  PROVE  IInv'
<1>1. StmTypeOK
  BY DEF IInv, TypeOK
<1>2. pc'[t] = p
  BY <1>1 DEF StmTypeOK
<1>3. UNCHANGED <<expected, published, branch, reads, local, returned, direct>>
  BY <1>2, QuietHistory
<1>4. TypeOK'
  BY <1>1, <1>3 DEF IInv, TypeOK, StmTypeOK
<1>5. \A u \in Threads : u # t => Same(u)
  BY <1>1, <1>3 DEF Same, StmTypeOK
<1>6. NoLostChange' /\ ReadInv'
  BY <1>3, QuietReadInv DEF IInv, NoLostChange
<1> QED BY <1>4, <1>5, <1>6, StepKeeps

(* A transaction on its way through the scans has not returned, and nothing *)
(* of it is published.                                                      *)
LEMMA OnItsWay ==
  ASSUME IInv, NEW t \in Threads, pc[t] \in Scans \cup {"lock"}
  PROVE  /\ t \notin returned /\ published[t] = {} /\ BodyOK(t) /\ PublishOK(t)
         /\ DOMAIN writeSet[t] = Whole(t) /\ DOMAIN readSet[t] = Whole(t)
         /\ \A x \in Whole(t) : writeSet[t][x] = readSet[t][x].val + Change(t)
<1>1. BodyOK(t) /\ PublishOK(t)
  BY DEF IInv, BodyInv, PublishInv
<1>2. pc[t] \notin {"idle", "write", "raised"}
  BY DEF Scans, LockedScans, UnlockedScan
<1>3. t \notin returned /\ published[t] = {}
  BY <1>1, <1>2 DEF PublishOK
<1> QED BY <1>1, <1>3 DEF BodyOK

LEMMA ScanNextStep ==
  ASSUME IInv, NEW t \in Threads, Engine(t), ScanNext(t) PROVE IInv'
<1>1. PICK x \in todo[t] : todo' = [todo EXCEPT ![t] = todo[t] \ {x}]
  BY DEF ScanNext
<1>2. /\ pc[t] \in Scans /\ UNCHANGED <<value, version, globalLock, pc, readSet, writeSet>>
      /\ pc[t] # "write" /\ pc[t] # "body"
  BY DEF ScanNext, Scans, LockedScans, UnlockedScan
<1>3. UNCHANGED <<expected, published, branch, reads, local, returned, direct>>
  BY <1>2, QuietHistory
<1>4. StmTypeOK
  BY DEF IInv, TypeOK
<1>5. TypeOK'
  BY <1>1, <1>2, <1>3, <1>4 DEF IInv, TypeOK, StmTypeOK
<1>6. \A u \in Threads : u # t => Same(u)
  BY <1>1, <1>2, <1>3, <1>4 DEF Same, StmTypeOK
<1>7. NoLostChange' /\ ReadInv'
  BY <1>2, <1>3, QuietReadInv DEF IInv, NoLostChange
<1>8. Whole(t)' = Whole(t)
  BY <1>3 DEF Whole
<1>9. BodyOK(t)'
  BY <1>2, <1>3, <1>8, OnItsWay DEF BodyOK, Change
<1>10. PublishOK(t)'
  BY <1>2, <1>3, <1>8, OnItsWay DEF PublishOK
<1> QED BY <1>5, <1>6, <1>7, <1>9, <1>10, StepKeeps

(* Out of a scan, for the next round or with a RuntimeError.                *)
LEMMA ScanConflictStep ==
  ASSUME IInv, NEW t \in Threads, Engine(t), ScanConflict(t) PROVE IInv'
<1>1. PICK p \in {"raised", "idle"} : pc' = [pc EXCEPT ![t] = p]
  BY DEF ScanConflict
<1>2. /\ pc[t] \in Scans /\ pc[t] # "write" /\ pc[t] # "body" /\ p \in PCs /\ p # "body"
      /\ UNCHANGED <<value, version, readSet, writeSet>> /\ todo' = [todo EXCEPT ![t] = {}]
      /\ globalLock' \in Threads \cup {NoThread}
  BY DEF ScanConflict, Scans, LockedScans, UnlockedScan, PCs, ReleaseIfHeldBy, IInv, TypeOK,
         StmTypeOK
<1>3. pc'[t] = p
  BY <1>1 DEF IInv, TypeOK, StmTypeOK
<1>4. UNCHANGED <<expected, published, branch, reads, local, returned, direct>>
  BY <1>2, QuietHistory
<1>5. BodyOK(t)' /\ {} \in SUBSET TVars
  BY <1>3 DEF BodyOK, Scans, LockedScans, UnlockedScan
<1>6. PublishOK(t)'
  BY <1>2, <1>3, <1>4, OnItsWay DEF PublishOK
<1> QED BY <1>1, <1>2, <1>5, <1>6, EngineKeeps

(* On to the lock, to commit(), and to the loop, with all to publish.       *)
LEMMA ScanDoneStep ==
  ASSUME IInv, NEW t \in Threads, Engine(t), ScanDone(t) PROVE IInv'
<1>1. PICK p \in {"lock", "precommit", "write"}, keys \in {{}, Whole(t)} :
        /\ pc' = [pc EXCEPT ![t] = p] /\ todo' = [todo EXCEPT ![t] = keys]
        /\ pc[t] \in Scans
        /\ p = "write" => keys = Whole(t)
  <2>1. pc[t] \in Scans
    BY DEF ScanDone, GoOn, Scans, LockedScans, UnlockedScan
  <2>2. DOMAIN writeSet[t] = Whole(t) /\ DOMAIN readSet[t] = Whole(t)
    BY <2>1, OnItsWay
  <2>3. \/ GoOn(t, "validate", "lock", {})
        \/ GoOn(t, "revalidate", "precommit", Whole(t))
        \/ GoOn(t, "precommit", "write", Whole(t))
    BY <2>2 DEF ScanDone
  <2> QED BY <2>1, <2>3 DEF GoOn
<1>2. /\ pc[t] # "write" /\ pc[t] # "body" /\ p \in PCs /\ p # "body" /\ keys \in SUBSET TVars
      /\ UNCHANGED <<value, version, globalLock, readSet, writeSet>>
      /\ globalLock' \in Threads \cup {NoThread}
  BY <1>1, WholeIsTVars
     DEF ScanDone, Scans, LockedScans, UnlockedScan, PCs, IInv, TypeOK, StmTypeOK
<1>3. pc'[t] = p /\ todo'[t] = keys
  BY <1>1 DEF IInv, TypeOK, StmTypeOK
<1>4. UNCHANGED <<expected, published, branch, reads, local, returned, direct>>
  BY <1>2, QuietHistory
<1>5. Whole(t)' = Whole(t)
  BY <1>4 DEF Whole
<1>6. BodyOK(t)'
  BY <1>1, <1>2, <1>3, <1>4, <1>5, OnItsWay DEF BodyOK, Change
<1>7. PublishOK(t)'
  BY <1>1, <1>3, <1>4, <1>5, OnItsWay DEF PublishOK
<1> QED BY <1>1, <1>2, <1>6, <1>7, EngineKeeps

LEMMA AcquireStep ==
  ASSUME IInv, NEW t \in Threads, Engine(t), AcquireGlobal(t) PROVE IInv'
<1>1. /\ pc[t] = "lock" /\ globalLock' = t /\ pc' = [pc EXCEPT ![t] = "revalidate"]
      /\ todo' = [todo EXCEPT ![t] = Whole(t)]
      /\ UNCHANGED <<value, version, readSet, writeSet>>
  BY OnItsWay DEF AcquireGlobal
<1>2. pc'[t] = "revalidate" /\ "revalidate" \in PCs /\ Whole(t) \in SUBSET TVars
  BY <1>1, WholeIsTVars DEF IInv, TypeOK, StmTypeOK, PCs, Scans, LockedScans
<1>3. UNCHANGED <<expected, published, branch, reads, local, returned, direct>>
  BY <1>1, QuietHistory
<1>4. Whole(t)' = Whole(t)
  BY <1>3 DEF Whole
<1>5. BodyOK(t)'
  BY <1>1, <1>2, <1>3, <1>4, OnItsWay DEF BodyOK, Change
<1>6. PublishOK(t)'
  BY <1>1, <1>2, <1>3, <1>4, OnItsWay DEF PublishOK
<1> QED BY <1>1, <1>2, <1>5, <1>6, EngineKeeps

(* Out of the commit loop with a RuntimeError, a part published.            *)
LEMMA CommitRaiseStep ==
  ASSUME IInv, NEW t \in Threads, Engine(t), CommitRaise(t) PROVE IInv'
<1>1. /\ pc[t] = "write" /\ pc' = [pc EXCEPT ![t] = "raised"]
      /\ todo' = [todo EXCEPT ![t] = {}]
      /\ UNCHANGED <<value, version, readSet, writeSet>>
      /\ globalLock' \in Threads \cup {NoThread}
  BY DEF CommitRaise, ReleaseIfHeldBy, IInv, TypeOK, StmTypeOK
<1>2. pc'[t] = "raised" /\ "raised" \in PCs
  BY <1>1 DEF IInv, TypeOK, StmTypeOK, PCs
<1>3. UNCHANGED <<expected, published, branch, reads, local, returned, direct>>
  BY <1>1, <1>2, QuietHistory
<1>4. t \notin returned
  BY <1>1 DEF IInv, PublishInv, PublishOK
<1>5. BodyOK(t)' /\ PublishOK(t)'
  BY <1>2, <1>3, <1>4 DEF BodyOK, PublishOK, Scans, LockedScans, UnlockedScan
<1>6. {} \in SUBSET TVars /\ pc[t] # "body" /\ "raised" # "write" /\ "raised" # "body"
  BY <1>1
<1> QED BY <1>1, <1>2, <1>5, <1>6, EngineKeeps

--------------------------------------------------------------------------------
(* One round of the commit loop: what it publishes was computed from the    *)
(* value that is there, so the change arrives.                              *)
LEMMA CommitWriteStep ==
  ASSUME IInv, NEW t \in Threads, Engine(t), CommitWrite(t) PROVE IInv'
<1>1. PICK x \in todo[t] :
        /\ x \in DOMAIN readSet[t] => EntryCurrent(t, x)
        /\ Publish(x, writeSet[t][x]) /\ todo' = [todo EXCEPT ![t] = todo[t] \ {x}]
  BY DEF CommitWrite
<1>2. pc[t] = "write" /\ UNCHANGED <<globalLock, pc, readSet, writeSet>>
  BY DEF CommitWrite
<1>3. BodyOK(t) /\ PublishOK(t) /\ StmTypeOK
  BY DEF IInv, BodyInv, PublishInv, TypeOK
<1>4. /\ t \notin returned /\ todo[t] \subseteq Whole(t) /\ published[t] = Whole(t) \ todo[t]
      /\ DOMAIN writeSet[t] = Whole(t) /\ DOMAIN readSet[t] = Whole(t)
      /\ \A y \in Whole(t) : writeSet[t][y] = readSet[t][y].val + Change(t)
  BY <1>2, <1>3 DEF PublishOK, BodyOK
<1>5. x \in TVars /\ x \in Whole(t) /\ readSet[t][x].val = value[x] /\ EntryCurrent(t, x)
  BY <1>1, <1>4, WholeIsTVars DEF IInv, ReadInv
<1>6. PICK v \in Int : v = writeSet[t][x] /\ v = value[x] + Change(t)
  <2>1. value[x] + Change(t) \in Int
    BY <1>3, <1>5, ChangeIsInt DEF StmTypeOK
  <2> QED BY <1>4, <1>5, <2>1
<1>7. value' = [value EXCEPT ![x] = v] /\ version' = [version EXCEPT ![x] = version[x] + 1]
  BY <1>1, <1>6 DEF Publish
<1>8. todo[t] \ todo'[t] = {x} /\ todo'[t] = todo[t] \ {x}
  BY <1>1, <1>3 DEF StmTypeOK
<1>9. /\ expected' = [y \in TVars |-> IF y = x THEN expected[y] + Change(t) ELSE expected[y]]
      /\ published' = [published EXCEPT ![t] = published[t] \cup {x}]
      /\ UNCHANGED <<branch, reads, local, returned, direct>>
  BY <1>2, <1>8 DEF Engine, client
<1>10. NoLostChange'
  <2>1. value = expected /\ expected \in [TVars -> Int]
    BY DEF IInv, TypeOK, NoLostChange
  <2>2. value' = expected'
    BY <1>5, <1>6, <1>7, <1>9, <2>1
  <2> QED BY <2>2 DEF NoLostChange
<1>11. TypeOK'
  <2>1. value' \in [TVars -> Int] /\ version' \in [TVars -> Nat]
    BY <1>3, <1>5, <1>7 DEF StmTypeOK
  <2>2. StmTypeOK'
    BY <1>1, <1>2, <1>3, <2>1 DEF StmTypeOK
  <2>3. expected' \in [TVars -> Int]
    BY <1>10, <2>1 DEF NoLostChange
  <2>4. published' \in [Threads -> SUBSET TVars]
    BY <1>5, <1>9 DEF IInv, TypeOK
  <2> QED BY <1>9, <2>2, <2>3, <2>4 DEF IInv, TypeOK
<1>12. \A u \in Threads : u # t => Same(u)
  BY <1>1, <1>2, <1>3, <1>9 DEF Same, StmTypeOK, IInv, TypeOK
<1>13. ReadInv'
  <2> SUFFICES ASSUME NEW u \in Threads, NEW y \in DOMAIN readSet[u]
               PROVE  /\ readSet[u][y].ver <= version'[y]
                      /\ version'[y] = readSet[u][y].ver => readSet[u][y].val = value'[y]
    BY <1>2 DEF ReadInv, EntryCurrent
  <2>1. y \in TVars /\ readSet[u][y].ver \in Nat
    BY <1>3 DEF StmTypeOK, IsDict, Entry
  <2>2. /\ readSet[u][y].ver <= version[y]
        /\ version[y] = readSet[u][y].ver => readSet[u][y].val = value[y]
    BY DEF IInv, ReadInv, EntryCurrent
  <2>3. version[y] \in Nat
    BY <1>3, <2>1 DEF StmTypeOK
  <2>4. CASE y = x
    <3>1. version'[y] = version[y] + 1
      BY <1>3, <1>7, <2>1, <2>4 DEF StmTypeOK
    <3> QED BY <2>1, <2>2, <2>3, <3>1
  <2>5. CASE y # x
    <3>1. version'[y] = version[y] /\ value'[y] = value[y]
      BY <1>3, <1>7, <2>1, <2>5 DEF StmTypeOK
    <3> QED BY <2>2, <3>1
  <2> QED BY <2>4, <2>5
<1>14. Whole(t)' = Whole(t)
  BY <1>9 DEF Whole
<1>15. BodyOK(t)'
  BY <1>2, <1>4, <1>14 DEF BodyOK, Change
<1>16. PublishOK(t)'
  <2>1. published'[t] = published[t] \cup {x}
    BY <1>9 DEF IInv, TypeOK
  <2>2. todo'[t] \subseteq Whole(t) /\ published'[t] = Whole(t) \ todo'[t]
    BY <1>4, <1>5, <1>8, <2>1
  <2> QED BY <1>2, <1>4, <1>9, <1>14, <2>2 DEF PublishOK
<1> QED BY <1>10, <1>11, <1>12, <1>13, <1>15, <1>16, StepKeeps

LEMMA EngineStep == ASSUME IInv, NEW t \in Threads, Engine(t) PROVE IInv'
<1>1. StmStep(t)
  BY DEF Engine
<1> QED BY <1>1, ScanNextStep, ScanConflictStep, ScanDoneStep, AcquireStep, CommitWriteStep,
           CommitRaiseStep DEF StmStep

(* atomically() returns: all is published.                                  *)
LEMMA FinishStep == ASSUME IInv, NEW t \in Threads, Finish(t) PROVE IInv'
<1>1. /\ pc[t] = "write" /\ todo[t] = {} /\ globalLock' = NoThread
      /\ pc' = [pc EXCEPT ![t] = "idle"] /\ returned' = returned \cup {t}
      /\ UNCHANGED <<value, version, readSet, writeSet, todo, branch, reads, local, direct,
                     expected, published>>
  BY DEF Finish, CommitDone
<1>2. PublishOK(t) /\ StmTypeOK
  BY DEF IInv, PublishInv, TypeOK
<1>3. TypeOK'
  BY <1>1, <1>2 DEF IInv, TypeOK, StmTypeOK, PCs
<1>4. \A u \in Threads : u # t => Same(u)
  BY <1>1, <1>2 DEF Same, StmTypeOK
<1>5. NoLostChange' /\ ReadInv'
  BY <1>1, QuietReadInv DEF IInv, NoLostChange
<1>6. pc'[t] = "idle" /\ Whole(t)' = Whole(t)
  BY <1>1, <1>2 DEF StmTypeOK, Whole
<1>7. published[t] = Whole(t)
  BY <1>1, <1>2 DEF PublishOK
<1>8. BodyOK(t)' /\ PublishOK(t)'
  BY <1>1, <1>6, <1>7 DEF BodyOK, PublishOK, Scans, LockedScans, UnlockedScan
<1> QED BY <1>3, <1>4, <1>5, <1>8, StepKeeps

(* A direct write makes the entries of x old, and starts its history anew.  *)
LEMMA WriterStep == ASSUME IInv, NEW x \in DirectTVars, Writer(x) PROVE IInv'
<1>1. /\ x \in TVars /\ direct < MaxDirect /\ direct' = direct + 1
      /\ value' = [value EXCEPT ![x] = DirectValue]
      /\ version' = [version EXCEPT ![x] = version[x] + 1]
      /\ expected' = [expected EXCEPT ![x] = DirectValue]
      /\ UNCHANGED <<globalLock, pc, readSet, writeSet, todo, branch, reads, local,
                     returned, published>>
  BY ClientsAssumption DEF Writer, DirectWrite, Publish
<1>2. StmTypeOK
  BY DEF IInv, TypeOK
<1>3. TypeOK'
  <2>1. value' \in [TVars -> Int] /\ version' \in [TVars -> Nat]
    BY <1>1, <1>2, ClientsAssumption DEF StmTypeOK
  <2>2. StmTypeOK'
    BY <1>1, <1>2, <2>1 DEF StmTypeOK
  <2>3. expected' \in [TVars -> Int] /\ direct' \in 0..MaxDirect
    BY <1>1, ClientsAssumption DEF IInv, TypeOK
  <2> QED BY <1>1, <2>2, <2>3 DEF IInv, TypeOK
<1>4. NoLostChange'
  BY <1>1 DEF IInv, NoLostChange
<1>5. ReadInv'
  <2> SUFFICES ASSUME NEW u \in Threads, NEW y \in DOMAIN readSet[u]
               PROVE  /\ readSet[u][y].ver <= version'[y]
                      /\ version'[y] = readSet[u][y].ver => readSet[u][y].val = value'[y]
    BY <1>1 DEF ReadInv, EntryCurrent
  <2>1. y \in TVars /\ readSet[u][y].ver \in Nat
    BY <1>2 DEF StmTypeOK, IsDict, Entry
  <2>2. /\ readSet[u][y].ver <= version[y]
        /\ version[y] = readSet[u][y].ver => readSet[u][y].val = value[y]
    BY DEF IInv, ReadInv, EntryCurrent
  <2>3. version[y] \in Nat
    BY <1>2, <2>1 DEF StmTypeOK
  <2>4. CASE y = x
    <3>1. version'[y] = version[y] + 1
      BY <1>1, <1>2, <2>1, <2>4 DEF StmTypeOK
    <3> QED BY <2>1, <2>2, <2>3, <3>1
  <2>5. CASE y # x
    <3>1. version'[y] = version[y] /\ value'[y] = value[y]
      BY <1>1, <1>2, <2>1, <2>5 DEF StmTypeOK
    <3> QED BY <2>2, <3>1
  <2> QED BY <2>4, <2>5
<1>6. BodyInv' /\ PublishInv' /\ OneAlternativeEach'
  <2>1. \A t \in Threads : Whole(t)' = Whole(t)
    BY <1>1 DEF Whole, ReadUpTo
  <2>2. BodyInv'
    BY <1>1 DEF IInv, BodyInv, BodyOK, Whole, ReadUpTo, Change
  <2>3. PublishInv'
    BY <1>1, <2>1 DEF IInv, PublishInv, PublishOK
  <2>4. OneAlternativeEach'
    <3>1. Takers \subseteq Threads /\ Depositors \subseteq Threads
      BY ClientsAssumption
    <3> QED BY <1>1, <2>1, <3>1 DEF IInv, OneAlternativeEach
  <2> QED BY <2>2, <2>3, <2>4
<1> QED BY <1>3, <1>4, <1>5, <1>6 DEF IInv

LEMMA StutterStep == ASSUME IInv, UNCHANGED vars PROVE IInv'
<1> USE DEF vars, stmVars, client
<1>1. TypeOK' /\ NoLostChange' /\ ReadInv'
  BY DEF IInv, TypeOK, StmTypeOK, NoLostChange, ReadInv, EntryCurrent
<1>2. BodyInv' /\ PublishInv' /\ OneAlternativeEach'
  <2>1. \A t \in Threads : Whole(t)' = Whole(t)
    BY DEF Whole, ReadUpTo
  <2>2. BodyInv'
    BY DEF IInv, BodyInv, BodyOK, Whole, ReadUpTo, Change
  <2>3. PublishInv'
    BY <2>1 DEF IInv, PublishInv, PublishOK
  <2>4. OneAlternativeEach'
    <3>1. Takers \subseteq Threads /\ Depositors \subseteq Threads
      BY ClientsAssumption
    <3> QED BY <2>1, <3>1 DEF IInv, OneAlternativeEach
  <2> QED BY <2>2, <2>3, <2>4
<1> QED BY <1>1, <1>2 DEF IInv

LEMMA NextInv == ASSUME IInv, ReadOnce, [Next]_vars PROVE IInv'
<1>1. ASSUME NEW t \in Threads, ThreadStep(t) PROVE IInv'
  <2>1. CASE Start(t)
    BY <2>1, StartStep
  <2>2. CASE Engine(t)
    BY <2>2, EngineStep
  <2>3. CASE Finish(t)
    BY <2>3, FinishStep
  <2>4. CASE t \in Takers /\ TakerBody(t)
    BY <2>4, TakerStep
  <2>5. CASE t \in Depositors /\ ReadNext(t)
    BY <2>5, ReadNextStep
  <2>6. CASE t \in Depositors /\ WriteAll(t)
    BY <2>6, WriteAllStep
  <2> QED BY <1>1, <2>1, <2>2, <2>3, <2>4, <2>5, <2>6 DEF ThreadStep
<1>2. CASE \E x \in DirectTVars : Writer(x)
  BY <1>2, WriterStep
<1>3. CASE Exit \/ UNCHANGED vars
  BY <1>3, StutterStep DEF Exit
<1> QED BY <1>1, <1>2, <1>3 DEF Next

--------------------------------------------------------------------------------
(* Every run keeps IInv, if no program reads a TVar twice (Transaction.     *)
(* read_tvar, line 65, forgets the version of the first of two reads).      *)
THEOREM Invariance == ReadOnce /\ Spec => []IInv
<1>1. ASSUME ReadOnce PROVE Spec => []IInv
  <2>1. Init => IInv
    BY InitInv
  <2>2. IInv /\ [Next]_vars => IInv'
    BY <1>1, NextInv
  <2> QED BY <2>1, <2>2, PTL DEF Spec
<1> QED BY <1>1

(* No change that commit() publishes (lines 99-109) is lost or made to a    *)
(* value that is no longer there, whatever TVar._write does meanwhile.      *)
THEOREM NoChangeIsLost == ReadOnce /\ Spec => []NoLostChange
<1>1. IInv => NoLostChange
  BY DEF IInv
<1> QED BY <1>1, Invariance, PTL

(* A transaction that has returned has published one alternative or one     *)
(* program, whole; one that is between two commits has published nothing.   *)
THEOREM AllOrNothing == ReadOnce /\ Spec => []OneAlternativeEach
<1>1. IInv => OneAlternativeEach
  BY DEF IInv
<1> QED BY <1>1, Invariance, PTL

================================================================================
