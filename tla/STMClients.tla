------------------------------- MODULE STMClients -------------------------------
(****************************************************************************)
(* Transactions of python/stm/stm_model.py that are not plain transfers:    *)
(*   takers      the demo's orElse: money from X or else from Y.  Style[t]  *)
(*               says how try_x asks for a retry: "flag" is txn.retry(),    *)
(*               which only sets a flag (the demo, line 376); "raise" is    *)
(*               the function retry(), which also raises RetryException     *)
(*               (line 177);                                                *)
(*   depositors  read the TVars of their program one after the other, keep  *)
(*               the first value they got of each in a local variable, and  *)
(*               write it back with Need added;                             *)
(* and a thread that uses TVar._write directly, which goes round the global *)
(* lock.                                                                    *)
(****************************************************************************)
EXTENDS STM, Sequences

CONSTANTS AccX, AccY, InitX, InitY, Need,
          Takers, Style,
          Depositors,
          Program,       (* Program[t]: the TVars depositor t reads, in order*)
          DirectTVars,   (* TVars the direct writer may write               *)
          DirectValue,   (* what it writes                                  *)
          MaxDirect      (* bound: how often it writes                      *)

ASSUME ClientsAssumption ==
  /\ AccX # AccY /\ TVars = {AccX, AccY} /\ DirectTVars \subseteq TVars
  /\ Threads = Takers \cup Depositors /\ Takers \cap Depositors = {}
  /\ {InitX, InitY, Need, DirectValue, MaxDirect} \subseteq Nat
  /\ Style \in [Takers -> {"flag", "raise"}]
  /\ Program \in [Depositors -> Seq(TVars)]

VARIABLES branch,     (* alternative a taker's body has reached              *)
          reads,      (* number of reads a depositor's body has made         *)
          local,      (* its local variables: TVar -> first value read       *)
          returned,   (* threads whose atomically() has returned             *)
          direct,     (* direct writes made so far                           *)
          expected,   (* history: what each TVar should hold, the last direct*)
                      (* write and every change published since              *)
          published   (* history: the TVars each thread has published        *)

client == <<branch, reads, local, returned, direct>>
vars == <<stmVars, client, expected, published>>

TypeOK == /\ StmTypeOK
          /\ branch \in [Takers -> {"first", "second"}]
          /\ reads \in [Depositors -> Nat] /\ DOMAIN local = Depositors
          /\ \A t \in Depositors : reads[t] <= Len(Program[t]) /\ IsDict(local[t], Int)
          /\ returned \subseteq Threads /\ direct \in 0..MaxDirect
          /\ expected \in [TVars -> Int] /\ published \in [Threads -> SUBSET TVars]

Init == /\ StmInit([x \in TVars |-> IF x = AccX THEN InitX ELSE InitY])
        /\ branch = [t \in Takers |-> "first"]
        /\ reads = [t \in Depositors |-> 0] /\ local = [t \in Depositors |-> EmptyDict]
        /\ returned = {} /\ direct = 0
        /\ expected = value /\ published = [t \in Threads |-> {}]

--------------------------------------------------------------------------------
Start(t) == /\ t \notin returned
            /\ Begin(t)
            /\ branch' = IF t \in Takers THEN [branch EXCEPT ![t] = "first"] ELSE branch
            /\ reads' = IF t \in Depositors THEN [reads EXCEPT ![t] = 0] ELSE reads
            /\ local' = IF t \in Depositors THEN [local EXCEPT ![t] = EmptyDict] ELSE local
            /\ UNCHANGED <<returned, direct, expected, published>>

BodyStep(t) == /\ pc[t] = "body"
               /\ UNCHANGED <<value, version, globalLock, returned, direct, expected, published>>

(* The rest of a taker's body after its only read, of x: take the money.    *)
Take(t, x) ==
  /\ readSet' = [readSet EXCEPT ![t] = ReadSetAfter(t, x)]
  /\ writeSet' = [writeSet EXCEPT ![t] = Put(@, x, ReadValue(t, x) - Need)]
  /\ EndBody(t)
  /\ UNCHANGED <<branch, reads, local>>

TryX(t) == /\ BodyStep(t) /\ branch[t] = "first"
           /\ value[AccX] >= Need
           /\ Take(t, AccX)

(* try_x cannot pay and sets the flag: _or_else returns its result, and     *)
(* atomically() starts the transaction over.                                *)
TryXFlags(t) == /\ BodyStep(t) /\ branch[t] = "first"
                /\ Style[t] = "flag" /\ value[AccX] < Need
                /\ readSet' = [readSet EXCEPT ![t] = ReadSetAfter(t, AccX)]
                /\ EndBodyWithRetry(t)
                /\ UNCHANGED <<writeSet, branch, reads, local>>

(* try_x cannot pay and raises: _or_else puts the saved read and write sets *)
(* back (both were empty) and clears the flag; try_y comes next.            *)
TryXRaises(t) == /\ BodyStep(t) /\ branch[t] = "first"
                 /\ Style[t] = "raise" /\ value[AccX] < Need
                 /\ branch' = [branch EXCEPT ![t] = "second"]
                 /\ UNCHANGED <<pc, readSet, writeSet, todo, reads, local>>

TryY(t) == /\ BodyStep(t) /\ branch[t] = "second"
           /\ Take(t, AccY)

ReadNext(t) ==
  /\ BodyStep(t) /\ reads[t] < Len(Program[t])
  /\ LET x == Program[t][reads[t] + 1] IN
       /\ readSet' = [readSet EXCEPT ![t] = ReadSetAfter(t, x)]
       /\ local' = IF x \in DOMAIN local[t]
                   THEN local
                   ELSE [local EXCEPT ![t] = Put(@, x, ReadValue(t, x))]
  /\ reads' = [reads EXCEPT ![t] = @ + 1]
  /\ UNCHANGED <<pc, writeSet, todo, branch>>

WriteAll(t) ==
  /\ BodyStep(t) /\ reads[t] = Len(Program[t])
  /\ writeSet' = [writeSet EXCEPT ![t] = [x \in DOMAIN local[t] |-> local[t][x] + Need]]
  /\ readSet' = readSet
  /\ EndBody(t)
  /\ UNCHANGED <<branch, reads, local>>

(* The histories follow what is published.                                  *)
Change(t) == IF t \in Takers THEN -Need ELSE Need
Engine(t) ==
  /\ StmStep(t)
  /\ LET now == IF pc[t] = "write" /\ pc'[t] = "write" THEN todo[t] \ todo'[t] ELSE {} IN
       /\ expected' = [x \in TVars |-> IF x \in now THEN expected[x] + Change(t) ELSE expected[x]]
       /\ published' = [published EXCEPT ![t] = @ \cup now]
  /\ UNCHANGED client

Finish(t) == /\ CommitDone(t)
             /\ returned' = returned \cup {t}
             /\ UNCHANGED <<branch, reads, local, direct, expected, published>>

(* TVar._write: value and version under the TVar's own lock, and nothing    *)
(* of the global one.                                                       *)
DirectWrite(x) == /\ direct < MaxDirect
                  /\ Publish(x, DirectValue)
                  /\ direct' = direct + 1

Writer(x) == /\ DirectWrite(x)
             /\ expected' = [expected EXCEPT ![x] = DirectValue]
             /\ UNCHANGED <<globalLock, pc, readSet, writeSet, todo, branch, reads, local>>
             /\ UNCHANGED <<returned, published>>

Ended(t) == pc[t] = "raised" \/ t \in returned
Exit == /\ \A t \in Threads : Ended(t)
        /\ direct = MaxDirect
        /\ UNCHANGED vars

TakerBody(t) == TryX(t) \/ TryXFlags(t) \/ TryXRaises(t) \/ TryY(t)

ThreadStep(t) == \/ Start(t) \/ Engine(t) \/ Finish(t)
                 \/ t \in Takers /\ TakerBody(t)
                 \/ t \in Depositors /\ (ReadNext(t) \/ WriteAll(t))

Next == \/ \E t \in Threads : ThreadStep(t)
        \/ \E x \in DirectTVars : Writer(x)
        \/ Exit

Spec == Init /\ [][Next]_vars

FairSpec == Spec /\ \A t \in Threads : WF_vars(ThreadStep(t))

--------------------------------------------------------------------------------
(* No change is lost and none is made to a value that is no longer there,   *)
(* although direct writes go round the global lock: the re-check of lines   *)
(* 104-107 is what stands between them.                                     *)
NoLostChange == value = expected

(* What a transaction of t writes: the account of the alternative taken, or *)
(* what the program has read.                                               *)
ReadUpTo(t, n) == {Program[t][i] : i \in 1..n}
Whole(t) == IF t \in Takers THEN {IF branch[t] = "first" THEN AccX ELSE AccY}
            ELSE ReadUpTo(t, Len(Program[t]))

(* A taker that has returned has taken from the account its result names    *)
(* and left nothing of the alternative it gave up (_or_else, lines 397-410);*)
(* a depositor that has returned has written its whole program, and only a  *)
(* RuntimeError in the commit loop leaves a part of one behind.             *)
OneAlternativeEach ==
  /\ \A t \in Takers \cap returned : published[t] = Whole(t)
  /\ \A t \in Depositors : /\ t \in returned => published[t] = Whole(t)
                           /\ published[t] \notin {{}, Whole(t)} => pc[t] \in {"write", "raised"}

--------------------------------------------------------------------------------
(* Why they hold, where no program reads a TVar twice.  A version seen is   *)
(* no newer than the present one, and an equal one means an equal value.    *)
ReadOnce == \A t \in Depositors : \A i, j \in 1..Len(Program[t]) :
  i # j => Program[t][i] # Program[t][j]

ReadInv == \A t \in Threads : \A x \in DOMAIN readSet[t] :
  /\ readSet[t][x].ver <= version[x]
  /\ EntryCurrent(t, x) => readSet[t][x].val = value[x]

(* What a body has read, and what it has written once it is over.           *)
BodyOK(t) ==
  /\ pc[t] = "body" =>
       /\ DOMAIN writeSet[t] = {}
       /\ DOMAIN readSet[t] = IF t \in Takers THEN {} ELSE ReadUpTo(t, reads[t])
       /\ t \in Depositors => /\ DOMAIN local[t] = DOMAIN readSet[t]
                              /\ \A x \in DOMAIN local[t] : local[t][x] = readSet[t][x].val
  /\ pc[t] \in Scans \cup {"lock", "write"} =>
       /\ DOMAIN writeSet[t] = Whole(t) /\ DOMAIN readSet[t] = Whole(t)
       /\ \A x \in Whole(t) : writeSet[t][x] = readSet[t][x].val + Change(t)
BodyInv == \A t \in Threads : BodyOK(t)

(* What has been published of the transaction that runs or has returned.    *)
PublishOK(t) ==
  /\ t \in returned => pc[t] = "idle" /\ published[t] = Whole(t)
  /\ pc[t] = "write" => /\ todo[t] \subseteq Whole(t)
                        /\ published[t] = Whole(t) \ todo[t]
  /\ t \notin returned /\ pc[t] \notin {"write", "raised"} => published[t] = {}
PublishInv == \A t \in Threads : PublishOK(t)

IInv == TypeOK /\ NoLostChange /\ OneAlternativeEach /\ ReadInv /\ BodyInv /\ PublishInv

(* Every thread leaves atomically(), with a result or with a RuntimeError:  *)
(* conflicts never keep a transaction going for ever.  But for a taker that *)
(* asks by flag, and that one only while X cannot pay: "if it calls retry,  *)
(* fall through to `second`" (_or_else, line 390) holds of retry() alone.   *)
WaitingTakers == {t \in Takers : Style[t] = "flag" /\ value[AccX] < Need}
EveryThreadEnds == \A t \in Threads : []<>(Ended(t) \/ t \in WaitingTakers)
================================================================================
