---------------------------------- MODULE STM ----------------------------------
(****************************************************************************)
(* The transactional memory of python/stm/stm_model.py: versioned TVars,    *)
(* a read set and a write set per transaction, validation outside and       *)
(* inside the global lock, and a commit that publishes one TVar at a time.  *)
(*                                                                          *)
(* Each acquisition of a TVar's own lock protects one read or one           *)
(* compare-and-publish and takes no other lock, so each is one step here.   *)
(* The dictionaries are scanned in any order; the code uses insertion       *)
(* order, which is one of those.  Client modules extend this one with the   *)
(* bodies of their transactions.                                            *)
(****************************************************************************)
EXTENDS Integers, FiniteSets

CONSTANTS Threads,   (* threads that run transactions                       *)
          TVars,     (* the registered TVars (create_tvar, _id_to_tvar)     *)
          NoThread   (* value of globalLock when nobody holds it            *)

ASSUME NoThreadAssumption == NoThread \notin Threads

VARIABLES
  value,       (* TVar.value                                                *)
  version,     (* TVar.version                                              *)
  globalLock,  (* holder of _GLOBAL_LOCK                                    *)
  pc,          (* where the thread is in atomically()                       *)
  readSet,     (* Transaction.read_set:  TVar -> (value, version) seen      *)
  writeSet,    (* Transaction.write_set: TVar -> value to publish           *)
  todo         (* TVars the running scan has not reached yet                *)

stmVars == <<value, version, globalLock, pc, readSet, writeSet, todo>>

--------------------------------------------------------------------------------
(* Dictionaries keyed by TVar.                                              *)
Put(dict, k, v) == [x \in DOMAIN dict \cup {k} |-> IF x = k THEN v ELSE dict[x]]

IsDict(dict, V) == /\ DOMAIN dict \subseteq TVars
                   /\ \A x \in DOMAIN dict : dict[x] \in V

EmptyDict == [x \in {} |-> 0]

Entry == [val : Int, ver : Nat]

(* "idle" is between two rounds of the loop of atomically(); "body" runs    *)
(* txn_func; the three scans are the validate() calls of lines 156, 159 and *)
(* 96; "raised" is a RuntimeError that left atomically().                   *)
UnlockedScan == {"validate"}
LockedScans  == {"revalidate", "precommit"}
Scans        == UnlockedScan \cup LockedScans
PCs          == {"idle", "body", "lock", "write", "raised"} \cup Scans

StmTypeOK ==
  /\ value \in [TVars -> Int]
  /\ version \in [TVars -> Nat]
  /\ globalLock \in Threads \cup {NoThread}
  /\ pc \in [Threads -> PCs]
  /\ DOMAIN readSet = Threads /\ \A t \in Threads : IsDict(readSet[t], Entry)
  /\ DOMAIN writeSet = Threads /\ \A t \in Threads : IsDict(writeSet[t], Int)
  /\ todo \in [Threads -> SUBSET TVars]

StmInit(initial) ==
  /\ value = initial
  /\ version = [x \in TVars |-> 0]
  /\ globalLock = NoThread
  /\ pc = [t \in Threads |-> "idle"]
  /\ readSet = [t \in Threads |-> EmptyDict]
  /\ writeSet = [t \in Threads |-> EmptyDict]
  /\ todo = [t \in Threads |-> {}]

--------------------------------------------------------------------------------
(* A fresh Transaction for the next round of the loop.                      *)
Begin(t) ==
  /\ pc[t] = "idle"
  /\ pc' = [pc EXCEPT ![t] = "body"]
  /\ readSet' = [readSet EXCEPT ![t] = EmptyDict]
  /\ writeSet' = [writeSet EXCEPT ![t] = EmptyDict]
  /\ UNCHANGED <<value, version, globalLock, todo>>

(* What Transaction.read_tvar returns, and the read set it leaves: a TVar   *)
(* the transaction has written is answered from the write set; any other    *)
(* read replaces an earlier entry of the same TVar.                         *)
ReadValue(t, x) == IF x \in DOMAIN writeSet[t] THEN writeSet[t][x] ELSE value[x]

ReadFirstOnly(t, x) ==
  IF x \in DOMAIN writeSet[t] \cup DOMAIN readSet[t]
  THEN readSet[t]
  ELSE Put(readSet[t], x, [val |-> value[x], ver |-> version[x]])

ReadSetAfter(t, x) ==
  IF x \in DOMAIN writeSet[t]
  THEN readSet[t]
  ELSE Put(readSet[t], x, [val |-> value[x], ver |-> version[x]])

(* txn_func returned without a retry: start the first validation.           *)
EndBody(t) == /\ pc' = [pc EXCEPT ![t] = "validate"]
              /\ todo' = [todo EXCEPT ![t] = DOMAIN readSet'[t]]

(* txn_func returned with the retry flag set, or raised RetryException.     *)
EndBodyGivingUp(t) == /\ pc' = [pc EXCEPT ![t] = "raised"]
                      /\ todo' = [todo EXCEPT ![t] = {}]
EndBodyWithRetry(t) == /\ pc' = [pc EXCEPT ![t] = "idle"]
                       /\ todo' = [todo EXCEPT ![t] = {}]

--------------------------------------------------------------------------------
(* Validation.                                                              *)
EntryAlwaysCurrent(t, x) == x \in TVars
EntryInverted(t, x) == version[x] < readSet[t][x].ver
EntryCurrent(t, x) == version[x] = readSet[t][x].ver

ScanNext(t) ==
  /\ pc[t] \in Scans
  /\ \E x \in todo[t] : /\ EntryCurrent(t, x)
                        /\ todo' = [todo EXCEPT ![t] = @ \ {x}]
  /\ UNCHANGED <<value, version, globalLock, pc, readSet, writeSet>>

ReleaseIfHeldBy(t) == globalLock' = IF globalLock = t THEN NoThread ELSE globalLock

(* A stale entry: outside the lock and under it the transaction starts      *)
(* over; inside commit() a RuntimeError leaves atomically().                *)
ScanConflict(t) ==
  /\ pc[t] \in Scans
  /\ \E x \in todo[t] : ~EntryCurrent(t, x)
  /\ pc' = [pc EXCEPT ![t] = IF @ = "precommit" THEN "raised" ELSE "idle"]
  /\ ReleaseIfHeldBy(t)
  /\ todo' = [todo EXCEPT ![t] = {}]
  /\ UNCHANGED <<value, version, readSet, writeSet>>

(* The scan found every entry current: on to the lock, to commit(), and to  *)
(* the loop that publishes.                                                 *)
GoOn(t, from, to, keys) == /\ pc[t] = from
                           /\ pc' = [pc EXCEPT ![t] = to]
                           /\ todo' = [todo EXCEPT ![t] = keys]

ScanDone(t) ==
  /\ todo[t] = {}
  /\ \/ GoOn(t, "validate", "lock", {})
     \/ GoOn(t, "revalidate", "precommit", DOMAIN readSet[t])
     \/ GoOn(t, "precommit", "write", DOMAIN writeSet[t])
  /\ UNCHANGED <<value, version, globalLock, readSet, writeSet>>

--------------------------------------------------------------------------------
(* Commit.                                                                  *)
LockFree == globalLock = NoThread

AcquireWithoutRescan(t) ==
  /\ pc[t] = "lock"
  /\ LockFree
  /\ globalLock' = t
  /\ pc' = [pc EXCEPT ![t] = "revalidate"]
  /\ UNCHANGED <<value, version, readSet, writeSet, todo>>

AcquireGlobal(t) ==
  /\ pc[t] = "lock"
  /\ LockFree
  /\ globalLock' = t
  /\ pc' = [pc EXCEPT ![t] = "revalidate"]
  /\ todo' = [todo EXCEPT ![t] = DOMAIN readSet[t]]
  /\ UNCHANGED <<value, version, readSet, writeSet>>

PublishSameVersion(x, v) == /\ value' = [value EXCEPT ![x] = v]
                            /\ version' = version
Publish(x, v) == /\ value' = [value EXCEPT ![x] = v]
                 /\ version' = [version EXCEPT ![x] = @ + 1]

(* One round of the loop of commit(): re-check and publish one TVar.        *)
CommitWriteUnchecked(t) ==
  /\ pc[t] = "write"
  /\ \E x \in todo[t] :
       /\ Publish(x, writeSet[t][x])
       /\ todo' = [todo EXCEPT ![t] = @ \ {x}]
  /\ UNCHANGED <<globalLock, pc, readSet, writeSet>>

CommitWrite(t) ==
  /\ pc[t] = "write"
  /\ \E x \in todo[t] :
       /\ x \in DOMAIN readSet[t] => EntryCurrent(t, x)
       /\ Publish(x, writeSet[t][x])
       /\ todo' = [todo EXCEPT ![t] = @ \ {x}]
  /\ UNCHANGED <<globalLock, pc, readSet, writeSet>>

(* "Concurrent modification detected": leaves with earlier TVars published. *)
CommitRaise(t) ==
  /\ pc[t] = "write"
  /\ \E x \in todo[t] \cap DOMAIN readSet[t] : ~EntryCurrent(t, x)
  /\ pc' = [pc EXCEPT ![t] = "raised"]
  /\ ReleaseIfHeldBy(t)
  /\ todo' = [todo EXCEPT ![t] = {}]
  /\ UNCHANGED <<value, version, readSet, writeSet>>

(* The commit loop is over: release the lock and return the result.         *)
CommitDone(t) ==
  /\ pc[t] = "write"
  /\ todo[t] = {}
  /\ globalLock' = NoThread
  /\ pc' = [pc EXCEPT ![t] = "idle"]
  /\ UNCHANGED <<value, version, readSet, writeSet, todo>>

(* The steps of atomically() after the body, but for the final one.         *)
StmStep(t) == \/ ScanNext(t) \/ ScanConflict(t) \/ ScanDone(t)
              \/ AcquireGlobal(t) \/ CommitWrite(t) \/ CommitRaise(t)
================================================================================
