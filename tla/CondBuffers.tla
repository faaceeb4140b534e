------------------------------- MODULE CondBuffers ------------------------------
(****************************************************************************)
(* Buffers between threads that sleep on condition variables:               *)
(*   "python"   BoundedBuffer of thread_producer_consumer.py                *)
(*   "cpp"      the global buffer of producer_consumer.cpp                  *)
(*   "channel"  the Channel of channel_demo.cpp                             *)
(*   "java", "scala"  the Channels of ChannelDemo.java and .scala, which    *)
(*              wrap a LinkedBlockingQueue (external: a call waits inside   *)
(*              until it can be served)                                     *)
(*   "asyncio"  the asyncio.Queue (external) between the coroutines of      *)
(*              asyncio_producer_consumer.py: a thread here is a coroutine, *)
(*              a section what it does between two awaits                   *)
(* One of them is used.  A section under the lock is one step: the test of  *)
(* the predicate and either the change with its notification or falling     *)
(* asleep, which gives the lock back.                                       *)
(****************************************************************************)
EXTENDS Integers, Sequences, FiniteSets

CONSTANTS Threads,
          Kinds,   (* the buffers to choose from                            *)
          Items,   (* what is passed through them                           *)
          Ops,     (* Ops[k][t]: what thread t calls on buffer k            *)
          Size     (* Size[k]: maxsize, MAX_BUFFER, capacity                *)

(* What each of them can be asked to do, the lambdas around the C++ buffer  *)
(* included.                                                                *)
Methods == [k \in {"python", "cpp", "channel", "java", "scala", "asyncio"} |->
  CASE k \in {"python", "asyncio"} -> {"send", "recv"}
    [] k \in {"cpp", "channel"} -> {"send", "recv", "close"}
    [] k \in {"java", "scala"} -> {"send", "recv", "trySend", "tryRecv"}]

ASSUME BuffersAssumption ==
  /\ IsFiniteSet(Threads)
  /\ Kinds \subseteq DOMAIN Methods
  /\ Size \in [Kinds -> Nat]
  /\ DOMAIN Ops = Kinds
  /\ \A k \in Kinds : Ops[k] \in [Threads -> Seq([op : Methods[k], item : Items])]

VARIABLES
  kind,
  buf,      (* _buf, buffer, queue_                                         *)
  closed,   (* closed_, done                                                *)
  pc,       (* "run"; "asleep"; "woken": to take the lock again; "notify":  *)
            (* has unlocked and has yet to notify                           *)
  answers,  (* what the calls of each thread have returned                  *)
  sent,     (* history: items put in                                        *)
  taken     (* history: items taken out                                     *)

vars == <<kind, buf, closed, pc, answers, sent, taken>>

TypeOK == /\ kind \in Kinds
          /\ buf \in Seq(Items) /\ sent \in Seq(Items) /\ taken \in Seq(Items)
          /\ closed \in BOOLEAN
          /\ pc \in [Threads -> {"run", "asleep", "woken", "notify"}]
          /\ DOMAIN answers = Threads
          /\ \A t \in Threads : answers[t] \in Seq({"ok", "closed", "refused"})

Init == /\ kind \in Kinds
        /\ buf = <<>> /\ sent = <<>> /\ taken = <<>> /\ closed = FALSE
        /\ pc = [t \in Threads |-> "run"]
        /\ answers = [t \in Threads |-> <<>>]

--------------------------------------------------------------------------------
(* A consumer stops at the first "closed".                                  *)
ToldClosed(t) == answers[t] # <<>> /\ answers[t][Len(answers[t])] = "closed"
HasOp(t) == Len(answers[t]) < Len(Ops[kind][t]) /\ ~ToldClosed(t)
TheOp(t) == Ops[kind][t][Len(answers[t]) + 1]
Calls(t, ops) == pc[t] \in {"run", "woken"} /\ HasOp(t) /\ TheOp(t).op \in ops
Answer(t, status) == answers' = [answers EXCEPT ![t] = Append(@, status)]

(* What the predicates say of the buffer: maxsize 0 is always full in the   *)
(* thread version, 0 makes asyncio's queue and the C++ and Scala channels   *)
(* unbounded, and Java takes it as 1.                                       *)
Room == \/ Len(buf) < Size[kind]
        \/ Size[kind] = 0 /\ kind \in {"channel", "scala", "asyncio"}
        \/ Size[kind] = 0 /\ kind = "java" /\ buf = <<>>

MaySend == Room /\ ~(kind = "channel" /\ closed)
MayRecv == buf # <<>> \/ closed

Asleep(op) == {t \in Threads : pc[t] = "asleep" /\ TheOp(t).op = op}
Woken(op) == {t \in Threads : pc[t] = "woken" /\ TheOp(t).op = op}

(* Notifications by thread t, which goes on with its next call.             *)
WakeAll(t, ops) == pc' = [u \in Threads |->
  IF u = t THEN "run"
  ELSE IF pc[u] = "asleep" /\ TheOp(u).op \in ops THEN "woken" ELSE pc[u]]
WakeOne(t, op) ==
  IF Asleep(op) = {} THEN pc' = [pc EXCEPT ![t] = "run"]
  ELSE \E w \in Asleep(op) : pc' = [pc EXCEPT ![t] = "run", ![w] = "woken"]

(* After put, push, pop: one condition for both sides or one for each.      *)
NotifyOneOfAll(t, op) == \/ WakeOne(t, "send")
                         \/ WakeOne(t, "recv")
Notify(t, op) == IF kind = "python" THEN WakeAll(t, {"send", "recv"})
                 ELSE IF kind = "cpp" THEN pc' = [pc EXCEPT ![t] = "notify"]
                 ELSE WakeOne(t, op)

Put(t) == /\ Calls(t, {"send", "trySend"}) /\ MaySend
          /\ buf' = Append(buf, TheOp(t).item)
          /\ sent' = Append(sent, TheOp(t).item)
          /\ Answer(t, "ok")
          /\ Notify(t, "recv")
          /\ UNCHANGED <<kind, closed, taken>>

GetLast(t) == /\ Calls(t, {"recv", "tryRecv"}) /\ buf # <<>>
              /\ buf' = SubSeq(buf, 1, Len(buf) - 1)
              /\ taken' = Append(taken, buf[Len(buf)])
              /\ Answer(t, "ok")
              /\ Notify(t, "send")
              /\ UNCHANGED <<kind, closed, sent>>
Get(t) == /\ Calls(t, {"recv", "tryRecv"}) /\ buf # <<>>
          /\ buf' = Tail(buf)
          /\ taken' = Append(taken, Head(buf))
          /\ Answer(t, "ok")
          /\ Notify(t, "send")
          /\ UNCHANGED <<kind, closed, sent>>

(* recv throws, the consumer breaks out of its loop: nobody is notified.    *)
AtEmptyEnd == buf = <<>>
GetEnd(t) == /\ Calls(t, {"recv"}) /\ closed /\ AtEmptyEnd
             /\ Answer(t, "closed")
             /\ pc' = [pc EXCEPT ![t] = "run"]
             /\ UNCHANGED <<kind, buf, closed, sent, taken>>

Sleep(t) == /\ kind \in {"python", "cpp", "channel", "asyncio"}
            /\ \/ Calls(t, {"send"}) /\ ~MaySend
               \/ Calls(t, {"recv"}) /\ ~MayRecv
            /\ pc' = [pc EXCEPT ![t] = "asleep"]
            /\ UNCHANGED <<kind, buf, closed, answers, sent, taken>>

(* offer and poll do not wait.                                              *)
Refuse(t) == /\ \/ Calls(t, {"trySend"}) /\ ~Room
                \/ Calls(t, {"tryRecv"}) /\ buf = <<>>
             /\ Answer(t, "refused")
             /\ UNCHANGED <<kind, buf, closed, pc, sent, taken>>

(* close(); in producer_consumer.cpp main joins the producers, sets done    *)
(* under the lock and notifies after it.                                    *)
Sends(t) == \E i \in DOMAIN Ops[kind][t] : Ops[kind][t][i].op = "send"
ProducersJoined == \A u \in Threads : Sends(u) => ~HasOp(u) /\ pc[u] = "run"
CloseSilently(t) == pc' = [pc EXCEPT ![t] = "run"]
NotifyClose(t) == IF kind = "cpp" THEN pc' = [pc EXCEPT ![t] = "notify"]
                  ELSE WakeAll(t, {"send", "recv"})
Close(t) == /\ Calls(t, {"close"})
            /\ kind = "cpp" => ProducersJoined
            /\ closed' = TRUE
            /\ Answer(t, "ok")
            /\ NotifyClose(t)
            /\ UNCHANGED <<kind, buf, sent, taken>>

(* lock.unlock(); cv.notify_all();                                          *)
NotifyUnlocked(t) == /\ pc[t] = "notify"
                     /\ WakeAll(t, {"send", "recv"})
                     /\ UNCHANGED <<kind, buf, closed, answers, sent, taken>>

(* A C++ condition variable may wake a thread for no reason.                *)
WakeForNothing(t) == /\ kind \in {"cpp", "channel"} /\ pc[t] = "asleep"
                     /\ pc' = [pc EXCEPT ![t] = "woken"]
                     /\ UNCHANGED <<kind, buf, closed, answers, sent, taken>>

LockedStep(t) == Put(t) \/ Get(t) \/ GetEnd(t) \/ Sleep(t) \/ Refuse(t) \/ Close(t) \/ NotifyUnlocked(t)

(* The threads are joined, the coroutines gathered.                         *)
Gathered == \A t \in Threads : pc[t] = "run" /\ ~HasOp(t)
Joined == Gathered /\ UNCHANGED vars

Next == (\E t \in Threads : LockedStep(t) \/ WakeForNothing(t)) \/ Joined

Spec == Init /\ [][Next]_vars

(* Threads that are awake are scheduled; nobody has to wake for nothing.    *)
FairSpec == Spec /\ \A t \in Threads : WF_vars(LockedStep(t))

--------------------------------------------------------------------------------
(* The buffer holds, in order, what was put in and not taken out, and never *)
(* more than it may, although threads that were woken find their predicate  *)
(* overtaken by others: every item is consumed exactly once.                *)
BufferInv == /\ sent = taken \o buf
             /\ kind \in {"python", "cpp"} => Len(buf) <= Size[kind]
             /\ kind \in {"channel", "asyncio"} => Size[kind] = 0 \/ Len(buf) <= Size[kind]
             /\ kind = "java" => Len(buf) <= 1 \/ Len(buf) <= Size[kind]

(* "closed" is the end: nothing is left, and nothing comes any more, for    *)
(* the other consumers either.                                              *)
EndIsTheEnd == (\E t \in Threads : ToldClosed(t)) => closed /\ buf = <<>>

(* Who sleeps or has been woken is inside send or recv.                     *)
CallInv == \A t \in Threads :
  pc[t] \in {"asleep", "woken"} => HasOp(t) /\ TheOp(t).op \in {"send", "recv"}

(* Only C++ closes; its main has joined the producers before it says done.  *)
CloseInv == closed => /\ kind \in {"cpp", "channel"}
                      /\ kind = "cpp" => \A t \in Threads : Sends(t) => ~HasOp(t)

IInv == TypeOK /\ BufferInv /\ CallInv /\ CloseInv /\ EndIsTheEnd

Free == Size[kind] - Len(buf)
Notifying == \E u \in Threads : pc[u] = "notify"

(* Nobody sleeps through what he waits for: either his predicate is false,  *)
(* or a notification of everybody is on its way, or, where one thread is    *)
(* notified at a time, as many are awake already as can be served.          *)
NobodySleepsThroughSend ==
  Asleep("send") # {} /\ MaySend => Notifying \/ Cardinality(Woken("send")) >= Free
NobodySleepsThroughRecv ==
  Asleep("recv") # {} /\ MayRecv =>
    Notifying \/ (~closed /\ Cardinality(Woken("recv")) >= Len(buf))
NobodySleepsThrough == NobodySleepsThroughSend /\ NobodySleepsThroughRecv

(* Every call returns, but for the senders of a C++ channel that closes     *)
(* before there is room for them: their predicate never comes true.         *)
EveryCallReturns == \A t \in Threads :
  <>(~HasOp(t) \/ (kind = "channel" /\ closed /\ TheOp(t).op = "send"))
================================================================================
