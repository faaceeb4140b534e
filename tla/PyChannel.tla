------------------------------- MODULE PyChannel --------------------------------
(****************************************************************************)
(* The Channel of python/csp/channel_demo.py: a queue.Queue and a closed    *)
(* flag behind one lock, and two Events on which a full send or an empty    *)
(* recv waits for at most a millisecond before it looks again.              *)
(*                                                                          *)
(* The queue and the flag are only touched with the lock held, and the lock *)
(* is held across no wait, so a locked section is one step.  Between the    *)
(* section that found the buffer full or empty and the wait of line 54 or   *)
(* 72 the thread holds nothing: an event set and cleared there is missed.   *)
(****************************************************************************)
EXTENDS Integers, Sequences, FiniteSets

CONSTANTS Workers,  (* the threads that use the channel               *)
          Ops,      (* Ops[t]: what thread t calls on the channel            *)
          MaxSize   (* Channel(maxsize); 0 makes the queue unbounded         *)

ASSUME ChannelAssumption ==
  /\ MaxSize \in Nat
  /\ Ops \in [Workers -> Seq([op : {"send", "try_send", "recv", "try_recv", "close"},
                              item : Int])]

VARIABLES
  buf,        (* _buf                                                       *)
  closed,     (* _closed                                                    *)
  recvEvent,  (* _recv_event.is_set(), seen by a thread that starts to wait *)
  place,      (* "run"; "park": about to wait; "wait": inside Event.wait    *)
  answers,    (* what the calls of each thread have returned                *)
  sent,       (* history: every item ever put into _buf, in order           *)
  given       (* history: how many items have been taken from it            *)

channelVars == <<buf, closed, recvEvent, place, answers, sent, given>>

Answer == [status : {"ok", "not_now", "closed"}, item : Int]

ChannelTypeOK == /\ buf \in Seq(Int) /\ sent \in Seq(Int) /\ given \in Nat
                 /\ closed \in BOOLEAN
                 /\ recvEvent \in BOOLEAN
                 /\ place \in [Workers -> {"run", "park", "wait"}]
                 /\ DOMAIN answers = Workers
                 /\ \A t \in Workers : answers[t] \in Seq(Answer) /\ Len(answers[t]) <= Len(Ops[t])

ChannelInit == /\ buf = <<>> /\ sent = <<>> /\ given = 0
               /\ closed = FALSE
               /\ recvEvent = FALSE
               /\ place = [t \in Workers |-> "run"]
               /\ answers = [t \in Workers |-> <<>>]

--------------------------------------------------------------------------------
(* _worker_sender breaks on ChannelClosed, _worker_receiver on None.        *)
ToldClosed(t) == answers[t] # <<>> /\ answers[t][Len(answers[t])].status = "closed"
HasOp(t) == Len(answers[t]) < Len(Ops[t]) /\ ~ToldClosed(t)
TheOp(t) == Ops[t][Len(answers[t]) + 1]
Calls(t, ops) == place[t] = "run" /\ HasOp(t) /\ TheOp(t).op \in ops

Return(t, status, item) ==
  answers' = [answers EXCEPT ![t] = Append(@, [status |-> status, item |-> item])]

(* Event.set() immediately followed by Event.clear(): those inside the wait *)
(* go on, those about to wait are not told.                                 *)
Wake(ops) == [t \in Workers |->
  IF place[t] = "wait" /\ TheOp(t).op \in ops THEN "run" ELSE place[t]]

(* queue.Queue.full()                                                       *)
FullOffByOne == 0 < MaxSize /\ MaxSize < Len(buf)
Full == 0 < MaxSize /\ MaxSize <= Len(buf)

(* send and try_send, when there is room.                                   *)
Put(t) == /\ Calls(t, {"send", "try_send"})
          /\ ~closed /\ ~Full
          /\ buf' = Append(buf, TheOp(t).item)
          /\ sent' = Append(sent, TheOp(t).item)
          /\ place' = Wake({"recv"})
          /\ recvEvent' = FALSE
          /\ Return(t, "ok", TheOp(t).item)
          /\ UNCHANGED <<closed, given>>

(* try_send on a full channel, try_recv on an empty one.                    *)
GiveUp(t) == /\ \/ Calls(t, {"try_send"}) /\ ~closed /\ Full
                \/ Calls(t, {"try_recv"}) /\ buf = <<>>
             /\ Return(t, "not_now", TheOp(t).item)
             /\ UNCHANGED <<buf, closed, recvEvent, place, sent, given>>

(* recv and try_recv, when there is an item.                                *)
GetNewest(t) == /\ Calls(t, {"recv", "try_recv"})
                /\ buf # <<>>
                /\ buf' = SubSeq(buf, 1, Len(buf) - 1)
                /\ given' = given + 1
                /\ place' = Wake({"send"})
                /\ Return(t, "ok", buf[Len(buf)])
                /\ UNCHANGED <<closed, recvEvent, sent>>
Get(t) == /\ Calls(t, {"recv", "try_recv"})
          /\ buf # <<>>
          /\ buf' = Tail(buf)
          /\ given' = given + 1
          /\ place' = Wake({"send"})
          /\ Return(t, "ok", Head(buf))
          /\ UNCHANGED <<closed, recvEvent, sent>>

(* ChannelClosed from a send; None from a recv that finds nothing left.     *)
Drained == buf = <<>>
TooLate(t) == /\ closed
              /\ \/ Calls(t, {"send", "try_send"})
                 \/ Calls(t, {"recv"}) /\ Drained
              /\ Return(t, "closed", TheOp(t).item)
              /\ UNCHANGED <<buf, closed, recvEvent, place, sent, given>>

(* Nothing to do for a send or a recv but to wait: the lock is released.    *)
LeaveLock(t) == /\ \/ Calls(t, {"send"}) /\ ~closed /\ Full
                   \/ Calls(t, {"recv"}) /\ ~closed /\ buf = <<>>
                /\ place' = [place EXCEPT ![t] = "park"]
                /\ UNCHANGED <<buf, closed, recvEvent, answers, sent, given>>

(* Event.wait: returns at once when the event is set.                       *)
Park(t) ==
  /\ place[t] = "park"
  /\ place' = [place EXCEPT ![t] = IF TheOp(t).op = "recv" /\ recvEvent THEN "run" ELSE "wait"]
  /\ UNCHANGED <<buf, closed, recvEvent, answers, sent, given>>

(* timeout=0.001                                                            *)
WaitForEver(t) == /\ place[t] = "wait"
                  /\ UNCHANGED channelVars
Timeout(t) == /\ place[t] = "wait"
              /\ place' = [place EXCEPT ![t] = "run"]
              /\ UNCHANGED <<buf, closed, recvEvent, answers, sent, given>>

(* close() sets the event for good: only a later send would clear it.       *)
Close(t) == /\ Calls(t, {"close"})
            /\ closed' = TRUE
            /\ recvEvent' = TRUE
            /\ place' = Wake({"recv"})
            /\ Return(t, "ok", TheOp(t).item)
            /\ UNCHANGED <<buf, sent, given>>

WorkerStep(t) == \/ Put(t) \/ GiveUp(t) \/ Get(t) \/ TooLate(t) \/ LeaveLock(t)
                 \/ Park(t) \/ Timeout(t) \/ Close(t)

Finished(t) == place[t] = "run" /\ ~HasOp(t)

(* The threads are joined.                                                  *)
Joined == (\A t \in Workers : Finished(t)) /\ UNCHANGED channelVars

ChannelNext == (\E t \in Workers : WorkerStep(t)) \/ Joined

ChannelSpec == ChannelInit /\ [][ChannelNext]_channelVars

(* Each thread is scheduled; a wait ends at its timeout.                    *)
ChannelFairSpec == ChannelSpec /\ \A t \in Workers : WF_channelVars(WorkerStep(t))
--------------------------------------------------------------------------------
(* recv returns None only when nothing is left and nothing will come        *)
(* (line 59): it stays so although other threads go on calling send.        *)
NoneMeansTheEnd ==
  (\E t \in Workers : ToldClosed(t) /\ Ops[t][Len(answers[t])].op = "recv") => buf = <<>>

(* Every call returns in the end: an item that finds room wakes a receiver, *)
(* or the timeout does, whatever the receiver was about to do when the      *)
(* event was set and cleared.                                               *)
ChannelCallsReturn == <>(\A t \in Workers : Finished(t))

(* The calls behave as if they were made one at a time on a FIFO channel.   *)
Fifo == INSTANCE AtomicChannel WITH log <- sent, Threads <- Workers
ChannelCallsAreAtomic == Fifo!Spec

--------------------------------------------------------------------------------
(* The buffer is the part of the items put that has not been given yet, and *)
(* never more of them than there is room for.                               *)
BufferInv == /\ Len(sent) = given + Len(buf)
             /\ 0 < MaxSize => Len(buf) <= MaxSize
             /\ \A i \in 1..Len(buf) : buf[i] = sent[given + i]

(* A thread waits only inside a blocking call.                              *)
WaitInv == \A t \in Workers : place[t] # "run" => HasOp(t) /\ TheOp(t).op \in {"send", "recv"}

(* Only a closed channel is ever said to be closed.                         *)
EndInv == \A t \in Workers : ToldClosed(t) => closed

(* The inductive invariant of the proofs: it is what makes _buf and _closed *)
(* the state of AtomicChannel at every step.                                *)
ChannelInv == ChannelTypeOK /\ BufferInv /\ WaitInv /\ EndInv
================================================================================
