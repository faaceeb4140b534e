---------------------------- MODULE CondBuffersProofs ---------------------------
(****************************************************************************)
(* The buffers on condition variables for any threads, calls and sizes:     *)
(* items in order and exactly once, capacity, the end of the stream, and    *)
(* that no thread sleeps through what it waits for.                         *)
(****************************************************************************)
EXTENDS CondBuffers, FiniteSetTheorems, TLAPS

Status == {"ok", "closed", "refused"}
Places == {"run", "asleep", "woken", "notify"}

LEMMA Appended ==
  ASSUME NEW S, NEW q \in Seq(S), NEW e \in S
  PROVE  /\ Append(q, e) \in Seq(S) /\ Len(Append(q, e)) = Len(q) + 1
         /\ Append(q, e)[Len(q) + 1] = e /\ Append(q, e) # <<>>
OBVIOUS

LEMMA Element ==
  ASSUME NEW S, NEW q \in Seq(S), NEW i \in 1..Len(q)
  PROVE  q[i] \in S
OBVIOUS

(* A history that is cut where the buffer begins stays so cut, when an item *)
(* is put at the end or the first is taken.                                 *)
LEMMA AppendedBehind ==
  ASSUME NEW S, NEW p \in Seq(S), NEW q \in Seq(S), NEW e \in S
  PROVE  Append(p \o q, e) = p \o Append(q, e)
OBVIOUS

LEMMA PutAtTheEnd ==
  ASSUME NEW S, NEW p \in Seq(S), NEW q \in Seq(S), NEW e \in S, NEW h, NEW h2, NEW q2
  PROVE  h = p \o q /\ h2 = Append(h, e) /\ q2 = Append(q, e) => h2 = p \o q2
<1>1. Append(p \o q, e) = p \o Append(q, e)
  OBVIOUS
<1> SUFFICES ASSUME h = p \o q, h2 = Append(h, e), q2 = Append(q, e)
             PROVE  h2 = p \o q2
  OBVIOUS
<1> QED BY <1>1, Zenon

LEMMA TakenFromTheFront ==
  ASSUME NEW S, NEW p \in Seq(S), NEW q \in Seq(S), q # <<>>
  PROVE  /\ Append(p, Head(q)) \o Tail(q) = p \o q
         /\ Head(q) \in S /\ Tail(q) \in Seq(S) /\ Len(Tail(q)) = Len(q) - 1 /\ Len(q) > 0
OBVIOUS

LEMMA TheOps ==
  ASSUME TypeOK, NEW t \in Threads
  PROVE  /\ Ops[kind][t] \in Seq([op : Methods[kind], item : Items])
         /\ Size[kind] \in Nat /\ answers[t] \in Seq(Status)
BY BuffersAssumption DEF TypeOK, Status

LEMMA CurrentOp ==
  ASSUME TypeOK, NEW t \in Threads, HasOp(t)
  PROVE  TheOp(t).op \in Methods[kind] /\ TheOp(t).item \in Items
<1>1. Ops[kind][t] \in Seq([op : Methods[kind], item : Items]) /\ answers[t] \in Seq(Status)
  BY TheOps
<1>2. Len(answers[t]) + 1 \in 1..Len(Ops[kind][t])
  BY <1>1 DEF HasOp
<1>3. TheOp(t) \in [op : Methods[kind], item : Items]
  BY <1>1, <1>2, Element, Zenon DEF TheOp
<1> QED BY <1>3

(* A call that returns adds one answer of its thread, and nobody gets a call*)
(* to make that he had not.                                                 *)
LEMMA Answered ==
  ASSUME TypeOK, NEW t \in Threads, HasOp(t), kind' = kind,
         NEW status \in Status, Answer(t, status)
  PROVE  /\ DOMAIN answers' = Threads
         /\ \A u \in Threads : answers'[u] \in Seq(Status)
         /\ \A u \in Threads \ {t} : /\ answers'[u] = answers[u]
                                     /\ HasOp(u)' <=> HasOp(u)
                                     /\ TheOp(u)' = TheOp(u)
                                     /\ ToldClosed(u)' <=> ToldClosed(u)
         /\ ToldClosed(t)' <=> status = "closed"
         /\ \A u \in Threads : HasOp(u)' => HasOp(u)
<1>1. /\ DOMAIN answers' = Threads
      /\ answers'[t] = Append(answers[t], status)
      /\ \A u \in Threads \ {t} : answers'[u] = answers[u]
  BY DEF TypeOK, Answer
<1>2. /\ answers'[t] \in Seq(Status) /\ answers'[t] # <<>>
      /\ Len(answers'[t]) = Len(answers[t]) + 1
      /\ answers'[t][Len(answers[t]) + 1] = status
  <2>1. answers[t] \in Seq(Status)
    BY TheOps
  <2>2. /\ Append(answers[t], status) \in Seq(Status) /\ Append(answers[t], status) # <<>>
        /\ Len(Append(answers[t], status)) = Len(answers[t]) + 1
        /\ Append(answers[t], status)[Len(answers[t]) + 1] = status
    BY <2>1, Appended
  <2> QED BY <1>1, <2>2
<1>3. ToldClosed(t)' <=> status = "closed"
  BY <1>2 DEF ToldClosed
<1>4. \A u \in Threads \ {t} : /\ HasOp(u)' <=> HasOp(u)
                               /\ TheOp(u)' = TheOp(u)
                               /\ ToldClosed(u)' <=> ToldClosed(u)
  BY <1>1 DEF HasOp, TheOp, ToldClosed
<1>5. \A u \in Threads : answers'[u] \in Seq(Status)
  BY <1>1, <1>2, TheOps
<1> QED BY <1>1, <1>3, <1>4, <1>5

--------------------------------------------------------------------------------
(* Notifications wake sleepers and do nothing else to other threads.        *)
OnlyWakes(t) == /\ pc' \in [Threads -> Places] /\ pc'[t] \in {"run", "notify"}
                /\ \A u \in Threads \ {t} : \/ pc'[u] = pc[u]
                                            \/ pc[u] = "asleep" /\ pc'[u] = "woken"

LEMMA AllWake ==
  ASSUME TypeOK, NEW t \in Threads, NEW ops, WakeAll(t, ops)
  PROVE  /\ OnlyWakes(t) /\ pc'[t] = "run"
         /\ \A u \in Threads : pc'[u] = "asleep" => TheOp(u).op \notin ops
BY DEF TypeOK, WakeAll, OnlyWakes, Places

LEMMA OneWakes ==
  ASSUME TypeOK, NEW t \in Threads, pc[t] # "asleep", NEW op, WakeOne(t, op)
  PROVE  /\ OnlyWakes(t) /\ pc'[t] = "run"
         /\ Asleep(op) # {} => \E w \in Asleep(op) : w # t /\ pc'[w] = "woken"
<1>1. CASE Asleep(op) = {}
  BY <1>1 DEF TypeOK, WakeOne, OnlyWakes, Places
<1>2. CASE Asleep(op) # {}
  <2>1. PICK w \in Asleep(op) : pc' = [pc EXCEPT ![t] = "run", ![w] = "woken"]
    BY <1>2 DEF WakeOne
  <2>2. w \in Threads /\ w # t /\ pc[w] = "asleep"
    BY <2>1 DEF Asleep
  <2> QED BY <2>1, <2>2 DEF TypeOK, OnlyWakes, Places
<1> QED BY <1>1, <1>2

LEMMA Notified ==
  ASSUME TypeOK, NEW t \in Threads, pc[t] \in {"run", "woken"}, NEW op,
         Notify(t, op) \/ NotifyClose(t)
  PROVE  OnlyWakes(t)
<1>1. CASE pc' = [pc EXCEPT ![t] = "notify"]
  BY <1>1 DEF TypeOK, OnlyWakes, Places
<1>2. CASE WakeAll(t, {"send", "recv"})
  BY <1>2, AllWake
<1>3. CASE WakeOne(t, op)
  BY <1>3, OneWakes
<1> QED BY <1>1, <1>2, <1>3 DEF Notify, NotifyClose

--------------------------------------------------------------------------------
LEMMA InitOK == Init => IInv /\ NobodySleepsThrough
<1> SUFFICES ASSUME Init PROVE IInv /\ NobodySleepsThrough
  OBVIOUS
<1>1. /\ kind \in Kinds /\ buf = <<>> /\ sent = <<>> /\ taken = <<>> /\ closed = FALSE
      /\ pc = [t \in Threads |-> "run"] /\ answers = [t \in Threads |-> <<>>]
  BY DEF Init
<1>2. Size[kind] \in Nat
  BY <1>1, BuffersAssumption
<1>3. TypeOK
  <2>1. \A t \in Threads : answers[t] \in Seq({"ok", "closed", "refused"})
    BY <1>1
  <2>2. /\ buf \in Seq(Items) /\ sent \in Seq(Items) /\ taken \in Seq(Items)
        /\ DOMAIN answers = Threads
        /\ pc \in [Threads -> {"run", "asleep", "woken", "notify"}]
    BY <1>1
  <2> QED BY <1>1, <2>1, <2>2, Zenon DEF TypeOK
<1>4. BufferInv
  BY <1>1, <1>2 DEF BufferInv
<1>5. CallInv /\ CloseInv /\ EndIsTheEnd
  BY <1>1 DEF CallInv, CloseInv, EndIsTheEnd, ToldClosed
<1>6. NobodySleepsThrough
  BY <1>1 DEF NobodySleepsThrough, NobodySleepsThroughSend, NobodySleepsThroughRecv, Asleep
<1> QED BY <1>3, <1>4, <1>5, <1>6 DEF IInv

LEMMA PutKeepsBuffer ==
  ASSUME TypeOK, BufferInv, Room, NEW item \in Items, kind' = kind,
         buf' = Append(buf, item), sent' = Append(sent, item), taken' = taken
  PROVE  BufferInv' /\ buf' \in Seq(Items) /\ sent' \in Seq(Items) /\ Len(buf') = Len(buf) + 1
<1>1. buf \in Seq(Items) /\ sent \in Seq(Items) /\ taken \in Seq(Items)
      /\ Size[kind] \in Nat /\ kind \in Kinds
  BY BuffersAssumption DEF TypeOK
<1>2. /\ buf' \in Seq(Items) /\ Len(buf') = Len(buf) + 1 /\ sent' \in Seq(Items)
  BY <1>1, Appended
<1>3. sent' = taken' \o buf'
  <2>1. sent = taken \o buf
    BY DEF BufferInv
  <2>2. sent' = taken \o buf'
    BY <1>1, <2>1, PutAtTheEnd, Z3T(30)
  <2> QED BY <2>2
<1>4. Len(buf) \in Nat /\ (buf = <<>> => Len(buf) = 0)
  BY <1>1
<1> QED BY <1>1, <1>2, <1>3, <1>4 DEF BufferInv, Room

LEMMA GetKeepsBuffer ==
  ASSUME TypeOK, BufferInv, buf # <<>>, kind' = kind,
         buf' = Tail(buf), taken' = Append(taken, Head(buf)), sent' = sent
  PROVE  BufferInv' /\ buf' \in Seq(Items) /\ taken' \in Seq(Items)
         /\ Len(buf') = Len(buf) - 1 /\ Len(buf) > 0
<1>1. buf \in Seq(Items) /\ sent \in Seq(Items) /\ taken \in Seq(Items)
      /\ Size[kind] \in Nat /\ kind \in Kinds
  BY BuffersAssumption DEF TypeOK
<1>2. /\ taken' \o buf' = taken \o buf /\ Head(buf) \in Items /\ buf' \in Seq(Items)
      /\ Len(buf') = Len(buf) - 1 /\ Len(buf) > 0
  BY <1>1, TakenFromTheFront
<1>3. taken' \in Seq(Items)
  BY <1>1, <1>2, Appended
<1>4. Len(buf) \in Nat /\ Len(buf') \in Nat
  BY <1>1, <1>2
<1>5. sent' = taken' \o buf'
  BY <1>2 DEF BufferInv
<1>6. Len(buf') <= Len(buf)
  BY <1>2, <1>4
<1>7. /\ kind \in {"python", "cpp"} => Len(buf') <= Size[kind]
      /\ kind \in {"channel", "asyncio"} => Size[kind] = 0 \/ Len(buf') <= Size[kind]
      /\ kind = "java" => Len(buf') <= 1 \/ Len(buf') <= Size[kind]
  BY <1>1, <1>4, <1>6 DEF BufferInv
<1> QED BY <1>2, <1>3, <1>5, <1>7 DEF BufferInv

(* On a closed buffer nothing is put: the C++ channel refuses, and the      *)
(* producers of the C++ buffer have been joined before it was closed.       *)
LEMMA NothingPutAfterClose ==
  ASSUME IInv, NEW t \in Threads, Calls(t, {"send", "trySend"}), MaySend
  PROVE  ~closed
<1> SUFFICES ASSUME closed PROVE FALSE
  OBVIOUS
<1>1. TypeOK /\ CloseInv /\ HasOp(t)
  BY DEF IInv, Calls
<1>2. kind = "cpp"
  BY <1>1 DEF CloseInv, MaySend
<1>3. TheOp(t).op \in {"send", "recv", "close"}
  BY <1>1, <1>2, CurrentOp DEF Methods
<1>4. TheOp(t).op = "send"
  BY <1>3 DEF Calls
<1>5. Len(answers[t]) + 1 \in DOMAIN Ops[kind][t]
  <2>1. Ops[kind][t] \in Seq([op : Methods[kind], item : Items]) /\ answers[t] \in Seq(Status)
    BY <1>1, TheOps
  <2> QED BY <1>1, <2>1 DEF HasOp
<1>6. Sends(t)
  BY <1>4, <1>5 DEF Sends, TheOp
<1> QED BY <1>1, <1>2, <1>6 DEF CloseInv

(* What is left to show of a step in which a call returns, when the buffer  *)
(* is known to be in order.                                                 *)
LEMMA ReturnStep ==
  ASSUME IInv, NEW t \in Threads, HasOp(t), kind' = kind,
         NEW status \in Status, Answer(t, status),
         OnlyWakes(t) \/ (pc' = pc /\ pc[t] = "run"),
         closed' \in BOOLEAN, CloseInv',
         buf' \in Seq(Items), sent' \in Seq(Items), taken' \in Seq(Items), BufferInv',
         status = "closed" => closed /\ buf = <<>>,
         closed /\ buf = <<>> => closed' /\ buf' = <<>>
  PROVE  IInv'
<1>1. TypeOK /\ CallInv /\ CloseInv /\ EndIsTheEnd
  BY DEF IInv
<1>2. /\ DOMAIN answers' = Threads
      /\ \A u \in Threads : answers'[u] \in Seq(Status)
      /\ \A u \in Threads \ {t} : /\ HasOp(u)' <=> HasOp(u)
                                  /\ TheOp(u)' = TheOp(u)
                                  /\ ToldClosed(u)' <=> ToldClosed(u)
      /\ ToldClosed(t)' <=> status = "closed"
  BY <1>1, Answered
<1>3. pc' \in [Threads -> Places] /\ pc'[t] \in {"run", "notify"}
  BY <1>1 DEF OnlyWakes, TypeOK, Places
<1>4. TypeOK'
  BY <1>1, <1>2, <1>3 DEF TypeOK, Places, Status
<1>5. CallInv'
  <2> SUFFICES ASSUME NEW u \in Threads, pc'[u] \in {"asleep", "woken"}
               PROVE  HasOp(u)' /\ TheOp(u)'.op \in {"send", "recv"}
    BY DEF CallInv
  <2>1. u # t
    BY <1>3
  <2>2. pc[u] \in {"asleep", "woken"}
    BY <2>1 DEF OnlyWakes
  <2> QED BY <1>1, <1>2, <2>1, <2>2 DEF CallInv
<1>6. EndIsTheEnd'
  <2> SUFFICES ASSUME NEW u \in Threads, ToldClosed(u)' PROVE closed' /\ buf' = <<>>
    BY DEF EndIsTheEnd
  <2>1. closed /\ buf = <<>>
    BY <1>1, <1>2 DEF EndIsTheEnd
  <2> QED BY <2>1
<1> QED BY <1>4, <1>5, <1>6 DEF IInv

LEMMA CloseInvKept ==
  ASSUME IInv, NEW t \in Threads, HasOp(t), kind' = kind, closed' = closed,
         NEW status \in Status, Answer(t, status)
  PROVE  CloseInv'
<1>1. \A u \in Threads : (HasOp(u)' => HasOp(u)) /\ (Sends(u)' <=> Sends(u))
  BY Answered DEF IInv, Sends
<1> QED BY <1>1 DEF IInv, CloseInv

(* A step that only moves a thread in or out of a wait.                     *)
LEMMA WaitStep ==
  ASSUME IInv, pc' \in [Threads -> Places],
         \A u \in Threads : pc'[u] \in {"asleep", "woken"} =>
                             HasOp(u) /\ TheOp(u).op \in {"send", "recv"},
         UNCHANGED <<kind, buf, closed, answers, sent, taken>>
  PROVE  IInv'
<1>1. TypeOK'
  BY DEF IInv, TypeOK, Places
<1>2. CallInv' /\ EndIsTheEnd' /\ BufferInv' /\ CloseInv'
  BY DEF IInv, CallInv, EndIsTheEnd, BufferInv, CloseInv, HasOp, TheOp, ToldClosed, Sends
<1> QED BY <1>1, <1>2 DEF IInv

LEMMA StepOK == ASSUME IInv, NEW t \in Threads, LockedStep(t) \/ WakeForNothing(t) PROVE IInv'
<1>0. TypeOK /\ BufferInv /\ CallInv /\ CloseInv /\ closed \in BOOLEAN
      /\ buf \in Seq(Items) /\ sent \in Seq(Items) /\ taken \in Seq(Items) /\ pc \in [Threads -> Places]
  BY DEF IInv, TypeOK, Places
<1>1. CASE Put(t)
  <2>1. /\ HasOp(t) /\ pc[t] \in {"run", "woken"} /\ Calls(t, {"send", "trySend"})
        /\ kind' = kind /\ closed' = closed /\ taken' = taken
        /\ buf' = Append(buf, TheOp(t).item) /\ sent' = Append(sent, TheOp(t).item)
        /\ Answer(t, "ok") /\ MaySend /\ Notify(t, "recv")
    BY <1>1 DEF Put, Calls
  <2>2. BufferInv' /\ buf' \in Seq(Items) /\ sent' \in Seq(Items) /\ taken' \in Seq(Items)
    BY <1>0, <2>1, CurrentOp, PutKeepsBuffer DEF MaySend
  <2>3. CloseInv' /\ OnlyWakes(t) /\ ~closed /\ "ok" \in Status
    BY <1>0, <2>1, CloseInvKept, Notified, NothingPutAfterClose DEF Status
  <2> QED BY <1>0, <2>1, <2>2, <2>3, ReturnStep
<1>2. CASE Get(t)
  <2>1. /\ HasOp(t) /\ pc[t] \in {"run", "woken"} /\ buf # <<>>
        /\ kind' = kind /\ closed' = closed /\ sent' = sent
        /\ buf' = Tail(buf) /\ taken' = Append(taken, Head(buf))
        /\ Answer(t, "ok") /\ Notify(t, "send")
    BY <1>2 DEF Get, Calls
  <2>2. BufferInv' /\ buf' \in Seq(Items) /\ sent' \in Seq(Items) /\ taken' \in Seq(Items)
    BY <1>0, <2>1, GetKeepsBuffer
  <2>3. CloseInv' /\ OnlyWakes(t) /\ "ok" \in Status
    BY <1>0, <2>1, CloseInvKept, Notified DEF Status
  <2> QED BY <1>0, <2>1, <2>2, <2>3, ReturnStep
<1>3. CASE GetEnd(t)
  <2>1. /\ HasOp(t) /\ pc[t] \in {"run", "woken"} /\ closed /\ buf = <<>>
        /\ UNCHANGED <<kind, buf, closed, sent, taken>>
        /\ Answer(t, "closed") /\ pc' = [pc EXCEPT ![t] = "run"]
    BY <1>3 DEF GetEnd, Calls, AtEmptyEnd
  <2>2. CloseInv' /\ OnlyWakes(t) /\ "closed" \in Status
    BY <1>0, <2>1, CloseInvKept DEF Status, OnlyWakes, Places
  <2>3. BufferInv'
    BY <1>0, <2>1 DEF BufferInv
  <2> QED BY <1>0, <2>1, <2>2, <2>3, ReturnStep
<1>4. CASE Sleep(t)
  <2>1. /\ HasOp(t) /\ TheOp(t).op \in {"send", "recv"}
        /\ pc' = [pc EXCEPT ![t] = "asleep"]
        /\ UNCHANGED <<kind, buf, closed, answers, sent, taken>>
    BY <1>4 DEF Sleep, Calls
  <2>2. pc' \in [Threads -> Places]
    BY <1>0, <2>1 DEF Places
  <2>3. \A u \in Threads : pc'[u] \in {"asleep", "woken"} =>
                           HasOp(u) /\ TheOp(u).op \in {"send", "recv"}
    BY <1>0, <2>1 DEF CallInv
  <2> QED BY <2>1, <2>2, <2>3, WaitStep
<1>5. CASE Refuse(t)
  <2>1. /\ HasOp(t) /\ pc[t] \in {"run", "woken"} /\ TheOp(t).op \in {"trySend", "tryRecv"}
        /\ UNCHANGED <<kind, buf, closed, pc, sent, taken>>
        /\ Answer(t, "refused")
    BY <1>5 DEF Refuse, Calls
  <2>2. pc[t] = "run"
    BY <1>0, <2>1 DEF CallInv
  <2>3. CloseInv' /\ BufferInv' /\ "refused" \in Status
    BY <1>0, <2>1, CloseInvKept DEF Status, BufferInv
  <2> QED BY <1>0, <2>1, <2>2, <2>3, ReturnStep
<1>6. CASE Close(t)
  <2>1. /\ HasOp(t) /\ pc[t] \in {"run", "woken"} /\ TheOp(t).op = "close"
        /\ kind = "cpp" => ProducersJoined
        /\ UNCHANGED <<kind, buf, sent, taken>> /\ closed' = TRUE
        /\ Answer(t, "ok") /\ NotifyClose(t)
    BY <1>6 DEF Close, Calls
  <2>2. kind \in {"cpp", "channel"}
    <3>1. "close" \in Methods[kind] /\ kind \in DOMAIN Methods
      BY <1>0, <2>1, CurrentOp, BuffersAssumption DEF TypeOK
    <3> QED BY <3>1 DEF Methods
  <2>3. CloseInv'
    <3>1. \A u \in Threads : (HasOp(u)' => HasOp(u)) /\ (Sends(u)' <=> Sends(u))
      <4>1. \A u \in Threads : HasOp(u)' => HasOp(u)
        BY <1>0, <2>1, Answered DEF Status
      <4> QED BY <2>1, <4>1 DEF Sends
    <3> QED BY <2>1, <2>2, <3>1 DEF CloseInv, ProducersJoined
  <2>4. BufferInv' /\ OnlyWakes(t) /\ "ok" \in Status
    BY <1>0, <2>1, Notified DEF Status, BufferInv
  <2> QED BY <1>0, <2>1, <2>3, <2>4, ReturnStep
<1>7. CASE NotifyUnlocked(t)
  <2>1. /\ pc[t] = "notify" /\ WakeAll(t, {"send", "recv"})
        /\ UNCHANGED <<kind, buf, closed, answers, sent, taken>>
    BY <1>7 DEF NotifyUnlocked
  <2>2. OnlyWakes(t) /\ pc'[t] = "run"
    BY <1>0, <2>1, AllWake
  <2>3. \A u \in Threads : pc'[u] \in {"asleep", "woken"} =>
                           HasOp(u) /\ TheOp(u).op \in {"send", "recv"}
    BY <1>0, <2>2 DEF CallInv, OnlyWakes
  <2> QED BY <2>1, <2>2, <2>3, WaitStep DEF OnlyWakes
<1>8. CASE WakeForNothing(t)
  <2>1. /\ pc[t] = "asleep" /\ pc' = [pc EXCEPT ![t] = "woken"]
        /\ UNCHANGED <<kind, buf, closed, answers, sent, taken>>
    BY <1>8 DEF WakeForNothing
  <2>2. pc' \in [Threads -> Places]
    BY <1>0, <2>1 DEF Places
  <2>3. \A u \in Threads : pc'[u] \in {"asleep", "woken"} =>
                           HasOp(u) /\ TheOp(u).op \in {"send", "recv"}
    BY <1>0, <2>1 DEF CallInv
  <2> QED BY <2>1, <2>2, <2>3, WaitStep
<1> QED BY <1>1, <1>2, <1>3, <1>4, <1>5, <1>6, <1>7, <1>8 DEF LockedStep

LEMMA NextOK == IInv /\ [Next]_vars => IInv'
<1> SUFFICES ASSUME IInv, [Next]_vars PROVE IInv'
  OBVIOUS
<1>1. CASE UNCHANGED vars
  BY <1>1 DEF vars, IInv, TypeOK, BufferInv, CallInv, CloseInv, EndIsTheEnd, HasOp, TheOp, ToldClosed, Sends
<1>2. CASE Next
  BY <1>1, <1>2, StepOK DEF Next, Joined
<1> QED BY <1>1, <1>2

(* Of every buffer, for any threads and programs: what was put in and not   *)
(* taken out is in the buffer, in order and within its capacity; who sleeps *)
(* is inside send or recv; nobody has a call to send left once the C++      *)
(* buffer is done; and who was told "closed" has missed nothing.            *)
THEOREM Invariance == Spec => []IInv
<1>1. Init => IInv
  BY InitOK
<1>2. IInv /\ [Next]_vars => IInv'
  BY NextOK
<1> QED BY <1>1, <1>2, PTL DEF Spec

--------------------------------------------------------------------------------
(* Nobody sleeps through what he waits for.  A thread that is not asleep    *)
(* does something; u is another one, whose call stays as it is.             *)
OthersStay(t) == \A u \in Threads \ {t} : TheOp(u)' = TheOp(u)

LEMMA Waiting ==
  ASSUME TypeOK, NEW op
  PROVE  /\ IsFiniteSet(Asleep(op)) /\ IsFiniteSet(Woken(op))
         /\ Cardinality(Woken(op)) \in Nat
         /\ Woken(op) # {} => Cardinality(Woken(op)) >= 1
<1>1. Asleep(op) \subseteq Threads /\ Woken(op) \subseteq Threads
  BY DEF Asleep, Woken
<1>2. IsFiniteSet(Asleep(op)) /\ IsFiniteSet(Woken(op))
  BY <1>1, BuffersAssumption, FS_Subset
<1> QED BY <1>2, FS_CardinalityType, FS_EmptySet

(* How the sets of sleepers and of woken threads change when t, which may   *)
(* have been woken itself, is done and others wake.                         *)
LEMMA WokenStay ==
  ASSUME TypeOK, NEW t \in Threads, OnlyWakes(t), OthersStay(t), NEW op
  PROVE  /\ Woken(op) \ {t} \subseteq Woken(op)'
         /\ Asleep(op)' \subseteq Asleep(op)
         /\ pc[t] # "notify" => (Notifying => Notifying')
         /\ IsFiniteSet(Woken(op)') /\ Cardinality(Woken(op)') \in Nat
         /\ Woken(op)' # {} => Cardinality(Woken(op)') >= 1
         /\ Cardinality(Woken(op)') >= Cardinality(Woken(op)) - 1
         /\ t \notin Woken(op) => Cardinality(Woken(op)') >= Cardinality(Woken(op))
<1>1. Woken(op) \ {t} \subseteq Woken(op)' /\ Asleep(op)' \subseteq Asleep(op)
  BY DEF Woken, Asleep, OnlyWakes, OthersStay
<1>2. pc[t] # "notify" => (Notifying => Notifying')
  BY DEF Notifying, OnlyWakes
<1>3. Woken(op)' \subseteq Threads
  BY DEF Woken
<1>4. IsFiniteSet(Woken(op)') /\ IsFiniteSet(Woken(op)) /\ Cardinality(Woken(op)') \in Nat
      /\ Cardinality(Woken(op)) \in Nat
      /\ (Woken(op)' # {} => Cardinality(Woken(op)') >= 1)
  BY <1>3, Waiting, BuffersAssumption, FS_Subset, FS_CardinalityType, FS_EmptySet
<1>5. Cardinality(Woken(op) \ {t}) <= Cardinality(Woken(op)')
  BY <1>1, <1>4, FS_Subset
<1>6. Cardinality(Woken(op) \ {t}) = IF t \in Woken(op) THEN Cardinality(Woken(op)) - 1
                                                      ELSE Cardinality(Woken(op))
  BY <1>4, FS_RemoveElement
<1> QED BY <1>1, <1>2, <1>4, <1>5, <1>6

(* A notification of one thread adds to those that are awake.               *)
LEMMA OneMoreAwake ==
  ASSUME TypeOK, NEW t \in Threads, pc[t] # "asleep", OthersStay(t),
         NEW op, t \notin Woken(op), WakeOne(t, op), Asleep(op)' # {}
  PROVE  Cardinality(Woken(op)') >= Cardinality(Woken(op)) + 1
<1>1. OnlyWakes(t) /\ (Asleep(op) # {} => \E w \in Asleep(op) : w # t /\ pc'[w] = "woken")
  BY OneWakes
<1>2. Woken(op) \ {t} \subseteq Woken(op)' /\ Asleep(op)' \subseteq Asleep(op) /\ IsFiniteSet(Woken(op)')
  BY <1>1, WokenStay
<1>3. PICK w \in Asleep(op) : w # t /\ pc'[w] = "woken"
  BY <1>1, <1>2
<1>4. w \in Woken(op)' /\ w \notin Woken(op)
  BY <1>3 DEF Woken, Asleep, OthersStay
<1>5. Woken(op) \subseteq Woken(op)' \ {w}
  BY <1>2, <1>4
<1>6. Cardinality(Woken(op)' \ {w}) = Cardinality(Woken(op)') - 1
  BY <1>2, <1>4, FS_RemoveElement
<1>7. Cardinality(Woken(op)) <= Cardinality(Woken(op)' \ {w})
  BY <1>2, <1>5, FS_Subset, FS_RemoveElement
<1>8. Cardinality(Woken(op)') \in Nat /\ Cardinality(Woken(op)) \in Nat
  BY <1>2, FS_CardinalityType, Waiting
<1> QED BY <1>6, <1>7, <1>8

LEMMA AllAwake ==
  ASSUME TypeOK, NEW t \in Threads, OthersStay(t), WakeAll(t, {"send", "recv"})
  PROVE  NobodySleepsThrough'
<1>1. OnlyWakes(t) /\ pc'[t] = "run"
      /\ \A u \in Threads : pc'[u] = "asleep" => TheOp(u).op \notin {"send", "recv"}
  BY AllWake
<1>2. Asleep("send")' = {} /\ Asleep("recv")' = {}
  BY <1>1 DEF Asleep, OthersStay
<1> QED BY <1>2 DEF NobodySleepsThrough, NobodySleepsThroughSend, NobodySleepsThroughRecv

LEMMA OneNotifies ==
  ASSUME TypeOK, NEW t \in Threads, pc' = [pc EXCEPT ![t] = "notify"]
  PROVE  NobodySleepsThrough'
<1>1. Notifying'
  BY DEF TypeOK, Notifying
<1> QED BY <1>1 DEF NobodySleepsThrough, NobodySleepsThroughSend, NobodySleepsThroughRecv

LEMMA SleepersCounted ==
  ASSUME IInv, NobodySleepsThrough,
         NEW t \in Threads, LockedStep(t) \/ WakeForNothing(t)
  PROVE  NobodySleepsThrough'
<1> DEFINE W(op) == Cardinality(Woken(op))
<1>0. /\ TypeOK /\ BufferInv /\ CallInv /\ kind \in Kinds /\ Size[kind] \in Nat
      /\ buf \in Seq(Items) /\ Len(buf) \in Nat /\ (buf = <<>> => Len(buf) = 0)
      /\ W("send") \in Nat /\ W("recv") \in Nat
  BY BuffersAssumption, Waiting DEF IInv, TypeOK
<1>00. /\ Asleep("send") # {} /\ MaySend => Notifying \/ W("send") >= Size[kind] - Len(buf)
       /\ Asleep("recv") # {} /\ MayRecv => Notifying \/ (~closed /\ W("recv") >= Len(buf))
  BY DEF NobodySleepsThrough, NobodySleepsThroughSend, NobodySleepsThroughRecv, Free
<1> DEFINE Send1 == Asleep("send")' # {} /\ MaySend' =>
                      Notifying' \/ W("send")' >= Size[kind'] - Len(buf')
           Recv1 == Asleep("recv")' # {} /\ MayRecv' =>
                      Notifying' \/ (~closed' /\ W("recv")' >= Len(buf'))
<1>000. Send1 /\ Recv1 => NobodySleepsThrough'
  BY DEF NobodySleepsThrough, NobodySleepsThroughSend, NobodySleepsThroughRecv, Free
<1>1. CASE Put(t)
  <2>1. /\ HasOp(t) /\ pc[t] \in {"run", "woken"} /\ TheOp(t).op \in {"send", "trySend"}
        /\ Calls(t, {"send", "trySend"}) /\ MaySend /\ Answer(t, "ok") /\ Notify(t, "recv")
        /\ kind' = kind /\ closed' = closed
        /\ buf' = Append(buf, TheOp(t).item)
    BY <1>1 DEF Put, Calls
  <2>2. OthersStay(t)
    BY <1>0, <2>1, Answered DEF OthersStay, Status
  <2>3. Len(buf') = Len(buf) + 1 /\ ~closed
    BY <1>0, <2>1, CurrentOp, Appended, NothingPutAfterClose
  <2>4. CASE WakeOne(t, "recv")
    <3>1. OnlyWakes(t)
      BY <1>0, <2>1, <2>4, OneWakes
    <3>2. t \notin Woken("recv")
      BY <2>1 DEF Woken
    <3>3. Recv1
      <4> SUFFICES ASSUME Asleep("recv")' # {}
                   PROVE  Notifying' \/ (~closed' /\ W("recv")' >= Len(buf'))
        OBVIOUS
      <4>1. W("recv")' >= W("recv") + 1 /\ W("recv")' \in Nat
        BY <1>0, <2>1, <2>2, <2>4, <3>1, <3>2, OneMoreAwake, WokenStay
      <4>2. Asleep("recv") # {} /\ (Notifying => Notifying')
        BY <1>0, <2>1, <2>2, <3>1, WokenStay
      <4>3. Notifying \/ W("recv") >= Len(buf)
        BY <1>0, <1>00, <4>2 DEF MayRecv
      <4> HIDE DEF W
      <4> QED BY <1>0, <2>1, <2>3, <4>1, <4>2, <4>3
    <3>4. Send1
      <4> SUFFICES ASSUME Asleep("send")' # {}
                   PROVE  Notifying' \/ W("send")' >= Size[kind'] - Len(buf')
        OBVIOUS
      <4>1. /\ Asleep("send") # {} /\ (Notifying => Notifying')
            /\ W("send")' \in Nat /\ W("send")' >= W("send") - 1
        BY <1>0, <2>1, <2>2, <3>1, WokenStay
      <4> HIDE DEF W
      <4> QED BY <1>0, <1>00, <2>1, <2>3, <4>1
    <3> QED BY <1>000, <3>3, <3>4
  <2> QED BY <1>0, <2>1, <2>2, <2>4, AllAwake, OneNotifies DEF Notify
<1>2. CASE Get(t)
  <2>1. /\ HasOp(t) /\ pc[t] \in {"run", "woken"} /\ TheOp(t).op \in {"recv", "tryRecv"}
        /\ buf # <<>> /\ Answer(t, "ok") /\ Notify(t, "send")
        /\ kind' = kind /\ closed' = closed /\ buf' = Tail(buf)
    BY <1>2 DEF Get, Calls
  <2>2. OthersStay(t)
    BY <1>0, <2>1, Answered DEF OthersStay, Status
  <2>3. Len(buf') = Len(buf) - 1 /\ Len(buf) > 0
    BY <1>0, <2>1, TakenFromTheFront
  <2>4. CASE WakeOne(t, "send")
    <3>1. OnlyWakes(t)
      BY <1>0, <2>1, <2>4, OneWakes
    <3>2. t \notin Woken("send")
      BY <2>1 DEF Woken
    <3>3. Send1
      <4> SUFFICES ASSUME Asleep("send")' # {}, MaySend'
                   PROVE  Notifying' \/ W("send")' >= Size[kind'] - Len(buf')
        OBVIOUS
      <4>1. W("send")' >= W("send") + 1 /\ W("send")' \in Nat
        BY <1>0, <2>1, <2>2, <2>4, <3>1, <3>2, OneMoreAwake, WokenStay
      <4>2. Asleep("send") # {} /\ (Notifying => Notifying')
        BY <1>0, <2>1, <2>2, <3>1, WokenStay
      <4>3. CASE MaySend
        <5> HIDE DEF W
        <5> QED BY <1>0, <1>00, <2>1, <2>3, <4>1, <4>2, <4>3
      <4>4. CASE ~MaySend
        <5>1. ~Room
          BY <2>1, <4>4 DEF MaySend
        <5>2. Size[kind] - Len(buf) <= 0
          BY <1>0, <5>1 DEF Room
        <5> HIDE DEF W
        <5> QED BY <1>0, <2>1, <2>3, <4>1, <5>2
      <4> QED BY <4>3, <4>4
    <3>4. Recv1
      <4> SUFFICES ASSUME Asleep("recv")' # {}
                   PROVE  Notifying' \/ (~closed' /\ W("recv")' >= Len(buf'))
        OBVIOUS
      <4>1. /\ Asleep("recv") # {} /\ (Notifying => Notifying')
            /\ W("recv")' \in Nat /\ W("recv")' >= W("recv") - 1
        BY <1>0, <2>1, <2>2, <3>1, WokenStay
      <4>2. Notifying \/ (~closed /\ W("recv") >= Len(buf))
        BY <1>00, <2>1, <4>1 DEF MayRecv
      <4> HIDE DEF W
      <4> QED BY <1>0, <2>1, <2>3, <4>1, <4>2
    <3> QED BY <1>000, <3>3, <3>4
  <2> QED BY <1>0, <2>1, <2>2, <2>4, AllAwake, OneNotifies DEF Notify
<1>3. CASE GetEnd(t) \/ Refuse(t)
  <2>1. /\ HasOp(t) /\ pc[t] \in {"run", "woken"} /\ UNCHANGED <<kind, buf, closed>>
        /\ \E status \in Status : Answer(t, status)
    BY <1>3 DEF GetEnd, Refuse, Calls, Status
  <2>2. OthersStay(t)
    BY <1>0, <2>1, Answered DEF OthersStay
  <2>3. OnlyWakes(t) /\ t \notin Woken("send") /\ (t \in Woken("recv") => closed)
    <3>1. CASE GetEnd(t)
      <4>1. closed /\ TheOp(t).op = "recv" /\ pc' = [pc EXCEPT ![t] = "run"]
        BY <3>1 DEF GetEnd, Calls
      <4> QED BY <1>0, <4>1 DEF TypeOK, OnlyWakes, Woken, Places
    <3>2. CASE Refuse(t)
      <4>1. TheOp(t).op \in {"trySend", "tryRecv"} /\ pc' = pc
        BY <3>2 DEF Refuse, Calls
      <4>2. pc[t] = "run"
        BY <1>0, <2>1, <4>1 DEF CallInv
      <4> QED BY <1>0, <4>1, <4>2 DEF TypeOK, OnlyWakes, Woken, Places
    <3> QED BY <1>3, <3>1, <3>2
  <2>4. /\ Asleep("send")' \subseteq Asleep("send") /\ Asleep("recv")' \subseteq Asleep("recv")
        /\ (Notifying => Notifying')
        /\ W("send")' \in Nat /\ W("send")' >= W("send")
        /\ W("recv")' \in Nat /\ (~closed => W("recv")' >= W("recv"))
    BY <1>0, <2>1, <2>2, <2>3, WokenStay
  <2>5. (MaySend' => MaySend) /\ (MayRecv' => MayRecv)
    BY <2>1 DEF MaySend, MayRecv, Room
  <2>6. Send1
    <3> HIDE DEF W
    <3> QED BY <1>0, <1>00, <2>1, <2>4, <2>5
  <2>7. Recv1
    <3> HIDE DEF W
    <3> QED BY <1>0, <1>00, <2>1, <2>4, <2>5
  <2> QED BY <1>000, <2>6, <2>7
<1>4. CASE Sleep(t)
  <2>1. /\ pc' = [pc EXCEPT ![t] = "asleep"] /\ pc[t] \in {"run", "woken"}
        /\ UNCHANGED <<kind, buf, closed, answers>>
        /\ \/ TheOp(t).op = "send" /\ ~MaySend
           \/ TheOp(t).op = "recv" /\ ~MayRecv
    BY <1>4 DEF Sleep, Calls
  <2>2. \A u \in Threads : TheOp(u)' = TheOp(u)
    BY <2>1 DEF TheOp
  <2>3. (MaySend' <=> MaySend) /\ (MayRecv' <=> MayRecv) /\ (Notifying => Notifying')
    BY <1>0, <2>1 DEF MaySend, MayRecv, Room, TypeOK, Notifying
  <2>4. TheOp(t).op = "send" => Asleep("recv")' = Asleep("recv") /\ Woken("recv")' = Woken("recv")
    BY <1>0, <2>1, <2>2 DEF Asleep, Woken, TypeOK
  <2>5. TheOp(t).op = "recv" => Asleep("send")' = Asleep("send") /\ Woken("send")' = Woken("send")
    BY <1>0, <2>1, <2>2 DEF Asleep, Woken, TypeOK
  <2>6. CASE TheOp(t).op = "send" /\ ~MaySend
    BY <1>00, <1>000, <2>1, <2>3, <2>4, <2>6
  <2>7. CASE TheOp(t).op = "recv" /\ ~MayRecv
    BY <1>00, <1>000, <2>1, <2>3, <2>5, <2>7
  <2> QED BY <2>1, <2>6, <2>7
<1>5. CASE Close(t)
  <2>1. HasOp(t) /\ Answer(t, "ok") /\ kind' = kind /\ NotifyClose(t)
    BY <1>5 DEF Close, Calls
  <2>2. OthersStay(t)
    BY <1>0, <2>1, Answered DEF OthersStay, Status
  <2> QED BY <1>0, <2>1, <2>2, AllAwake, OneNotifies DEF NotifyClose
<1>6. CASE NotifyUnlocked(t)
  <2>1. WakeAll(t, {"send", "recv"}) /\ OthersStay(t)
    BY <1>6 DEF NotifyUnlocked, OthersStay, TheOp
  <2> QED BY <1>0, <2>1, AllAwake
<1>7. CASE WakeForNothing(t)
  <2>1. /\ pc[t] = "asleep" /\ pc' = [pc EXCEPT ![t] = "woken"]
        /\ UNCHANGED <<kind, buf, closed, answers>>
    BY <1>7 DEF WakeForNothing
  <2>2. \A u \in Threads : TheOp(u)' = TheOp(u)
    BY <2>1 DEF TheOp
  <2>3. (MaySend' <=> MaySend) /\ (MayRecv' <=> MayRecv) /\ (Notifying => Notifying')
    BY <1>0, <2>1 DEF MaySend, MayRecv, Room, TypeOK, Notifying
  <2>4. \A op \in {"send", "recv"} : /\ Asleep(op)' \subseteq Asleep(op) /\ W(op)' \in Nat
                                   /\ W(op)' >= W(op)
    <3> SUFFICES ASSUME NEW op \in {"send", "recv"}
                 PROVE  Asleep(op)' \subseteq Asleep(op) /\ W(op)' \in Nat /\ W(op)' >= W(op)
      OBVIOUS
    <3>1. Woken(op) \subseteq Woken(op)' /\ Woken(op)' \subseteq Threads
          /\ Asleep(op)' \subseteq Asleep(op)
      BY <1>0, <2>1, <2>2 DEF Asleep, Woken, TypeOK
    <3> QED BY <3>1, BuffersAssumption, FS_Subset, FS_CardinalityType
  <2>5. Send1
    <3> HIDE DEF W
    <3> QED BY <1>0, <1>00, <2>1, <2>3, <2>4
  <2>6. Recv1
    <3> HIDE DEF W
    <3> QED BY <1>0, <1>00, <2>1, <2>3, <2>4
  <2> QED BY <1>000, <2>5, <2>6
<1> QED BY <1>1, <1>2, <1>3, <1>4, <1>5, <1>6, <1>7 DEF LockedStep

(* Whoever sleeps waits for something that is not so, or a notification is  *)
(* on its way to him, or as many threads are awake already as the buffer    *)
(* can serve: with notify_all and notify_one, whoever else takes the lock   *)
(* before a woken thread does.                                              *)
THEOREM NoLostWakeup == Spec => []NobodySleepsThrough
<1>1. Init => IInv /\ NobodySleepsThrough
  BY InitOK
<1>2. IInv /\ NobodySleepsThrough /\ [Next]_vars => IInv' /\ NobodySleepsThrough'
  <2> SUFFICES ASSUME IInv, NobodySleepsThrough, [Next]_vars PROVE IInv' /\ NobodySleepsThrough'
    OBVIOUS
  <2>1. IInv'
    BY NextOK
  <2>2. CASE UNCHANGED vars
    <3>1. UNCHANGED <<kind, buf, closed, pc, answers>>
      BY <2>2 DEF vars
    <3>2. \A op \in {"send", "recv"} : Asleep(op)' = Asleep(op) /\ Woken(op)' = Woken(op)
      BY <3>1 DEF Asleep, Woken, TheOp
    <3>3. Free' = Free /\ (MaySend' <=> MaySend) /\ (MayRecv' <=> MayRecv) /\ (Notifying' <=> Notifying)
      BY <3>1 DEF Free, MaySend, MayRecv, Room, Notifying
    <3> QED BY <2>1, <3>1, <3>2, <3>3 DEF NobodySleepsThrough, NobodySleepsThroughSend, NobodySleepsThroughRecv
  <2>3. CASE \E t \in Threads : LockedStep(t) \/ WakeForNothing(t)
    <3>1. PICK t \in Threads : LockedStep(t) \/ WakeForNothing(t)
      BY <2>3
    <3> QED BY <2>1, <3>1, SleepersCounted
  <2> QED BY <2>1, <2>2, <2>3 DEF Next, Joined
<1> QED BY <1>1, <1>2, PTL DEF Spec
================================================================================
