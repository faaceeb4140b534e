---------------------------- MODULE EchoServersProofs ---------------------------
(****************************************************************************)
(* The echo servers for any clients, descriptors and queue sizes, with all  *)
(* three poll interfaces: where every unit of a client is, which events are *)
(* still true, that no edge is lost, what ends the loop, and that each      *)
(* server is the EchoService to its clients.                                *)
(****************************************************************************)
EXTENDS EchoServers, WellFoundedInduction, FiniteSetTheorems, TLAPS

(* Sequences that grow at one end and shrink at the other.                  *)
LEMMA Appended ==
  ASSUME NEW S, NEW q \in Seq(S), NEW e \in S
  PROVE  /\ Append(q, e) \in Seq(S) /\ Len(Append(q, e)) = Len(q) + 1
         /\ \A i \in 1..Len(q) : Append(q, e)[i] = q[i]
         /\ Append(q, e)[Len(q) + 1] = e
OBVIOUS

LEMMA Beheaded ==
  ASSUME NEW S, NEW q \in Seq(S), q # <<>>
  PROVE  /\ Tail(q) \in Seq(S) /\ Len(Tail(q)) = Len(q) - 1 /\ Len(q) > 0
         /\ \A i \in 1..(Len(q) - 1) : Tail(q)[i] = q[i + 1]
         /\ Head(q) = q[1] /\ Head(q) \in S
OBVIOUS

LEMMA CutBehind ==
  ASSUME NEW S, NEW q \in Seq(S), NEW k \in 0..Len(q)
  PROVE  /\ SubSeq(q, k + 1, Len(q)) \in Seq(S) /\ Len(SubSeq(q, k + 1, Len(q))) = Len(q) - k
         /\ \A i \in 1..(Len(q) - k) : SubSeq(q, k + 1, Len(q))[i] = q[k + i]
OBVIOUS

LEMMA CutBefore ==
  ASSUME NEW S, NEW q \in Seq(S), NEW k \in 0..Len(q)
  PROVE  /\ SubSeq(q, 1, k) \in Seq(S) /\ Len(SubSeq(q, 1, k)) = k
         /\ \A i \in 1..k : SubSeq(q, 1, k)[i] = q[i]
OBVIOUS

LEMMA Joined ==
  ASSUME NEW S, NEW q \in Seq(S), NEW r \in Seq(S)
  PROVE  /\ q \o r \in Seq(S) /\ Len(q \o r) = Len(q) + Len(r)
         /\ \A i \in 1..Len(q) : (q \o r)[i] = q[i]
         /\ \A i \in 1..Len(r) : (q \o r)[Len(q) + i] = r[i]
OBVIOUS

(* The same for a stretch of the stream of a client.                        *)
LEMMA HoldsNothing ==
  ASSUME NEW c, NEW n PROVE Holds(<<>>, c, n)
BY DEF Holds

LEMMA HoldsAppended ==
  ASSUME NEW q \in Seq(Unit), NEW c, NEW n \in Nat, Holds(q, c, n),
         NEW u \in Unit, u = <<c, n + Len(q) + 1>>
  PROVE  Holds(Append(q, u), c, n)
<1>1. /\ Len(q) \in Nat /\ Len(Append(q, u)) = Len(q) + 1
      /\ \A i \in 1..Len(q) : Append(q, u)[i] = q[i]
      /\ Append(q, u)[Len(q) + 1] = u
  BY Appended
<1>2. \A i \in 1..(Len(q) + 1) : i \in 1..Len(q) \/ i = Len(q) + 1
  BY <1>1
<1>3. n + Len(q) + 1 = n + (Len(q) + 1)
  BY <1>1
<1> QED BY <1>1, <1>2, <1>3 DEF Holds

LEMMA HoldsBeheaded ==
  ASSUME NEW q \in Seq(Unit), NEW c, NEW n \in Nat, Holds(q, c, n), q # <<>>
  PROVE  Head(q) = <<c, n + 1>> /\ Holds(Tail(q), c, n + 1)
<1>1. /\ Len(q) \in Nat /\ Len(Tail(q)) = Len(q) - 1 /\ Len(q) > 0
      /\ \A i \in 1..(Len(q) - 1) : Tail(q)[i] = q[i + 1]
      /\ Head(q) = q[1]
  BY Beheaded
<1>2. \A i \in 1..(Len(q) - 1) : i + 1 \in 1..Len(q) /\ n + (i + 1) = n + 1 + i
  BY <1>1
<1>3. 1 \in 1..Len(q)
  BY <1>1
<1> QED BY <1>1, <1>2, <1>3 DEF Holds

LEMMA HoldsCutBehind ==
  ASSUME NEW q \in Seq(Unit), NEW c, NEW n \in Nat, Holds(q, c, n), NEW k \in 0..Len(q)
  PROVE  Holds(SubSeq(q, k + 1, Len(q)), c, n + k)
<1> DEFINE r == SubSeq(q, k + 1, Len(q))
<1>1. Len(q) \in Nat /\ Len(r) = Len(q) - k /\ \A i \in 1..(Len(q) - k) : r[i] = q[k + i]
  BY CutBehind
<1>2. \A i \in 1..(Len(q) - k) : k + i \in 1..Len(q) /\ n + (k + i) = n + k + i
  BY <1>1
<1> HIDE DEF r
<1>3. Holds(r, c, n + k)
  BY <1>1, <1>2 DEF Holds
<1> QED BY <1>3 DEF r

LEMMA HoldsCutBefore ==
  ASSUME NEW q \in Seq(Unit), NEW c, NEW n \in Nat, Holds(q, c, n), NEW k \in 0..Len(q)
  PROVE  Holds(SubSeq(q, 1, k), c, n)
<1> DEFINE r == SubSeq(q, 1, k)
<1>1. Len(q) \in Nat /\ Len(r) = k /\ \A i \in 1..k : r[i] = q[i]
  BY CutBefore
<1>2. \A i \in 1..k : i \in 1..Len(q)
  BY <1>1
<1> HIDE DEF r
<1>3. Holds(r, c, n)
  BY <1>1, <1>2 DEF Holds
<1> QED BY <1>3 DEF r

LEMMA HoldsJoined ==
  ASSUME NEW q \in Seq(Unit), NEW r \in Seq(Unit), NEW c, NEW n \in Nat,
         Holds(q, c, n), Holds(r, c, n + Len(q))
  PROVE  Holds(q \o r, c, n)
<1> DEFINE s == q \o r
<1>1. /\ Len(q) \in Nat /\ Len(r) \in Nat /\ Len(s) = Len(q) + Len(r)
      /\ \A i \in 1..Len(q) : s[i] = q[i]
      /\ \A i \in 1..Len(r) : s[Len(q) + i] = r[i]
  BY Joined
<1> HIDE DEF s
<1>2. \A i \in 1..Len(s) : s[i] = <<c, n + i>>
  <2> SUFFICES ASSUME NEW i \in 1..Len(s) PROVE s[i] = <<c, n + i>>
    OBVIOUS
  <2>1. CASE i \in 1..Len(q)
    BY <1>1, <2>1 DEF Holds
  <2>2. CASE i \notin 1..Len(q)
    <3> DEFINE j == i - Len(q)
    <3>1. j \in 1..Len(r) /\ i = Len(q) + j
      BY <1>1, <2>2
    <3>2. s[i] = r[j] /\ r[j] = <<c, n + Len(q) + j>>
      BY <1>1, <3>1 DEF Holds
    <3>3. n + Len(q) + j = n + i
      BY <1>1, <3>1
    <3> QED BY <3>2, <3>3
  <2> QED BY <2>1, <2>2
<1> QED BY <1>2 DEF s, Holds

--------------------------------------------------------------------------------
(* What the type invariant says of one client and one descriptor.           *)
Typed == /\ \A c \in Clients : /\ inq[c] \in Seq(Unit) /\ Len(inq[c]) \in Nat
                               /\ outq[c] \in Seq(Unit) /\ Len(outq[c]) \in Nat
                               /\ got[c] \in Seq(Unit) /\ Len(got[c]) \in Nat
                               /\ sent[c] \in Nat /\ Back(c) \in Nat
         /\ \A fd \in Fds : /\ sendBuf[fd] \in Seq(Unit) /\ Len(sendBuf[fd]) \in Nat
                            /\ Open(fd) => sock[fd] \in Clients

LEMMA Types == TypeOK => Typed
<1> SUFFICES ASSUME TypeOK PROVE Typed
  OBVIOUS
<1>1. ASSUME NEW c \in Clients
      PROVE  /\ inq[c] \in Seq(Unit) /\ Len(inq[c]) \in Nat
             /\ outq[c] \in Seq(Unit) /\ Len(outq[c]) \in Nat
             /\ got[c] \in Seq(Unit) /\ Len(got[c]) \in Nat
             /\ sent[c] \in Nat /\ Back(c) \in Nat
  BY DEF TypeOK, SocketsTypeOK, Back
<1>2. ASSUME NEW fd \in Fds
      PROVE  /\ sendBuf[fd] \in Seq(Unit) /\ Len(sendBuf[fd]) \in Nat
             /\ Open(fd) => sock[fd] \in Clients
  BY DEF TypeOK, Open
<1> QED BY <1>1, <1>2 DEF Typed

--------------------------------------------------------------------------------
(* Type correctness, by kind of step.                                       *)
ServerTypeOK == /\ kind \in Kinds /\ loop \in {"run", "dead"}
                /\ sock \in [Fds -> Clients \cup {NoClient}]
                /\ watched \subseteq Fds
                /\ mask \in [Fds -> SUBSET {"in", "out"}]
                /\ DOMAIN sendBuf = Fds /\ \A fd \in Fds : sendBuf[fd] \in Seq(Unit)
                /\ batch \in [Fds \cup {Listener} -> SUBSET {"in", "out", "hup"}]
                /\ turn \in Fds \cup {Listener, NoFd} /\ drained \in BOOLEAN
                /\ edges \subseteq Fds \cup {Listener}

LEMMA TypedParts == TypeOK <=> SocketsTypeOK /\ ServerTypeOK
BY DEF TypeOK, ServerTypeOK

LEMMA TypeConnect ==
  ASSUME SocketsTypeOK, NEW c \in Clients, Connect(c) PROVE SocketsTypeOK'
<1>1. backlog' \in Seq(Clients)
  BY Appended DEF SocketsTypeOK, Connect
<1> QED BY <1>1 DEF SocketsTypeOK, Connect

LEMMA TypeSend ==
  ASSUME SocketsTypeOK, NEW c \in Clients, Send(c) PROVE SocketsTypeOK'
<1>1. sent[c] \in Nat /\ MaxUnits[c] \in Nat /\ sent[c] + 1 <= MaxUnits[c]
  <2>1. sent[c] \in Nat /\ sent[c] < MaxUnits[c]
    BY DEF SocketsTypeOK, Send
  <2>2. MaxUnits[c] \in Nat
    BY SocketsAssumption
  <2> QED BY <2>1, <2>2
<1>2. <<c, sent[c] + 1>> \in Unit
  BY <1>1 DEF Unit
<1>3. Append(inq[c], <<c, sent[c] + 1>>) \in Seq(Unit)
  BY <1>2, Appended DEF SocketsTypeOK
<1>4. sent' \in [Clients -> Nat] /\ \A d \in Clients : sent'[d] <= MaxUnits[d]
  <2>1. sent' = [sent EXCEPT ![c] = @ + 1] /\ sent \in [Clients -> Nat]
    BY DEF SocketsTypeOK, Send
  <2>2. sent' \in [Clients -> Nat]
    BY <1>1, <2>1
  <2>3. sent'[c] <= MaxUnits[c]
    BY <1>1, <2>1
  <2>4. \A d \in Clients : d # c => sent'[d] = sent[d]
    BY <2>1
  <2>5. \A d \in Clients : sent[d] <= MaxUnits[d]
    BY DEF SocketsTypeOK
  <2> QED BY <2>2, <2>3, <2>4, <2>5
<1>5. DOMAIN inq' = Clients /\ \A d \in Clients : inq'[d] \in Seq(Unit)
  BY <1>3 DEF SocketsTypeOK, Send
<1> QED BY <1>4, <1>5 DEF SocketsTypeOK, Send

LEMMA TypeReceive ==
  ASSUME SocketsTypeOK, NEW c \in Clients, Receive(c) PROVE SocketsTypeOK'
<1>1. outq[c] \in Seq(Unit) /\ got[c] \in Seq(Unit) /\ outq[c] # <<>>
  BY DEF SocketsTypeOK, Receive
<1>2. Head(outq[c]) \in Unit /\ Tail(outq[c]) \in Seq(Unit)
  BY <1>1, Beheaded
<1>3. Append(got[c], Head(outq[c])) \in Seq(Unit)
  BY <1>1, <1>2, Appended
<1>4. DOMAIN got' = Clients /\ \A d \in Clients : got'[d] \in Seq(Unit)
  BY <1>3 DEF SocketsTypeOK, Receive
<1>5. DOMAIN outq' = Clients /\ \A d \in Clients : outq'[d] \in Seq(Unit)
  BY <1>2 DEF SocketsTypeOK, Receive
<1> QED BY <1>4, <1>5 DEF SocketsTypeOK, Receive

LEMMA TypeFinReset ==
  ASSUME SocketsTypeOK, NEW c \in Clients, Fin(c) \/ Reset(c) PROVE SocketsTypeOK'
<1>1. CASE Fin(c)
  BY <1>1 DEF SocketsTypeOK, Fin
<1>2. CASE Reset(c)
  <2>1. DOMAIN outq' = Clients /\ \A d \in Clients : outq'[d] \in Seq(Unit)
    BY <1>2 DEF SocketsTypeOK, Reset
  <2> QED BY <1>2, <2>1 DEF SocketsTypeOK, Reset
<1> QED BY <1>1, <1>2

LEMMA TypeClients ==
  ASSUME TypeOK, NEW c \in Clients, ClientStep(c) \/ ClientReads(c) PROVE TypeOK'
<1>1. SocketsTypeOK'
  BY TypedParts, TypeConnect, TypeSend, TypeReceive, TypeFinReset DEF ClientStep, ClientReads
<1>2. edges' \subseteq Fds \cup {Listener}
  BY DEF ClientStep, ClientReads, Raise, FdOf, TypeOK
<1>3. ServerWaits
  BY DEF ClientStep, ClientReads
<1> QED BY <1>1, <1>2, <1>3 DEF TypeOK, ServerWaits

LEMMA TypeAsk == ASSUME TypeOK, Ask PROVE TypeOK'
<1>1. \A fd \in Fds \cup {Listener} : Events[fd] \subseteq {"in", "out", "hup"}
  BY DEF Events, Ready
<1>2. batch' \in [Fds \cup {Listener} -> SUBSET {"in", "out", "hup"}]
  BY <1>1 DEF Ask, Events
<1>3. mask' \in [Fds -> SUBSET {"in", "out"}]
  BY DEF Ask, TypeOK
<1> QED BY <1>2, <1>3 DEF TypeOK, Ask, SocketsTypeOK, sockets

LEMMA TypeCleanup == ASSUME TypeOK, Cleanup PROVE TypeOK'
<1>1. SocketsTypeOK'
  BY DEF Cleanup, TypeOK, SocketsTypeOK
<1>2. batch' \in [Fds \cup {Listener} -> SUBSET {"in", "out", "hup"}]
  BY DEF Cleanup, NoEvents
<1>3. sock' \in [Fds -> Clients \cup {NoClient}] /\ mask' \in [Fds -> SUBSET {"in", "out"}]
  BY DEF Cleanup
<1>4. DOMAIN sendBuf' = Fds /\ \A fd \in Fds : sendBuf'[fd] \in Seq(Unit)
  BY DEF Cleanup
<1> QED BY <1>1, <1>2, <1>3, <1>4 DEF TypeOK, Cleanup

(* What the handlers do to the batch and to the registration.               *)
LEMMA TypeHandled ==
  ASSUME TypeOK, NEW fd \in Fds \cup {Listener}, NEW rest \in SUBSET {"in", "out", "hup"},
         HandledThen(fd, rest)
  PROVE  /\ batch' \in [Fds \cup {Listener} -> SUBSET {"in", "out", "hup"}]
         /\ turn' \in Fds \cup {Listener, NoFd}
         /\ batch'[fd] = rest
         /\ \A g \in Fds \cup {Listener} : g # fd => batch'[g] = batch[g]
         /\ turn' \in {fd, NoFd} /\ (rest = {} => turn' = NoFd)
BY DEF TypeOK, HandledThen

LEMMA TypeModify ==
  ASSUME TypeOK, NEW fd \in Fds, NEW events \in SUBSET {"in", "out"},
         ModifyUnlessSelect(fd, events) \/ Modify(fd, events) \/ NoModify
  PROVE  mask' \in [Fds -> SUBSET {"in", "out"}] /\ edges' \subseteq Fds \cup {Listener}
BY DEF TypeOK, ModifyUnlessSelect, Modify, NoModify, Raise

(* accept() finds a free descriptor: those in use belong to clients that    *)
(* are not in the backlog.                                                  *)
NewFd == CHOOSE f \in Fds : ~Open(f) /\ \A g \in Fds : ~Open(g) => f <= g

LEMMA SomeFdIsFree ==
  ASSUME TypeOK, LinkInv, backlog # <<>> PROVE \E fd \in Fds : ~Open(fd)
<1> SUFFICES ASSUME \A fd \in Fds : Open(fd) PROVE FALSE
  OBVIOUS
<1> DEFINE c == Head(backlog)
           Others == Clients \ {c}
           f == [fd \in Fds |-> sock[fd]]
<1>1. c \in Clients /\ link[c] = "queued"
  <2>1. backlog \in Seq(Clients)
    BY DEF TypeOK, SocketsTypeOK
  <2>2. c = backlog[1] /\ c \in Clients /\ 1 \in DOMAIN backlog
    BY <2>1, Beheaded
  <2> QED BY <2>2 DEF LinkInv
<1>2. \A fd \in Fds : sock[fd] \in Others
  BY <1>1 DEF LinkInv, TypeOK, Open
<1>3. \A fd, g \in Fds : fd # g => sock[fd] # sock[g]
  BY DEF LinkInv
<1>4. f \in Injection(Fds, Others)
  BY <1>2, <1>3 DEF Injection, IsInjective
<1>5. IsFiniteSet(Others) /\ Cardinality(Others) = Cardinality(Clients) - 1
  BY <1>1, FS_RemoveElement, ServersAssumption
<1>6. Cardinality(Fds) <= Cardinality(Others)
  BY <1>4, <1>5, FS_Injection
<1>7. Cardinality(Fds) = MaxFd
  <2>1. MaxFd \in Nat
    BY ServersAssumption
  <2>2. Cardinality(1..MaxFd) = IF 1 > MaxFd THEN 0 ELSE MaxFd - 1 + 1
    BY <2>1, FS_Interval
  <2> QED BY <2>1, <2>2 DEF Fds
<1>8. Cardinality(Clients) \in Nat
  BY ServersAssumption, FS_CardinalityType
<1>9. MaxFd \in Nat /\ Cardinality(Clients) <= MaxFd
  BY ServersAssumption
<1> HIDE DEF Others
<1> QED BY <1>5, <1>6, <1>7, <1>8, <1>9

LEMMA AcceptedFd ==
  ASSUME TypeOK, LinkInv, backlog # <<>> PROVE NewFd \in Fds /\ ~Open(NewFd)
<1> DEFINE Free == {fd \in Fds : ~Open(fd)}
<1>1. Free # {} /\ Free \subseteq Nat /\ \A f \in Free : f \in Nat
  BY SomeFdIsFree DEF Fds
<1>2. PICK f \in Free : \A g \in Free : <<g, f>> \notin OpToRel(<, Nat)
  BY <1>1, NatLessThanWellFounded, WFMin
<1>3. \A g \in Free : f <= g
  <2>1. \A m, n \in Nat : m < n => <<m, n>> \in OpToRel(<, Nat)
    BY DEF OpToRel
  <2>2. \A g \in Free : ~(g < f)
    BY <1>1, <1>2, <2>1
  <2>3. \A m, n \in Nat : ~(m < n) => n <= m
    OBVIOUS
  <2> QED BY <1>1, <2>2, <2>3
<1>4. f \in Fds /\ ~Open(f) /\ \A g \in Fds : ~Open(g) => f <= g
  BY <1>2, <1>3
<1> QED BY <1>4 DEF NewFd

LEMMA HeadOfBacklog ==
  ASSUME TypeOK, LinkInv, backlog # <<>>
  PROVE  /\ Head(backlog) \in Clients /\ link[Head(backlog)] = "queued"
         /\ backlog \in Seq(Clients) /\ Tail(backlog) \in Seq(Clients)
         /\ Len(backlog) \in Nat /\ Len(Tail(backlog)) = Len(backlog) - 1
         /\ \A i \in 1..Len(Tail(backlog)) : /\ i + 1 \in 1..Len(backlog)
                                             /\ Tail(backlog)[i] = backlog[i + 1]
                                             /\ Tail(backlog)[i] # Head(backlog)
<1>1. backlog \in Seq(Clients) /\ Len(backlog) \in Nat
  BY DEF TypeOK, SocketsTypeOK
<1>2. /\ Head(backlog) = backlog[1] /\ Head(backlog) \in Clients /\ Len(backlog) > 0
      /\ Tail(backlog) \in Seq(Clients) /\ Len(Tail(backlog)) = Len(backlog) - 1
      /\ \A i \in 1..(Len(backlog) - 1) : Tail(backlog)[i] = backlog[i + 1]
  BY <1>1, Beheaded
<1>3. DOMAIN backlog = 1..Len(backlog) /\ 1 \in DOMAIN backlog
  BY <1>1, <1>2
<1>4. link[Head(backlog)] = "queued"
  BY <1>2, <1>3 DEF LinkInv
<1>5. \A i \in 1..(Len(backlog) - 1) : i + 1 \in 1..Len(backlog) /\ i + 1 # 1
  BY <1>1, <1>2
<1>6. \A i \in 1..(Len(backlog) - 1) : backlog[i + 1] # backlog[1]
  BY <1>3, <1>5 DEF LinkInv
<1> QED BY <1>1, <1>2, <1>4, <1>5, <1>6

(* What accept() does, with its descriptor and its client named.            *)
Accepting(fd, c) ==
  /\ loop = "run" /\ batch[Listener] # {} /\ turn \in {Listener, NoFd}
  /\ fd \in Fds /\ ~Open(fd) /\ c \in Clients /\ link[c] = "queued" /\ c = Head(backlog)
  /\ sock' = [sock EXCEPT ![fd] = c]
  /\ link' = [link EXCEPT ![c] = "open"]
  /\ backlog' = Tail(backlog)
  /\ watched' = watched \cup {fd}
  /\ sendBuf' = [sendBuf EXCEPT ![fd] = <<>>]
  /\ mask' = [mask EXCEPT ![fd] = {"in"}]
  /\ Raise(IF Readable(c) THEN {fd} ELSE {})
  /\ HandledThen(Listener, IF MoreToAccept THEN {"in"} ELSE {})
  /\ UNCHANGED <<kind, loop, drained, ended, sent, inq, outq, got>>

LEMMA Accepts ==
  ASSUME TypeOK, LinkInv, BatchInv, Accept
  PROVE  backlog # <<>> /\ Accepting(NewFd, Head(backlog))
<1>1. batch[Listener] # {} /\ backlog # <<>>
  BY DEF Accept, Handles, BatchInv
<1>2. NewFd \in Fds /\ ~Open(NewFd)
  BY <1>1, AcceptedFd
<1>3. Head(backlog) \in Clients /\ link[Head(backlog)] = "queued"
  BY <1>1, HeadOfBacklog
<1> QED BY <1>1, <1>2, <1>3 DEF Accept, NewFd, Handles, Accepting

LEMMA TypeAccept ==
  ASSUME TypeOK, LinkInv, backlog # <<>>, Accepting(NewFd, Head(backlog)) PROVE TypeOK'
<1> DEFINE fd == NewFd
           c == Head(backlog)
<1>1. backlog # <<>> /\ Accepting(fd, c)
  OBVIOUS
<1> HIDE DEF fd, c
<1>2. backlog' \in Seq(Clients)
  BY <1>1, HeadOfBacklog DEF Accepting
<1>3. SocketsTypeOK'
  <2>1. /\ c \in Clients /\ link' = [link EXCEPT ![c] = "open"]
        /\ UNCHANGED <<ended, sent, inq, outq, got>>
    BY <1>1 DEF Accepting
  <2>2. link' \in [Clients -> {"away", "queued", "open", "gone"}]
    BY <2>1 DEF TypeOK, SocketsTypeOK
  <2> QED BY <1>2, <2>1, <2>2 DEF TypeOK, SocketsTypeOK
<1>4. /\ batch' \in [Fds \cup {Listener} -> SUBSET {"in", "out", "hup"}]
      /\ turn' \in Fds \cup {Listener, NoFd}
  <2> DEFINE rest == IF MoreToAccept THEN {"in"} ELSE {}
  <2>1. HandledThen(Listener, rest) /\ rest \in SUBSET {"in", "out", "hup"}
    BY <1>1 DEF Accepting
  <2> HIDE DEF rest
  <2> QED BY <2>1, TypeHandled
<1>5. DOMAIN sendBuf' = Fds /\ \A g \in Fds : sendBuf'[g] \in Seq(Unit)
  BY <1>1 DEF TypeOK, Accepting
<1>6. sock' \in [Fds -> Clients \cup {NoClient}] /\ mask' \in [Fds -> SUBSET {"in", "out"}]
  BY <1>1 DEF TypeOK, Accepting
<1>7. edges' \subseteq Fds \cup {Listener} /\ watched' \subseteq Fds
  BY <1>1 DEF TypeOK, Accepting, Raise
<1> QED BY <1>1, <1>3, <1>4, <1>5, <1>6, <1>7 DEF TypeOK, Accepting

(* What the three ways to close a connection have in common.                *)
Closing(fd) ==
  /\ loop = "run" /\ turn \in {fd, NoFd} /\ Open(fd) /\ sock[fd] \in Clients
  /\ sock' = [sock EXCEPT ![fd] = NoClient]
  /\ sendBuf' = [sendBuf EXCEPT ![fd] = <<>>]
  /\ link' = [link EXCEPT ![sock[fd]] = "gone"]
  /\ mask' = [mask EXCEPT ![fd] = {}] /\ edges' = edges \ {fd}
  /\ \/ watched' = watched \ {fd}
     \/ watched' = watched /\ kind = "select" /\ ended[sock[fd]] # "no"
  /\ \E rest \in SUBSET {"out"} :
       HandledThen(fd, rest) /\ (rest # {} => ~Epoll /\ ended[sock[fd]] # "no")
  /\ drained' = FALSE
  /\ UNCHANGED <<kind, loop, backlog, ended, sent, inq, outq, got>>

LEMMA Closes ==
  ASSUME TypeOK, BatchInv, NEW fd \in Fds, HangUp(fd) \/ RecvEnd(fd) \/ WriteError(fd)
  PROVE  Closing(fd)
<1>1. NoFd \notin Fds /\ drained \in BOOLEAN
  BY ServersAssumption DEF TypeOK
<1>2. batch[fd] \subseteq {"in", "out", "hup"}
  BY DEF TypeOK
<1>3. Open(fd) => sock[fd] \in Clients
  BY DEF TypeOK, Open
<1>4. CASE HangUp(fd)
  <2>1. Open(fd)
    BY <1>4 DEF HangUp, Handles, BatchInv
  <2>2. drained = FALSE
    BY <1>1, <1>4 DEF HangUp, Handles, BatchInv
  <2> QED BY <1>3, <1>4, <2>1, <2>2 DEF HangUp, Handles, Close, Closing
<1>5. CASE RecvEnd(fd)
  <2> DEFINE rest == IF Epoll THEN {} ELSE batch[fd] \ {"in"}
  <2>1. rest \in SUBSET {"out"} /\ HandledThen(fd, rest) /\ (rest # {} => ~Epoll)
    BY <1>2, <1>5 DEF RecvEnd, Reads
  <2> HIDE DEF rest
  <2>2. ended[sock[fd]] # "no" /\ Open(fd) /\ loop = "run" /\ turn \in {fd, NoFd}
    BY <1>5 DEF RecvEnd, Reads, Handles
  <2>3. Close(fd, TRUE) \/ (Close(fd, FALSE) /\ kind = "select")
    BY <1>5 DEF RecvEnd, Close
  <2> QED BY <1>3, <1>5, <2>1, <2>2, <2>3 DEF RecvEnd, Close, Closing
<1>6. CASE WriteError(fd)
  <2>1. batch[fd] \ {"out"} = {}
    BY <1>2, <1>6 DEF WriteError, Writes
  <2>2. drained = FALSE
    BY <1>1, <1>6 DEF WriteError, Writes, Handles, BatchInv
  <2>3. HandledThen(fd, {})
    BY <1>6, <2>1 DEF WriteError, Handled
  <2> QED BY <1>3, <1>6, <2>2, <2>3 DEF WriteError, Writes, Handles, Close, Closing
<1> QED BY <1>4, <1>5, <1>6

LEMMA TypeClosing == ASSUME TypeOK, NEW fd \in Fds, Closing(fd) PROVE TypeOK'
<1>1. SocketsTypeOK'
  BY DEF TypeOK, SocketsTypeOK, Closing
<1>2. /\ batch' \in [Fds \cup {Listener} -> SUBSET {"in", "out", "hup"}]
      /\ turn' \in Fds \cup {Listener, NoFd}
  <2>1. PICK rest \in SUBSET {"out"} : HandledThen(fd, rest)
    BY DEF Closing
  <2>2. rest \in SUBSET {"in", "out", "hup"}
    OBVIOUS
  <2> QED BY <2>1, <2>2, TypeHandled
<1>3. DOMAIN sendBuf' = Fds /\ \A g \in Fds : sendBuf'[g] \in Seq(Unit)
  BY DEF TypeOK, Closing
<1>4. sock' \in [Fds -> Clients \cup {NoClient}] /\ mask' \in [Fds -> SUBSET {"in", "out"}]
  BY DEF TypeOK, Closing
<1>5. edges' \subseteq Fds \cup {Listener} /\ watched' \subseteq Fds
  BY DEF TypeOK, Closing
<1> QED BY <1>1, <1>2, <1>3, <1>4, <1>5 DEF TypeOK, Closing

(* recv() that returns k units, and send() that takes n.                    *)
Receiving(fd, c, k) ==
  /\ loop = "run" /\ turn \in {fd, NoFd} /\ Open(fd) /\ c = sock[fd] /\ c \in Clients
  /\ "in" \in batch[fd] /\ "hup" \notin batch[fd] /\ k \in 1..Len(inq[c])
  /\ inq' = [inq EXCEPT ![c] = SubSeq(inq[c], k + 1, Len(inq[c]))]
  /\ sendBuf' = [sendBuf EXCEPT ![fd] = sendBuf[fd] \o SubSeq(inq[c], 1, k)]
  /\ IF Edge THEN drained' = TRUE /\ turn' = fd /\ NoModify /\ UNCHANGED batch
     ELSE /\ HandledThen(fd, batch[fd] \ {"in"}) /\ ModifyUnlessSelect(fd, {"in", "out"})
          /\ UNCHANGED drained
  /\ UNCHANGED <<kind, loop, sock, watched, link, backlog, ended, sent, outq, got>>

LEMMA Receives ==
  ASSUME TypeOK, NEW fd \in Fds, Recv(fd)
  PROVE  \E k \in 1..Len(inq[sock[fd]]) : Receiving(fd, sock[fd], k)
<1>1. sock[fd] \in Clients /\ fd \in DOMAIN sendBuf /\ sock[fd] \in DOMAIN inq
  BY DEF Recv, TypeOK, SocketsTypeOK, Open
<1>2. PICK k \in 1..Len(inq[sock[fd]]) :
        /\ inq' = [inq EXCEPT ![sock[fd]] = SubSeq(inq[sock[fd]], k + 1, Len(inq[sock[fd]]))]
        /\ sendBuf' = [sendBuf EXCEPT ![fd] = sendBuf[fd] \o SubSeq(inq[sock[fd]], 1, k)]
  BY <1>1 DEF Recv
<1>3. Receiving(fd, sock[fd], k)
  BY <1>1, <1>2 DEF Recv, Reads, Handles, Handled, Receiving
<1> QED BY <1>3

Writing(fd, c, n) ==
  /\ loop = "run" /\ turn \in {fd, NoFd} /\ Open(fd) /\ c = sock[fd] /\ c \in Clients
  /\ "out" \in batch[fd] /\ batch[fd] \cap {"in", "hup"} = {}
  /\ ended[c] # "reset" /\ sendBuf[fd] # <<>>
  /\ n \in 0..Len(sendBuf[fd]) /\ Len(outq[c]) + n <= Room
  /\ n = Len(sendBuf[fd]) \/ Len(outq[c]) + n = Room
  /\ outq' = [outq EXCEPT ![c] = outq[c] \o SubSeq(sendBuf[fd], 1, n)]
  /\ sendBuf' = [sendBuf EXCEPT ![fd] = Rest(sendBuf[fd], n)]
  /\ IF Rest(sendBuf[fd], n) = <<>> THEN ModifyUnlessSelect(fd, {"in"}) ELSE NoModify
  /\ HandledThen(fd, batch[fd] \ {"out"})
  /\ UNCHANGED <<kind, loop, sock, watched, drained, link, backlog, ended, sent, inq, got>>

Taken(fd) == Least(Len(sendBuf[fd]), Room - Len(outq[sock[fd]]))

LEMMA WritesSome ==
  ASSUME TypeOK, StreamInv, BatchInv, NEW fd \in Fds, WriteSome(fd)
  PROVE  Writing(fd, sock[fd], Taken(fd))
<1> DEFINE c == sock[fd]
           n == Taken(fd)
<1>1. c \in Clients /\ fd \in DOMAIN sendBuf /\ c \in DOMAIN outq
  BY DEF WriteSome, TypeOK, SocketsTypeOK, Open
<1>2. /\ Len(sendBuf[fd]) \in Nat /\ Len(outq[c]) \in Nat /\ Room \in Nat
      /\ Len(outq[c]) <= Room /\ sendBuf[fd] \in Seq(Unit)
  BY <1>1, Types, SocketsAssumption DEF Typed, StreamInv
<1>3. /\ n \in 0..Len(sendBuf[fd]) /\ Len(outq[c]) + n <= Room
      /\ n = Len(sendBuf[fd]) \/ Len(outq[c]) + n = Room
  <2>1. \A m, r, q \in Nat : q <= r =>
          /\ Least(m, r - q) \in 0..m /\ q + Least(m, r - q) <= r
          /\ Least(m, r - q) = m \/ q + Least(m, r - q) = r
    BY DEF Least
  <2> QED BY <1>2, <2>1 DEF Taken
<1>4. ~(n = 0 /\ ~Edge)
  <2> SUFFICES ASSUME n = 0, ~Edge PROVE FALSE
    OBVIOUS
  <2>1. Len(sendBuf[fd]) # 0
    BY <1>2 DEF WriteSome
  <2>2. Len(outq[c]) = Room
    BY <1>2, <1>3, <2>1
  <2>3. Len(outq[c]) < Room
    BY DEF WriteSome, Writes, Handles, BatchInv, Writable
  <2> QED BY <1>2, <2>2, <2>3
<1>5. /\ Writes(fd) /\ Open(fd) /\ sendBuf[fd] # <<>> /\ ended[c] # "reset"
      /\ outq' = [outq EXCEPT ![c] = outq[c] \o SubSeq(sendBuf[fd], 1, n)]
      /\ sendBuf' = [sendBuf EXCEPT ![fd] = Rest(sendBuf[fd], n)]
      /\ IF Rest(sendBuf[fd], n) = <<>> THEN ModifyUnlessSelect(fd, {"in"}) ELSE NoModify
      /\ Handled(fd, "out")
      /\ UNCHANGED <<kind, loop, sock, watched, drained>>
      /\ UNCHANGED <<link, backlog, ended, sent, inq, got>>
  BY <1>1, <1>4 DEF WriteSome, Taken
<1> QED BY <1>1, <1>3, <1>5 DEF Writing, Writes, Handles, Handled

LEMMA TypeReceiving ==
  ASSUME TypeOK, NEW fd \in Fds, NEW c, NEW k, Receiving(fd, c, k) PROVE TypeOK'
<1>1. c \in Clients /\ inq[c] \in Seq(Unit) /\ k \in 0..Len(inq[c]) /\ sendBuf[fd] \in Seq(Unit)
  BY DEF Receiving, TypeOK, SocketsTypeOK
<1>2. /\ SubSeq(inq[c], k + 1, Len(inq[c])) \in Seq(Unit)
      /\ SubSeq(inq[c], 1, k) \in Seq(Unit)
  BY <1>1, CutBehind, CutBefore
<1>3. sendBuf[fd] \o SubSeq(inq[c], 1, k) \in Seq(Unit)
  BY <1>1, <1>2, Joined
<1>4. DOMAIN inq' = Clients /\ \A d \in Clients : inq'[d] \in Seq(Unit)
  BY <1>2 DEF Receiving, TypeOK, SocketsTypeOK
<1>5. DOMAIN sendBuf' = Fds /\ \A g \in Fds : sendBuf'[g] \in Seq(Unit)
  BY <1>3 DEF Receiving, TypeOK
<1>6. SocketsTypeOK'
  BY <1>4 DEF TypeOK, SocketsTypeOK, Receiving
<1>7. /\ batch' \in [Fds \cup {Listener} -> SUBSET {"in", "out", "hup"}]
      /\ turn' \in Fds \cup {Listener, NoFd} /\ drained' \in BOOLEAN
  <2>1. CASE Edge
    BY <2>1 DEF Receiving, TypeOK
  <2>2. CASE ~Edge
    <3>1. batch[fd] \ {"in"} \in SUBSET {"in", "out", "hup"}
      BY DEF TypeOK
    <3> QED BY <2>2, <3>1, TypeHandled DEF Receiving, TypeOK
  <2> QED BY <2>1, <2>2
<1>8. mask' \in [Fds -> SUBSET {"in", "out"}] /\ edges' \subseteq Fds \cup {Listener}
  BY TypeModify DEF Receiving
<1> QED BY <1>5, <1>6, <1>7, <1>8 DEF TypeOK, Receiving

LEMMA TypeWriting ==
  ASSUME TypeOK, NEW fd \in Fds, NEW c, NEW n, Writing(fd, c, n) PROVE TypeOK'
<1>1. c \in Clients /\ outq[c] \in Seq(Unit) /\ n \in 0..Len(sendBuf[fd]) /\ sendBuf[fd] \in Seq(Unit)
  BY DEF Writing, TypeOK, SocketsTypeOK
<1>2. Rest(sendBuf[fd], n) \in Seq(Unit) /\ SubSeq(sendBuf[fd], 1, n) \in Seq(Unit)
  BY <1>1, CutBehind, CutBefore DEF Rest
<1>3. outq[c] \o SubSeq(sendBuf[fd], 1, n) \in Seq(Unit)
  BY <1>1, <1>2, Joined
<1>4. DOMAIN outq' = Clients /\ \A d \in Clients : outq'[d] \in Seq(Unit)
  BY <1>3 DEF Writing, TypeOK, SocketsTypeOK
<1>5. DOMAIN sendBuf' = Fds /\ \A g \in Fds : sendBuf'[g] \in Seq(Unit)
  BY <1>2 DEF Writing, TypeOK
<1>6. SocketsTypeOK'
  BY <1>4 DEF TypeOK, SocketsTypeOK, Writing
<1>7. /\ batch' \in [Fds \cup {Listener} -> SUBSET {"in", "out", "hup"}]
      /\ turn' \in Fds \cup {Listener, NoFd}
  <2>1. batch[fd] \ {"out"} \in SUBSET {"in", "out", "hup"}
    BY DEF TypeOK
  <2> QED BY <2>1, TypeHandled DEF Writing
<1>8. mask' \in [Fds -> SUBSET {"in", "out"}] /\ edges' \subseteq Fds \cup {Listener}
  BY TypeModify DEF Writing
<1> QED BY <1>5, <1>6, <1>7, <1>8 DEF TypeOK, Writing

(* Steps that only look, and leave connections and buffers alone.           *)
Again(fd) ==
  /\ loop = "run" /\ turn \in {fd, NoFd} /\ Edge /\ Open(fd) /\ ~Readable(sock[fd])
  /\ "in" \in batch[fd]
  /\ IF drained THEN Modify(fd, {"in", "out"}) ELSE NoModify
  /\ HandledThen(fd, batch[fd] \ {"in"})
  /\ drained' = FALSE
  /\ UNCHANGED <<sockets, kind, loop, sock, watched, sendBuf>>

LEMMA ReadsAgain ==
  ASSUME TypeOK, BatchInv, NEW fd \in Fds, RecvAgain(fd) PROVE Again(fd)
<1>1. Edge
  <2>1. ~Readable(sock[fd])
    BY DEF RecvAgain, Readable
  <2> QED BY <2>1 DEF RecvAgain, Reads, Handles, BatchInv
<1> QED BY <1>1 DEF RecvAgain, Reads, Handles, Handled, RearmForWriting, Again, Readable

Idle(fd) ==
  /\ loop = "run" /\ turn \in {fd, NoFd} /\ sendBuf[fd] = <<>>
  /\ "out" \in batch[fd] /\ batch[fd] \cap {"in", "hup"} = {}
  /\ ModifyUnlessSelect(fd, {"in"})
  /\ HandledThen(fd, batch[fd] \ {"out"})
  /\ UNCHANGED <<sockets, kind, loop, sock, watched, sendBuf, drained>>

LEMMA WritesNothing ==
  ASSUME TypeOK, BatchInv, OutputIsWatched, NEW fd \in Fds, WriteNothing(fd)
  PROVE  Idle(fd) \/ (kind = "poll" /\ SomeoneEnded /\ loop = "run" /\ Cleanup)
<1>1. CASE kind # "poll" \/ fd \in watched
  BY <1>1 DEF WriteNothing, Writes, Handles, Handled, Idle
<1>2. CASE kind = "poll" /\ fd \notin watched
  <2>1. ~Open(fd) /\ batch[fd] # {}
    BY <1>2 DEF WriteNothing, Writes, Handles, OutputIsWatched
  <2> QED BY <1>2, <2>1 DEF WriteNothing, Writes, Handles, BatchInv
<1> QED BY <1>1, <1>2

LEMMA TypeLooking ==
  ASSUME TypeOK, NEW fd \in Fds, Again(fd) \/ Idle(fd) PROVE TypeOK'
<1>1. SocketsTypeOK'
  BY DEF TypeOK, SocketsTypeOK, Again, Idle, sockets
<1>2. /\ batch' \in [Fds \cup {Listener} -> SUBSET {"in", "out", "hup"}]
      /\ turn' \in Fds \cup {Listener, NoFd}
  <2>1. /\ batch[fd] \ {"in"} \in SUBSET {"in", "out", "hup"}
        /\ batch[fd] \ {"out"} \in SUBSET {"in", "out", "hup"}
    BY DEF TypeOK
  <2> QED BY <2>1, TypeHandled DEF Again, Idle
<1>3. mask' \in [Fds -> SUBSET {"in", "out"}] /\ edges' \subseteq Fds \cup {Listener}
  BY TypeModify DEF Again, Idle
<1> QED BY <1>1, <1>2, <1>3 DEF TypeOK, Again, Idle

--------------------------------------------------------------------------------
(* What a step can be, given the invariant: the loops of select and poll    *)
(* end after a client has gone, and no other call raises.                   *)
Dying == Cleanup /\ kind \in {"select", "poll"} /\ SomeoneEnded

Moves == \/ \E c \in Clients : ClientStep(c) \/ ClientReads(c)
         \/ Ask \/ Dying
         \/ backlog # <<>> /\ Accepting(NewFd, Head(backlog))
         \/ \E fd \in Fds : \/ Closing(fd) \/ Again(fd) \/ Idle(fd)
                            \/ \E k \in 1..Len(inq[sock[fd]]) : Receiving(fd, sock[fd], k)
                            \/ Writing(fd, sock[fd], Taken(fd))
         \/ UNCHANGED vars

LEMMA EachStep == IInv /\ [Next]_vars => Moves
<1> SUFFICES ASSUME IInv, [Next]_vars PROVE Moves
  OBVIOUS
<1>0. TypeOK /\ LinkInv /\ StreamInv /\ BatchInv /\ OutputIsWatched /\ StaleInv
  BY DEF IInv
<1>1. CASE SelectFails
  <2>1. kind = "select" /\ SomeoneEnded
    BY <1>0, <1>1 DEF SelectFails, Stale, StaleInv
  <2> QED BY <1>1, <2>1 DEF SelectFails, Dying, Moves
<1>2. CASE Accept
  BY <1>0, <1>2, Accepts DEF Moves
<1>3. ASSUME NEW fd \in Fds, Handler(fd) PROVE Moves
  <2>1. CASE HangUp(fd) \/ RecvEnd(fd) \/ WriteError(fd)
    BY <1>0, <2>1, Closes DEF Moves
  <2>2. CASE Recv(fd)
    BY <1>0, <2>2, Receives DEF Moves
  <2>3. CASE RecvAgain(fd)
    BY <1>0, <2>3, ReadsAgain DEF Moves
  <2>4. CASE WriteSome(fd)
    BY <1>0, <2>4, WritesSome DEF Moves
  <2>5. CASE WriteNothing(fd)
    BY <1>0, <2>5, WritesNothing DEF Moves, Dying
  <2> QED BY <1>3, <2>1, <2>2, <2>3, <2>4, <2>5 DEF Handler
<1>4. CASE Ask
  BY <1>4 DEF Moves
<1>5. CASE \E c \in Clients : ClientStep(c) \/ ClientReads(c)
  BY <1>5 DEF Moves
<1>6. CASE AskInVain \/ Exited \/ UNCHANGED vars
  BY <1>6 DEF AskInVain, Exited, Moves
<1> QED BY <1>1, <1>2, <1>3, <1>4, <1>5, <1>6 DEF Next, ServerStep

LEMMA TypeMoves == IInv /\ Moves => TypeOK'
<1> SUFFICES ASSUME IInv, Moves PROVE TypeOK'
  OBVIOUS
<1>0. TypeOK /\ LinkInv /\ BatchInv
  BY DEF IInv
<1>1. CASE \E c \in Clients : ClientStep(c) \/ ClientReads(c)
  BY <1>0, <1>1, TypeClients
<1>2. CASE Ask
  BY <1>0, <1>2, TypeAsk
<1>3. CASE Dying
  BY <1>0, <1>3, TypeCleanup DEF Dying
<1>4. CASE backlog # <<>> /\ Accepting(NewFd, Head(backlog))
  BY <1>0, <1>4, TypeAccept
<1>5. ASSUME NEW fd \in Fds, \/ Closing(fd) \/ Again(fd) \/ Idle(fd)
                             \/ \E k \in 1..Len(inq[sock[fd]]) : Receiving(fd, sock[fd], k)
                             \/ Writing(fd, sock[fd], Taken(fd))
      PROVE  TypeOK'
  BY <1>0, <1>5, TypeClosing, TypeLooking, TypeReceiving, TypeWriting
<1>6. CASE UNCHANGED vars
  BY <1>0, <1>6 DEF vars, sockets, server, TypeOK, SocketsTypeOK
<1> QED BY <1>1, <1>2, <1>3, <1>4, <1>5, <1>6 DEF Moves

--------------------------------------------------------------------------------
(* Where a connection is.                                                   *)
LEMMA LinkSame ==
  ASSUME LinkInv, UNCHANGED <<link, backlog, sock>>,
         \A fd \in Fds : Open(fd) \/ sendBuf'[fd] = sendBuf[fd]
  PROVE  LinkInv'
BY DEF LinkInv, Open

LEMMA LinkConnect ==
  ASSUME TypeOK, LinkInv, NEW c \in Clients, Connect(c), UNCHANGED <<sock, sendBuf>>
  PROVE  LinkInv'
<1>1. /\ backlog \in Seq(Clients) /\ Len(backlog) \in Nat /\ DOMAIN backlog = 1..Len(backlog)
      /\ backlog' \in Seq(Clients) /\ Len(backlog') = Len(backlog) + 1
      /\ DOMAIN backlog' = 1..Len(backlog')
      /\ \A i \in 1..Len(backlog) : backlog'[i] = backlog[i]
      /\ backlog'[Len(backlog) + 1] = c
  BY Appended DEF TypeOK, SocketsTypeOK, Connect
<1>2. \A i \in DOMAIN backlog : backlog[i] # c
  BY DEF LinkInv, Connect
<1>3. \A i \in DOMAIN backlog' : i \in DOMAIN backlog \/ i = Len(backlog) + 1
  BY <1>1
<1>4. link'[c] = "queued" /\ \A d : d \in Clients /\ d # c => link'[d] = link[d]
  BY DEF Connect, TypeOK, SocketsTypeOK
<1>5. \A i \in DOMAIN backlog : backlog[i] \in Clients
  BY <1>1
<1>6. \A i \in DOMAIN backlog' : link'[backlog'[i]] = "queued"
  BY <1>1, <1>2, <1>3, <1>4, <1>5 DEF LinkInv
<1>7. \A i, j \in DOMAIN backlog' : i # j => backlog'[i] # backlog'[j]
  BY <1>1, <1>2, <1>3 DEF LinkInv
<1>8. \A fd \in Fds : IF Open(fd)' THEN link'[sock'[fd]] = "open" ELSE sendBuf'[fd] = <<>>
  BY <1>4 DEF LinkInv, Open, TypeOK, Connect
<1> QED BY <1>6, <1>7, <1>8 DEF LinkInv, Open

LEMMA LinkAccepting ==
  ASSUME TypeOK, LinkInv, backlog # <<>>, NEW fd \in Fds, Accepting(fd, Head(backlog))
  PROVE  LinkInv'
<1> DEFINE c == Head(backlog)
<1>1. /\ c \in Clients /\ link[c] = "queued" /\ backlog' = Tail(backlog)
      /\ backlog' \in Seq(Clients) /\ DOMAIN backlog' = 1..Len(backlog')
      /\ backlog \in Seq(Clients) /\ DOMAIN backlog = 1..Len(backlog)
      /\ \A i \in 1..Len(backlog') : /\ i + 1 \in 1..Len(backlog)
                                     /\ backlog'[i] = backlog[i + 1] /\ backlog'[i] # c
  BY HeadOfBacklog DEF Accepting
<1>2. /\ sock' = [sock EXCEPT ![fd] = c] /\ link' = [link EXCEPT ![c] = "open"]
      /\ sendBuf' = [sendBuf EXCEPT ![fd] = <<>>] /\ ~Open(fd)
  BY DEF Accepting
<1> HIDE DEF c
<1>3. link'[c] = "open" /\ \A d \in Clients : d # c => link'[d] = link[d]
  BY <1>1, <1>2 DEF TypeOK, SocketsTypeOK
<1>4. \A i \in DOMAIN backlog' : link'[backlog'[i]] = "queued"
  BY <1>1, <1>3 DEF LinkInv
<1>5. \A i, j \in DOMAIN backlog' : i # j => backlog'[i] # backlog'[j]
  <2> SUFFICES ASSUME NEW i \in 1..Len(backlog'), NEW j \in 1..Len(backlog'), i # j
               PROVE  backlog'[i] # backlog'[j]
    BY <1>1
  <2>1. i + 1 # j + 1 /\ i + 1 \in DOMAIN backlog /\ j + 1 \in DOMAIN backlog
    BY <1>1
  <2> QED BY <1>1, <2>1 DEF LinkInv
<1>6. \A g \in Fds : Open(g) => sock[g] \in Clients /\ link[sock[g]] = "open" /\ sock[g] # c
  BY <1>1 DEF LinkInv, TypeOK, Open
<1>7. sock'[fd] = c /\ c # NoClient /\ \A g \in Fds : g # fd => sock'[g] = sock[g] /\ sendBuf'[g] = sendBuf[g]
  BY <1>1, <1>2, ServersAssumption DEF TypeOK
<1>8. \A g \in Fds : IF Open(g)' THEN link'[sock'[g]] = "open" ELSE sendBuf'[g] = <<>>
  BY <1>3, <1>6, <1>7 DEF LinkInv, Open
<1>9. \A g, h \in Fds : Open(g)' /\ g # h => sock'[g] # sock'[h]
  BY <1>1, <1>6, <1>7 DEF LinkInv, Open
<1> QED BY <1>4, <1>5, <1>8, <1>9 DEF LinkInv, Open

LEMMA LinkClosing == ASSUME TypeOK, LinkInv, NEW fd \in Fds, Closing(fd) PROVE LinkInv'
<1>1. sock[fd] \in Clients /\ link[sock[fd]] = "open" /\ backlog' = backlog /\ backlog \in Seq(Clients)
  BY DEF LinkInv, Closing, TypeOK, SocketsTypeOK
<1>2. \A d \in Clients : d # sock[fd] => link'[d] = link[d]
  BY <1>1 DEF Closing, TypeOK, SocketsTypeOK
<1>3. \A i \in DOMAIN backlog : backlog[i] \in Clients /\ backlog[i] # sock[fd]
  BY <1>1 DEF LinkInv
<1>4. sock'[fd] = NoClient /\ sendBuf'[fd] = <<>>
  BY DEF Closing, TypeOK
<1>5. \A g \in Fds : g # fd => /\ sock'[g] = sock[g] /\ sendBuf'[g] = sendBuf[g] /\ sock[g] # sock[fd]
                               /\ Open(g) => sock[g] \in Clients
  BY DEF Closing, TypeOK, LinkInv, Open
<1>6. \A g \in Fds : IF Open(g)' THEN link'[sock'[g]] = "open" ELSE sendBuf'[g] = <<>>
  BY <1>2, <1>4, <1>5 DEF LinkInv, Open
<1>7. \A g, h \in Fds : Open(g)' /\ g # h => sock'[g] # sock'[h]
  BY <1>4, <1>5 DEF LinkInv, Open
<1> QED BY <1>1, <1>2, <1>3, <1>6, <1>7 DEF LinkInv, Open

LEMMA LinkCleanup == ASSUME TypeOK, Cleanup PROVE LinkInv'
<1>1. /\ backlog' = <<>> /\ sock' = [fd \in Fds |-> NoClient]
      /\ sendBuf' = [fd \in Fds |-> <<>>]
  BY DEF Cleanup
<1>2. DOMAIN backlog' = {}
  BY <1>1
<1> QED BY <1>1, <1>2 DEF LinkInv, Open

LEMMA LinkMoves == IInv /\ Moves => LinkInv'
<1> SUFFICES ASSUME IInv, Moves PROVE LinkInv'
  OBVIOUS
<1>0. TypeOK /\ LinkInv
  BY DEF IInv
<1>1. ASSUME NEW c \in Clients, ClientStep(c) \/ ClientReads(c) PROVE LinkInv'
  <2>1. UNCHANGED <<sock, sendBuf>>
    BY <1>1 DEF ClientStep, ClientReads, ServerWaits
  <2>2. CASE Connect(c)
    BY <1>0, <2>1, <2>2, LinkConnect
  <2>3. CASE ~Connect(c)
    <3>1. UNCHANGED <<link, backlog>>
      BY <1>1, <2>3 DEF ClientStep, ClientReads, Send, Fin, Reset, Receive
    <3> QED BY <1>0, <2>1, <3>1, LinkSame
  <2> QED BY <2>2, <2>3
<1>2. CASE Ask
  BY <1>0, <1>2, LinkSame DEF Ask, sockets
<1>3. CASE Dying
  BY <1>0, <1>3, LinkCleanup DEF Dying
<1>4. CASE backlog # <<>> /\ Accepting(NewFd, Head(backlog))
  BY <1>0, <1>4, AcceptedFd, LinkAccepting
<1>5. ASSUME NEW fd \in Fds, Again(fd) \/ Idle(fd) PROVE LinkInv'
  BY <1>0, <1>5, LinkSame DEF Again, Idle, sockets
<1>6. ASSUME NEW fd \in Fds, NEW k, \/ Receiving(fd, sock[fd], k) \/ Writing(fd, sock[fd], k)
      PROVE  LinkInv'
  <2>1. UNCHANGED <<link, backlog, sock>> /\ Open(fd)
    BY <1>6 DEF Receiving, Writing
  <2>2. \A g \in Fds : g # fd => sendBuf'[g] = sendBuf[g]
    BY <1>0, <1>6 DEF Receiving, Writing, TypeOK
  <2> QED BY <1>0, <2>1, <2>2, LinkSame
<1>7. CASE UNCHANGED vars
  BY <1>0, <1>7, LinkSame DEF vars, sockets, server
<1> QED BY <1>0, <1>1, <1>2, <1>3, <1>4, <1>5, <1>6, <1>7, LinkClosing DEF Moves

--------------------------------------------------------------------------------
(* Where the units of one client, and of one connection, are.               *)
StreamOK(c) ==
  /\ Holds(got[c], c, 0) /\ Holds(outq[c], c, Len(got[c]))
  /\ Back(c) <= sent[c] /\ Len(outq[c]) <= Room
  /\ link[c] \in {"away", "queued"} =>
       Back(c) = 0 /\ Len(inq[c]) = sent[c] /\ Holds(inq[c], c, 0)

BufferOK(fd) ==
  Open(fd) /\ ended[sock[fd]] # "reset" =>
    /\ Holds(sendBuf[fd], sock[fd], Back(sock[fd]))
    /\ Holds(inq[sock[fd]], sock[fd], Back(sock[fd]) + Len(sendBuf[fd]))
    /\ Back(sock[fd]) + Len(sendBuf[fd]) + Len(inq[sock[fd]]) = sent[sock[fd]]

LEMMA StreamsOK == StreamInv <=> \A c \in Clients : StreamOK(c)
BY DEF StreamInv, StreamOK

LEMMA BuffersOK == BufferInv <=> \A fd \in Fds : BufferOK(fd)
BY DEF BufferInv, BufferOK

LEMMA StreamSame ==
  ASSUME NEW c \in Clients, StreamOK(c),
         got'[c] = got[c], outq'[c] = outq[c], inq'[c] = inq[c], sent'[c] = sent[c],
         link'[c] \in {"away", "queued"} => link[c] \in {"away", "queued"}
  PROVE  StreamOK(c)'
BY DEF StreamOK, Back, Holds

LEMMA BufferSame ==
  ASSUME NEW fd \in Fds, BufferOK(fd), sock'[fd] = sock[fd],
         Open(fd) => /\ sendBuf'[fd] = sendBuf[fd] /\ inq'[sock[fd]] = inq[sock[fd]]
                     /\ sent'[sock[fd]] = sent[sock[fd]] /\ Back(sock[fd])' = Back(sock[fd])
                     /\ ended[sock[fd]] = "reset" => ended'[sock[fd]] = "reset"
  PROVE  BufferOK(fd)'
<1> SUFFICES ASSUME Open(fd)', ended'[sock'[fd]] # "reset"
             PROVE  /\ Holds(sendBuf'[fd], sock'[fd], Back(sock[fd])')
                    /\ Holds(inq'[sock'[fd]], sock'[fd], Back(sock[fd])' + Len(sendBuf'[fd]))
                    /\ Back(sock[fd])' + Len(sendBuf'[fd]) + Len(inq'[sock'[fd]]) = sent'[sock'[fd]]
  BY DEF BufferOK, Holds, Back
<1>1. Open(fd) /\ ended[sock[fd]] # "reset"
  BY DEF Open
<1> QED BY <1>1 DEF BufferOK

(* Sums of lengths.                                                         *)
LEMMA OneOver == \A m, n \in Nat : (m + 1) + (n - 1) = m + n
OBVIOUS

LEMMA NoneLeft == \A m, n \in Nat : m + n = 0 => m = 0 /\ n = 0 /\ ~(n > 0)
OBVIOUS

LEMMA PartOf == \A m, n, s \in Nat : m + n <= s => m <= s
OBVIOUS

(* One unit more from the client.                                           *)
LEMMA SendAppends ==
  ASSUME TypeOK, NEW c \in Clients, Send(c)
  PROVE  /\ ended[c] = "no" /\ sent[c] \in Nat /\ Len(inq[c]) \in Nat
         /\ sent'[c] = sent[c] + 1 /\ Len(inq'[c]) = Len(inq[c]) + 1
         /\ \A n \in Nat : n + Len(inq[c]) = sent[c] /\ Holds(inq[c], c, n) => Holds(inq'[c], c, n)
         /\ \A d \in Clients : d # c => inq'[d] = inq[d] /\ sent'[d] = sent[d]
         /\ link' = link /\ outq' = outq /\ got' = got /\ ended' = ended
<1> DEFINE u == <<c, sent[c] + 1>>
<1>1. sent[c] \in Nat /\ MaxUnits[c] \in Nat /\ sent[c] + 1 <= MaxUnits[c]
  <2>1. sent[c] \in Nat /\ sent[c] < MaxUnits[c]
    BY DEF TypeOK, SocketsTypeOK, Send
  <2>2. MaxUnits[c] \in Nat
    BY SocketsAssumption
  <2> QED BY <2>1, <2>2
<1>2. u \in Unit /\ inq[c] \in Seq(Unit)
  BY <1>1 DEF Unit, TypeOK, SocketsTypeOK
<1>3. inq'[c] = Append(inq[c], u) /\ sent'[c] = sent[c] + 1
  BY DEF Send, TypeOK, SocketsTypeOK
<1>4. \A d \in Clients : d # c => inq'[d] = inq[d] /\ sent'[d] = sent[d]
  BY DEF Send, TypeOK, SocketsTypeOK
<1>5. Len(inq'[c]) = Len(inq[c]) + 1 /\ Len(inq[c]) \in Nat
  BY <1>2, <1>3, Appended
<1>6. ASSUME NEW n \in Nat, n + Len(inq[c]) = sent[c], Holds(inq[c], c, n)
      PROVE  Holds(inq'[c], c, n)
  <2>1. u = <<c, n + Len(inq[c]) + 1>>
    BY <1>6
  <2> QED BY <1>2, <1>3, <1>6, <2>1, HoldsAppended
<1> QED BY <1>1, <1>3, <1>4, <1>5, <1>6 DEF Send

LEMMA SendStream ==
  ASSUME TypeOK, StreamInv, BufferInv, NEW c \in Clients, Send(c), UNCHANGED <<sock, sendBuf>>
  PROVE  StreamInv' /\ BufferInv'
<1>1. /\ ended[c] = "no" /\ sent[c] \in Nat /\ Len(inq[c]) \in Nat
      /\ sent'[c] = sent[c] + 1 /\ Len(inq'[c]) = Len(inq[c]) + 1
      /\ \A n \in Nat : n + Len(inq[c]) = sent[c] /\ Holds(inq[c], c, n) => Holds(inq'[c], c, n)
      /\ \A d \in Clients : d # c => inq'[d] = inq[d] /\ sent'[d] = sent[d]
      /\ link' = link /\ outq' = outq /\ got' = got /\ ended' = ended
  BY SendAppends
<1>2. Typed /\ \A d \in Clients : Back(d)' = Back(d)
  BY <1>1, Types DEF Back
<1>3. ASSUME NEW d \in Clients PROVE StreamOK(d)'
  <2>1. StreamOK(d)
    BY StreamsOK
  <2>2. CASE d # c
    BY <1>1, <2>1, <2>2, StreamSame
  <2>3. CASE d = c
    <3>1. Holds(got'[c], c, 0) /\ Holds(outq'[c], c, Len(got'[c])) /\ Len(outq'[c]) <= Room
      BY <1>1, <2>1, <2>3 DEF StreamOK
    <3>2. Back(c)' <= sent'[c]
      BY <1>1, <1>2, <2>1, <2>3 DEF StreamOK, Typed
    <3>3. ASSUME link'[c] \in {"away", "queued"}
          PROVE  Back(c)' = 0 /\ Len(inq'[c]) = sent'[c] /\ Holds(inq'[c], c, 0)
      <4>1. Back(c) = 0 /\ Len(inq[c]) = sent[c] /\ Holds(inq[c], c, 0)
        BY <1>1, <2>1, <2>3, <3>3 DEF StreamOK
      <4>2. 0 + Len(inq[c]) = sent[c]
        BY <1>1, <4>1
      <4> QED BY <1>1, <1>2, <4>1, <4>2
    <3> QED BY <2>3, <3>1, <3>2, <3>3 DEF StreamOK, Holds, Back
  <2> QED BY <2>2, <2>3
<1>4. ASSUME NEW fd \in Fds PROVE BufferOK(fd)'
  <2>1. BufferOK(fd) /\ (Open(fd) => sock[fd] \in Clients)
    BY <1>2, BuffersOK DEF Typed
  <2>2. CASE sock[fd] # c \/ ~Open(fd)
    BY <1>1, <1>2, <2>1, <2>2, BufferSame
  <2>3. CASE sock[fd] = c /\ Open(fd)
    <3> DEFINE due == Back(c) + Len(sendBuf[fd])
    <3>1. due \in Nat /\ Holds(sendBuf[fd], c, Back(c)) /\ Holds(inq[c], c, due)
          /\ due + Len(inq[c]) = sent[c]
      BY <1>1, <1>2, <2>1, <2>3 DEF BufferOK, Typed
    <3>2. Holds(inq'[c], c, due) /\ due + Len(inq'[c]) = sent'[c]
      <4> HIDE DEF due
      <4>1. Holds(inq'[c], c, due)
        BY <1>1, <3>1
      <4>2. due + Len(inq'[c]) = sent'[c]
        BY <1>1, <3>1
      <4> QED BY <4>1, <4>2
    <3>3. sock'[fd] = c /\ sendBuf'[fd] = sendBuf[fd]
      BY <2>3
    <3>4. Back(c)' = Back(c)
      BY <1>2
    <3> PICK k : k = Back(c)
      OBVIOUS
    <3>5. /\ sock'[fd] = c /\ Back(c)' = k /\ Holds(sendBuf'[fd], c, k)
          /\ Holds(inq'[c], c, k + Len(sendBuf'[fd]))
          /\ k + Len(sendBuf'[fd]) + Len(inq'[c]) = sent'[c]
      BY <3>1, <3>2, <3>3, <3>4
    <3> QED BY <3>5 DEF BufferOK, Back, Holds
  <2> QED BY <2>2, <2>3
<1> QED BY <1>3, <1>4 DEF StreamInv, StreamOK, BufferInv, BufferOK

(* The client reads a unit.                                                 *)
LEMMA ReceiveTakes ==
  ASSUME TypeOK, NEW c \in Clients, Receive(c), Holds(got[c], c, 0), Holds(outq[c], c, Len(got[c]))
  PROVE  /\ got'[c] = Append(got[c], <<c, Len(got[c]) + 1>>)
         /\ Len(got'[c]) = Len(got[c]) + 1 /\ Len(got[c]) \in Nat
         /\ Len(outq'[c]) = Len(outq[c]) - 1 /\ Len(outq[c]) \in Nat /\ Len(outq[c]) > 0
         /\ Holds(got'[c], c, 0) /\ Holds(outq'[c], c, Len(got'[c]))
         /\ got' = [got EXCEPT ![c] = Append(got[c], <<c, Len(got[c]) + 1>>)]
         /\ \A d \in Clients : d # c => got'[d] = got[d] /\ outq'[d] = outq[d]
         /\ link' = link /\ inq' = inq /\ sent' = sent /\ ended' = ended
<1> DEFINE u == Head(outq[c])
<1>1. outq[c] \in Seq(Unit) /\ got[c] \in Seq(Unit) /\ Len(got[c]) \in Nat /\ outq[c] # <<>>
  BY DEF Receive, TypeOK, SocketsTypeOK
<1>2. /\ u \in Unit /\ Len(Tail(outq[c])) = Len(outq[c]) - 1
      /\ Len(outq[c]) > 0 /\ Len(outq[c]) \in Nat
  BY <1>1, Beheaded
<1>3. u = <<c, Len(got[c]) + 1>> /\ Holds(Tail(outq[c]), c, Len(got[c]) + 1)
  BY <1>1, HoldsBeheaded
<1>4. got'[c] = Append(got[c], u) /\ outq'[c] = Tail(outq[c])
  BY DEF Receive, TypeOK, SocketsTypeOK
<1>5. got' = [got EXCEPT ![c] = Append(got[c], u)]
  BY DEF Receive, TypeOK, SocketsTypeOK
<1>6. \A d \in Clients : d # c => got'[d] = got[d] /\ outq'[d] = outq[d]
  BY DEF Receive, TypeOK, SocketsTypeOK
<1> HIDE DEF u
<1>7. Len(got'[c]) = Len(got[c]) + 1
  BY <1>1, <1>2, <1>4, Appended
<1>8. Holds(got'[c], c, 0)
  <2>1. u = <<c, 0 + Len(got[c]) + 1>>
    BY <1>1, <1>3
  <2> QED BY <1>1, <1>2, <1>4, <2>1, HoldsAppended
<1> QED BY <1>1, <1>2, <1>3, <1>4, <1>5, <1>6, <1>7, <1>8 DEF Receive

LEMMA ReceiveStream ==
  ASSUME TypeOK, StreamInv, BufferInv, NEW c \in Clients, Receive(c), UNCHANGED <<sock, sendBuf>>
  PROVE  StreamInv' /\ BufferInv'
<1>0. Typed /\ StreamOK(c)
  BY Types, StreamsOK
<1>1. /\ Len(got'[c]) = Len(got[c]) + 1 /\ Len(got[c]) \in Nat
      /\ Len(outq'[c]) = Len(outq[c]) - 1 /\ Len(outq[c]) \in Nat /\ Len(outq[c]) > 0
      /\ Holds(got'[c], c, 0) /\ Holds(outq'[c], c, Len(got'[c]))
      /\ \A d \in Clients : d # c => got'[d] = got[d] /\ outq'[d] = outq[d]
      /\ link' = link /\ inq' = inq /\ sent' = sent /\ ended' = ended
  BY <1>0, ReceiveTakes DEF StreamOK
<1>a. /\ Len(got'[c]) = Len(got[c]) + 1 /\ Len(got[c]) \in Nat
      /\ Len(outq'[c]) = Len(outq[c]) - 1 /\ Len(outq[c]) \in Nat /\ Len(outq[c]) > 0
  BY <1>1
<1>b. Room \in Nat /\ Len(outq[c]) <= Room /\ (link[c] \in {"away", "queued"} => Back(c) = 0)
  BY <1>0, SocketsAssumption DEF StreamOK
<1>2. Back(c)' = Back(c)
  BY <1>a, OneOver DEF Back
<1>3. \A d \in Clients : Back(d)' = Back(d)
  BY <1>1, <1>2 DEF Back
<1>4. StreamOK(c)'
  <2>1. Len(outq'[c]) <= Room
    BY <1>a, <1>b
  <2>2. link[c] \notin {"away", "queued"}
    BY <1>a, <1>b, NoneLeft DEF Back
  <2>3. Back(c)' <= sent'[c]
    BY <1>0, <1>1, <1>2 DEF StreamOK
  <2> QED BY <1>1, <2>1, <2>2, <2>3 DEF StreamOK, Holds, Back
<1>5. ASSUME NEW d \in Clients PROVE StreamOK(d)'
  BY <1>1, <1>4, StreamsOK, StreamSame
<1>6. ASSUME NEW fd \in Fds PROVE BufferOK(fd)'
  BY <1>0, <1>1, <1>3, BuffersOK, BufferSame DEF Typed
<1> QED BY <1>5, <1>6 DEF StreamInv, StreamOK, BufferInv, BufferOK

(* The client ends the connection; a reset drops what it would have read.   *)
LEMMA EndStream ==
  ASSUME TypeOK, StreamInv, BufferInv, NEW c \in Clients, Fin(c) \/ Reset(c),
         UNCHANGED <<sock, sendBuf>>
  PROVE  StreamInv' /\ BufferInv'
<1>0. Typed /\ StreamOK(c)
  BY Types, StreamsOK
<1>1. /\ link' = link /\ inq' = inq /\ sent' = sent /\ got' = got
      /\ \A d \in Clients : d # c => outq'[d] = outq[d] /\ ended'[d] = ended[d]
      /\ \/ outq' = outq /\ ended[c] = "no"
         \/ outq'[c] = <<>> /\ ended'[c] = "reset"
  BY DEF Fin, Reset, TypeOK, SocketsTypeOK
<1>2. CASE outq' = outq /\ ended[c] = "no"
  <2>1. ASSUME NEW d \in Clients PROVE StreamOK(d)' /\ Back(d)' = Back(d)
    BY <1>1, <1>2, StreamsOK, StreamSame DEF Back
  <2>2. ASSUME NEW fd \in Fds PROVE BufferOK(fd)'
    <3>1. Open(fd) => (ended[sock[fd]] = "reset" => ended'[sock[fd]] = "reset")
      BY <1>0, <1>1, <1>2 DEF Typed
    <3> QED BY <1>0, <1>1, <2>1, <3>1, BuffersOK, BufferSame DEF Typed
  <2> QED BY <2>1, <2>2 DEF StreamInv, StreamOK, BufferInv, BufferOK
<1>3. CASE outq'[c] = <<>> /\ ended'[c] = "reset"
  <2>1. /\ Len(outq'[c]) = 0 /\ Back(c)' = Len(got[c]) /\ Len(got[c]) \in Nat
        /\ Len(outq[c]) \in Nat /\ sent[c] \in Nat /\ Back(c) = Len(got[c]) + Len(outq[c])
    <3>1. Len(outq'[c]) = 0 /\ got'[c] = got[c]
      BY <1>1, <1>3
    <3>2. Len(got[c]) \in Nat /\ Len(outq[c]) \in Nat /\ sent[c] \in Nat
      BY <1>0 DEF Typed
    <3> QED BY <3>1, <3>2 DEF Back
  <2>a. /\ Room \in Nat /\ Back(c) <= sent[c]
        /\ link[c] \in {"away", "queued"} => Back(c) = 0 /\ Len(inq[c]) = sent[c] /\ Holds(inq[c], c, 0)
    BY <1>0, SocketsAssumption DEF StreamOK
  <2>2. StreamOK(c)'
    <3>1. Holds(got'[c], c, 0) /\ Holds(outq'[c], c, Len(got'[c]))
      BY <1>0, <1>1, <1>3, HoldsNothing DEF StreamOK
    <3>2. Back(c)' <= sent'[c] /\ Len(outq'[c]) <= Room
      <4>1. Len(got[c]) <= sent[c]
        <5>1. Len(got[c]) + Len(outq[c]) <= sent[c]
          BY <2>1, <2>a
        <5>2. Len(got[c]) \in Nat /\ Len(outq[c]) \in Nat /\ sent[c] \in Nat
          BY <2>1
        <5> QED BY <5>1, <5>2, PartOf
      <4>2. 0 <= Room
        BY <2>a
      <4> QED BY <1>1, <2>1, <4>1, <4>2
    <3>3. ASSUME link'[c] \in {"away", "queued"}
          PROVE  Back(c)' = 0 /\ Len(inq'[c]) = sent'[c] /\ Holds(inq'[c], c, 0)
      <4>1. link[c] \in {"away", "queued"}
        BY <1>1, <3>3
      <4>2. Len(got[c]) = 0
        BY <2>1, <2>a, <4>1, NoneLeft
      <4> QED BY <1>1, <2>1, <2>a, <4>1, <4>2
    <3> QED BY <3>1, <3>2, <3>3 DEF StreamOK, Holds, Back
  <2>3. ASSUME NEW d \in Clients PROVE StreamOK(d)'
    BY <1>1, <2>2, StreamsOK, StreamSame
  <2>4. ASSUME NEW fd \in Fds PROVE BufferOK(fd)'
    <3>1. BufferOK(fd) /\ (Open(fd) => sock[fd] \in Clients)
      BY <1>0, BuffersOK DEF Typed
    <3>2. CASE sock[fd] = c
      BY <1>3, <3>2 DEF BufferOK
    <3>3. CASE sock[fd] # c
      BY <1>1, <3>1, <3>3, BufferSame DEF Back
    <3> QED BY <3>2, <3>3
  <2> QED BY <2>3, <2>4 DEF StreamInv, StreamOK, BufferInv, BufferOK
<1> QED BY <1>1, <1>2, <1>3

(* Steps that take no unit anywhere, though connections come and go.        *)
LEMMA NothingMoved ==
  ASSUME TypeOK, StreamInv, BufferInv, UNCHANGED <<ended, sent, inq, outq, got>>,
         \A c \in Clients : link'[c] \in {"away", "queued"} => link[c] \in {"away", "queued"},
         \A fd \in Fds : \/ sock'[fd] = sock[fd] /\ sendBuf'[fd] = sendBuf[fd]
                         \/ sock'[fd] = NoClient
                         \/ /\ sock'[fd] \in Clients /\ link[sock'[fd]] = "queued"
                            /\ sendBuf'[fd] = <<>>
  PROVE  StreamInv' /\ BufferInv'
<1>0. Typed
  BY Types
<1>1. ASSUME NEW c \in Clients PROVE StreamOK(c)'
  BY StreamsOK, StreamSame
<1>2. ASSUME NEW fd \in Fds PROVE BufferOK(fd)'
  <2>1. CASE sock'[fd] = NoClient
    BY <2>1 DEF BufferOK, Open
  <2>2. CASE sock'[fd] = sock[fd] /\ sendBuf'[fd] = sendBuf[fd]
    BY <2>2, BuffersOK, BufferSame DEF Back
  <2>3. CASE /\ sock'[fd] \in Clients /\ link[sock'[fd]] = "queued"
             /\ sendBuf'[fd] = <<>>
    <3>1. PICK c \in Clients : c = sock'[fd]
      BY <2>3
    <3>2. /\ Len(inq[c]) = sent[c] /\ Holds(inq[c], c, 0) /\ Back(c)' = 0
          /\ sent[c] \in Nat
      BY <1>0, <2>3, <3>1, StreamsOK DEF StreamOK, Back, Typed
    <3>3. Len(sendBuf'[fd]) = 0 /\ Holds(sendBuf'[fd], c, 0)
      BY <2>3, HoldsNothing
    <3>4. Back(sock[fd])' = 0
      BY <3>1, <3>2 DEF Back
    <3>5. 0 + 0 = 0 /\ 0 + Len(inq[c]) = sent[c]
      BY <3>2
    <3> QED BY <3>1, <3>2, <3>3, <3>4, <3>5 DEF BufferOK, Holds
  <2> QED BY <2>1, <2>2, <2>3
<1> QED BY <1>1, <1>2 DEF StreamInv, StreamOK, BufferInv, BufferOK

(* recv() moves units of one connection from the kernel to the buffer.      *)
LEMMA SumReceived ==
  \A b, m, i, k \in Nat : k <= i => /\ (b + m) + k = b + (m + k)
                                    /\ (b + (m + k)) + (i - k) = b + m + i
OBVIOUS

LEMMA ReceivingStream ==
  ASSUME TypeOK, LinkInv, StreamInv, BufferInv,
         NEW fd \in Fds, NEW c \in Clients, NEW k \in 1..Len(inq[c]), Receiving(fd, c, k)
  PROVE  StreamInv' /\ BufferInv'
<1>0. Typed /\ c = sock[fd] /\ Open(fd) /\ link[c] = "open"
  BY Types DEF Receiving, LinkInv
<1>1. /\ inq[c] \in Seq(Unit) /\ Len(inq[c]) \in Nat /\ k \in 0..Len(inq[c]) /\ k \in Nat /\ k <= Len(inq[c])
      /\ sendBuf[fd] \in Seq(Unit) /\ Len(sendBuf[fd]) \in Nat
      /\ Back(c) \in Nat /\ sent[c] \in Nat
  BY <1>0 DEF Typed
<1>2. /\ inq'[c] = SubSeq(inq[c], k + 1, Len(inq[c]))
      /\ \A d \in Clients : d # c => inq'[d] = inq[d]
      /\ sendBuf'[fd] = sendBuf[fd] \o SubSeq(inq[c], 1, k)
      /\ \A g \in Fds : g # fd => sendBuf'[g] = sendBuf[g]
      /\ UNCHANGED <<sock, link, ended, sent, outq, got>>
  BY DEF Receiving, TypeOK, SocketsTypeOK
<1>3. \A d \in Clients : Back(d)' = Back(d)
  BY <1>2 DEF Back
<1>4. ASSUME NEW d \in Clients PROVE StreamOK(d)'
  <2>1. CASE d = c
    <3>1. StreamOK(c) /\ link'[c] \notin {"away", "queued"}
      BY <1>0, <1>2, StreamsOK
    <3> QED BY <1>2, <2>1, <3>1 DEF StreamOK, Back, Holds
  <2>2. CASE d # c
    BY <1>2, <2>2, StreamsOK, StreamSame
  <2> QED BY <2>1, <2>2
<1>5. ASSUME ended[c] # "reset" PROVE BufferOK(fd)'
  <2> DEFINE b == Back(c)
             q == SubSeq(inq[c], 1, k)
  <2>1. /\ Holds(sendBuf[fd], c, b) /\ Holds(inq[c], c, b + Len(sendBuf[fd]))
        /\ b + Len(sendBuf[fd]) + Len(inq[c]) = sent[c]
    BY <1>0, <1>5, BuffersOK DEF BufferOK
  <2>2. b + Len(sendBuf[fd]) \in Nat
    BY <1>1
  <2>3. /\ q \in Seq(Unit) /\ Len(q) = k /\ Holds(q, c, b + Len(sendBuf[fd]))
        /\ Len(inq'[c]) = Len(inq[c]) - k /\ Holds(inq'[c], c, (b + Len(sendBuf[fd])) + k)
    <3>1. q \in Seq(Unit) /\ Len(q) = k
      BY <1>1, CutBefore
    <3>2. Holds(q, c, b + Len(sendBuf[fd]))
      BY <1>1, <2>1, <2>2, HoldsCutBefore
    <3>3. Len(inq'[c]) = Len(inq[c]) - k
      BY <1>1, <1>2, CutBehind
    <3>4. Holds(inq'[c], c, (b + Len(sendBuf[fd])) + k)
      BY <1>1, <1>2, <2>1, <2>2, HoldsCutBehind
    <3> QED BY <3>1, <3>2, <3>3, <3>4
  <2>4. sendBuf'[fd] = sendBuf[fd] \o q
    BY <1>2
  <2> HIDE DEF q, b
  <2>5. b \in Nat
    BY <1>1 DEF b
  <2>6. Holds(sendBuf'[fd], c, b) /\ Len(sendBuf'[fd]) = Len(sendBuf[fd]) + k
    <3>1. Holds(sendBuf'[fd], c, b)
      BY <1>1, <2>1, <2>3, <2>4, <2>5, HoldsJoined
    <3>2. Len(sendBuf[fd] \o q) = Len(sendBuf[fd]) + Len(q)
      BY <1>1, <2>3, Joined
    <3> QED BY <2>3, <2>4, <3>1, <3>2
  <2>7. /\ (b + Len(sendBuf[fd])) + k = b + (Len(sendBuf[fd]) + k)
        /\ (b + (Len(sendBuf[fd]) + k)) + (Len(inq[c]) - k) = b + Len(sendBuf[fd]) + Len(inq[c])
    <3>1. b \in Nat /\ Len(sendBuf[fd]) \in Nat /\ Len(inq[c]) \in Nat /\ k \in Nat /\ k <= Len(inq[c])
      BY <1>1, <2>5
    <3> DEFINE m == Len(sendBuf[fd])
               i == Len(inq[c])
    <3>2. b \in Nat /\ m \in Nat /\ i \in Nat /\ k \in Nat /\ k <= i
      BY <3>1
    <3> HIDE DEF m, i
    <3>3. (b + m) + k = b + (m + k) /\ (b + (m + k)) + (i - k) = b + m + i
      BY <3>2, SumReceived
    <3> QED BY <3>3 DEF m, i
  <2>8. /\ Holds(inq'[c], c, b + Len(sendBuf'[fd]))
        /\ b + Len(sendBuf'[fd]) + Len(inq'[c]) = sent'[c]
    BY <1>2, <2>1, <2>3, <2>6, <2>7
  <2>9. Back(c)' = b /\ sock'[fd] = c
    BY <1>0, <1>2, <1>3 DEF b
  <2> QED BY <2>6, <2>8, <2>9 DEF BufferOK, Back, Holds
<1>6. ASSUME NEW g \in Fds PROVE BufferOK(g)'
  <2>1. CASE g = fd /\ ended[c] # "reset"
    BY <1>5, <2>1
  <2>2. CASE g = fd /\ ended[c] = "reset"
    BY <1>0, <1>2, <2>2 DEF BufferOK
  <2>3. CASE g # fd
    <3>1. Open(g) => sock[g] # c /\ sock[g] \in Clients
      BY <1>0, <2>3 DEF LinkInv, Typed
    <3> QED BY <1>2, <1>3, <2>3, <3>1, BuffersOK, BufferSame
  <2> QED BY <2>1, <2>2, <2>3
<1> QED BY <1>4, <1>6 DEF StreamInv, StreamOK, BufferInv, BufferOK

(* send() moves units of one connection from the buffer to the kernel.      *)
LEMMA SumWritten ==
  \A g, o, m, i, n \in Nat : n <= m =>
    /\ g + (o + n) = (g + o) + n
    /\ ((g + o) + n) + (m - n) = (g + o) + m
    /\ (g + o) + m + i \in Nat /\ (g + o) + n <= (g + o) + m + i
OBVIOUS

LEMMA WritingStream ==
  ASSUME TypeOK, LinkInv, StreamInv, BufferInv,
         NEW fd \in Fds, NEW c \in Clients, NEW n, Writing(fd, c, n)
  PROVE  StreamInv' /\ BufferInv'
<1>0. Typed /\ c = sock[fd] /\ Open(fd) /\ link[c] = "open" /\ ended[c] # "reset"
  BY Types DEF Writing, LinkInv
<1>1. /\ outq[c] \in Seq(Unit) /\ sendBuf[fd] \in Seq(Unit) /\ n \in 0..Len(sendBuf[fd])
      /\ Len(outq[c]) \in Nat /\ Len(sendBuf[fd]) \in Nat /\ Len(got[c]) \in Nat
      /\ Len(inq[c]) \in Nat /\ Back(c) \in Nat /\ sent[c] \in Nat /\ Len(outq[c]) + n <= Room
  BY <1>0 DEF Typed, Writing
<1>2. /\ outq'[c] = outq[c] \o SubSeq(sendBuf[fd], 1, n)
      /\ \A d \in Clients : d # c => outq'[d] = outq[d]
      /\ sendBuf'[fd] = SubSeq(sendBuf[fd], n + 1, Len(sendBuf[fd]))
      /\ \A g \in Fds : g # fd => sendBuf'[g] = sendBuf[g]
      /\ UNCHANGED <<sock, link, ended, sent, inq, got>>
  BY DEF Writing, Rest, TypeOK, SocketsTypeOK
<1>3. /\ Holds(sendBuf[fd], c, Back(c)) /\ Holds(inq[c], c, Back(c) + Len(sendBuf[fd]))
      /\ Back(c) + Len(sendBuf[fd]) + Len(inq[c]) = sent[c]
  BY <1>0, BuffersOK DEF BufferOK
<1>4. Holds(got[c], c, 0) /\ Holds(outq[c], c, Len(got[c]))
  BY StreamsOK DEF StreamOK
<1>5. /\ n \in Nat /\ n <= Len(sendBuf[fd])
      /\ SubSeq(sendBuf[fd], 1, n) \in Seq(Unit) /\ Len(SubSeq(sendBuf[fd], 1, n)) = n
      /\ Holds(SubSeq(sendBuf[fd], 1, n), c, Back(c))
      /\ Len(sendBuf'[fd]) = Len(sendBuf[fd]) - n /\ Holds(sendBuf'[fd], c, Back(c) + n)
  <2> PICK b \in Seq(Unit) : b = sendBuf[fd]
    BY <1>1
  <2> PICK k \in Nat : k = Back(c)
    BY <1>1
  <2>1. n \in Nat /\ n \in 0..Len(b) /\ n <= Len(b)
    BY <1>1
  <2>2. Holds(b, c, k)
    BY <1>3
  <2>3. SubSeq(b, 1, n) \in Seq(Unit) /\ Len(SubSeq(b, 1, n)) = n
    BY <2>1, CutBefore
  <2>4. Holds(SubSeq(b, 1, n), c, k)
    BY <2>1, <2>2, HoldsCutBefore
  <2>5. Len(SubSeq(b, n + 1, Len(b))) = Len(b) - n
    BY <2>1, CutBehind
  <2>6. Holds(SubSeq(b, n + 1, Len(b)), c, k + n)
    BY <2>1, <2>2, HoldsCutBehind
  <2>7. sendBuf'[fd] = SubSeq(b, n + 1, Len(b))
    BY <1>2
  <2> QED BY <2>1, <2>3, <2>4, <2>5, <2>6, <2>7
<1>6. Len(outq'[c]) = Len(outq[c]) + n
  <2> DEFINE q == SubSeq(sendBuf[fd], 1, n)
  <2>1. q \in Seq(Unit) /\ Len(q) = n /\ outq'[c] = outq[c] \o q
    BY <1>2, <1>5
  <2> HIDE DEF q
  <2>2. outq[c] \in Seq(Unit)
    BY <1>1
  <2>3. \A o \in Seq(Unit) : Len(o \o q) = Len(o) + Len(q)
    BY <2>1, Joined
  <2>4. Len(outq[c] \o q) = Len(outq[c]) + Len(q)
    BY <2>2, <2>3, Zenon
  <2> QED BY <2>1, <2>4
<1>7. Holds(outq'[c], c, Len(got[c]))
  <2>1. Holds(SubSeq(sendBuf[fd], 1, n), c, Len(got[c]) + Len(outq[c]))
    BY <1>5 DEF Back
  <2> QED BY <1>1, <1>2, <1>4, <1>5, <2>1, HoldsJoined
<1>8. /\ Back(c)' = Back(c) + n /\ Back(c) + n <= sent[c]
      /\ (Back(c) + n) + (Len(sendBuf[fd]) - n) = Back(c) + Len(sendBuf[fd])
  <2>1. Back(c)' = Len(got[c]) + (Len(outq[c]) + n) /\ Back(c) = Len(got[c]) + Len(outq[c])
    BY <1>2, <1>6 DEF Back
  <2> DEFINE g == Len(got[c])
             o == Len(outq[c])
             m == Len(sendBuf[fd])
             i == Len(inq[c])
  <2>2. /\ g \in Nat /\ o \in Nat /\ m \in Nat /\ i \in Nat /\ n \in Nat /\ n <= m
        /\ Back(c)' = g + (o + n) /\ Back(c) = g + o /\ Back(c) + m + i = sent[c]
    BY <1>1, <1>3, <1>5, <2>1
  <2> HIDE DEF g, o, m, i
  <2>3. /\ g + (o + n) = (g + o) + n /\ ((g + o) + n) + (m - n) = (g + o) + m
        /\ (g + o) + n <= (g + o) + m + i
    BY <2>2, SumWritten
  <2>4. /\ Back(c)' = Back(c) + n /\ Back(c) + n <= sent[c] /\ (Back(c) + n) + (m - n) = Back(c) + m
    BY <2>2, <2>3
  <2> QED BY <2>4 DEF m
<1>9. StreamOK(c)'
  <2>1. Holds(got'[c], c, 0) /\ Holds(outq'[c], c, Len(got'[c]))
    BY <1>2, <1>4, <1>7
  <2>2. Back(c)' <= sent'[c] /\ Len(outq'[c]) <= Room
    BY <1>1, <1>2, <1>6, <1>8
  <2>3. link'[c] \notin {"away", "queued"}
    BY <1>0, <1>2
  <2> QED BY <2>1, <2>2, <2>3 DEF StreamOK, Back, Holds
<1>10. ASSUME NEW d \in Clients PROVE StreamOK(d)'
  BY <1>2, <1>9, StreamsOK, StreamSame
<1>11. BufferOK(fd)'
  <2>1. Holds(sendBuf'[fd], c, Back(c)')
    BY <1>5, <1>8
  <2>2. Holds(inq'[c], c, Back(c)' + Len(sendBuf'[fd]))
    BY <1>2, <1>3, <1>5, <1>8
  <2>3. Back(c)' + Len(sendBuf'[fd]) + Len(inq'[c]) = sent'[c]
    BY <1>2, <1>3, <1>5, <1>8
  <2>4. sock'[fd] = c
    BY <1>0, <1>2
  <2> QED BY <2>1, <2>2, <2>3, <2>4 DEF BufferOK, Back, Holds
<1>12. ASSUME NEW g \in Fds, g # fd PROVE BufferOK(g)'
  <2>1. Open(g) => sock[g] # c /\ sock[g] \in Clients
    BY <1>0, <1>12 DEF LinkInv, Typed
  <2>2. Open(g) => Back(sock[g])' = Back(sock[g])
    BY <1>2, <2>1 DEF Back
  <2> QED BY <1>2, <1>12, <2>1, <2>2, BuffersOK, BufferSame
<1> QED BY <1>10, <1>11, <1>12 DEF StreamInv, StreamOK, BufferInv, BufferOK

LEMMA StreamMoves == IInv /\ Moves => StreamInv' /\ BufferInv'
<1> SUFFICES ASSUME IInv, Moves PROVE StreamInv' /\ BufferInv'
  OBVIOUS
<1>0. TypeOK /\ LinkInv /\ StreamInv /\ BufferInv
  BY DEF IInv
<1>1. ASSUME NEW c \in Clients, ClientStep(c) \/ ClientReads(c) PROVE StreamInv' /\ BufferInv'
  <2>1. UNCHANGED <<sock, sendBuf>>
    BY <1>1 DEF ClientStep, ClientReads, ServerWaits
  <2>2. CASE Connect(c)
    <3>1. /\ UNCHANGED <<ended, sent, inq, outq, got>> /\ link[c] = "away"
          /\ \A d \in Clients : d # c => link'[d] = link[d]
      BY <1>0, <2>2 DEF Connect, TypeOK, SocketsTypeOK
    <3> QED BY <1>0, <2>1, <3>1, NothingMoved
  <2>3. CASE Send(c)
    BY <1>0, <2>1, <2>3, SendStream
  <2>4. CASE Fin(c) \/ Reset(c)
    BY <1>0, <2>1, <2>4, EndStream
  <2>5. CASE Receive(c)
    BY <1>0, <2>1, <2>5, ReceiveStream
  <2> QED BY <1>1, <2>2, <2>3, <2>4, <2>5 DEF ClientStep, ClientReads
<1>2. CASE Ask
  BY <1>0, <1>2, NothingMoved DEF Ask, sockets
<1>3. CASE Dying
  <2>1. \A c \in Clients : link'[c] \in {"away", "queued"} => link[c] \in {"away", "queued"}
    BY <1>3 DEF Dying, Cleanup, Connected
  <2>2. \A fd \in Fds : sock'[fd] = NoClient
    BY <1>3 DEF Dying, Cleanup
  <2>3. UNCHANGED <<ended, sent, inq, outq, got>>
    BY <1>3 DEF Dying, Cleanup
  <2> QED BY <1>0, <2>1, <2>2, <2>3, NothingMoved
<1>4. CASE backlog # <<>> /\ Accepting(NewFd, Head(backlog))
  <2> DEFINE fd == NewFd
             c == Head(backlog)
  <2>1. /\ fd \in Fds /\ c \in Clients /\ link[c] = "queued"
        /\ sock' = [sock EXCEPT ![fd] = c] /\ link' = [link EXCEPT ![c] = "open"]
        /\ sendBuf' = [sendBuf EXCEPT ![fd] = <<>>]
        /\ UNCHANGED <<ended, sent, inq, outq, got>>
    BY <1>4 DEF Accepting
  <2> HIDE DEF fd, c
  <2>2. \A d \in Clients : link'[d] \in {"away", "queued"} => link[d] \in {"away", "queued"}
    BY <1>0, <2>1 DEF TypeOK, SocketsTypeOK
  <2>3. /\ sock'[fd] = c /\ sendBuf'[fd] = <<>>
        /\ \A g \in Fds : g # fd => sock'[g] = sock[g] /\ sendBuf'[g] = sendBuf[g]
    BY <1>0, <2>1 DEF TypeOK
  <2> QED BY <1>0, <2>1, <2>2, <2>3, NothingMoved
<1>5. ASSUME NEW fd \in Fds, Closing(fd) PROVE StreamInv' /\ BufferInv'
  <2>1. \A d \in Clients : link'[d] \in {"away", "queued"} => link[d] \in {"away", "queued"}
    BY <1>0, <1>5 DEF TypeOK, SocketsTypeOK, Closing
  <2>2. /\ sock'[fd] = NoClient
        /\ \A g \in Fds : g # fd => sock'[g] = sock[g] /\ sendBuf'[g] = sendBuf[g]
    BY <1>0, <1>5 DEF TypeOK, Closing
  <2>3. UNCHANGED <<ended, sent, inq, outq, got>>
    BY <1>5 DEF Closing
  <2> QED BY <1>0, <2>1, <2>2, <2>3, NothingMoved
<1>6. ASSUME NEW fd \in Fds, NEW k \in 1..Len(inq[sock[fd]]), Receiving(fd, sock[fd], k)
      PROVE  StreamInv' /\ BufferInv'
  BY <1>0, <1>6, ReceivingStream DEF Receiving
<1>7. ASSUME NEW fd \in Fds, Writing(fd, sock[fd], Taken(fd)) PROVE StreamInv' /\ BufferInv'
  <2>1. PICK c \in Clients : c = sock[fd]
    BY <1>7 DEF Writing
  <2>2. PICK n : n = Taken(fd)
    OBVIOUS
  <2> QED BY <1>0, <1>7, <2>1, <2>2, WritingStream
<1>8. ASSUME NEW fd \in Fds, Again(fd) \/ Idle(fd) PROVE StreamInv' /\ BufferInv'
  BY <1>0, <1>8, NothingMoved DEF Again, Idle, sockets
<1>9. CASE UNCHANGED vars
  BY <1>0, <1>9, NothingMoved DEF vars, sockets, server
<1> QED BY <1>1, <1>2, <1>3, <1>4, <1>5, <1>6, <1>7, <1>8, <1>9 DEF Moves

--------------------------------------------------------------------------------
(* A handler that is between two reads of its loop keeps all others out.    *)
LEMMA Draining ==
  ASSUME TypeOK, BatchInv
  PROVE  /\ batch = NoEvents => ~drained
         /\ turn \in {Listener, NoFd} => ~drained
         /\ \A fd \in Fds : turn \in {fd, NoFd} =>
              /\ ("in" \notin batch[fd] \/ "hup" \in batch[fd]) => ~drained
              /\ \A g \in Fds : g # fd => ~(drained /\ turn = g)
<1>1. NoFd \notin Fds /\ Listener \notin Fds
  BY ServersAssumption
<1>2. drained => turn \in Fds /\ "in" \in batch[turn] /\ "hup" \notin batch[turn]
  BY DEF BatchInv
<1>3. \A fd \in Fds : NoEvents[fd] = {}
  BY DEF NoEvents
<1> QED BY <1>1, <1>2, <1>3

(* The registration of one descriptor.                                      *)
WatchOK(fd) ==
  Open(fd) =>
    /\ fd \in watched
    /\ kind \in {"poll", "LT", "ET"} /\ ~(turn = fd /\ drained) =>
         mask[fd] = {"in", "out"} \/ (mask[fd] = {"in"} /\ sendBuf[fd] = <<>>)

LEMMA WatchedOK == OutputIsWatched <=> \A fd \in Fds : WatchOK(fd)
BY DEF OutputIsWatched, WatchOK

LEMMA WatchSame ==
  ASSUME NEW g \in Fds, WatchOK(g), ~(drained /\ turn = g),
         sock'[g] = sock[g], sendBuf'[g] = sendBuf[g], mask'[g] = mask[g], kind' = kind,
         Open(g) /\ g \in watched => g \in watched'
  PROVE  WatchOK(g)'
BY DEF WatchOK, Open

LEMMA WatchMoves == IInv /\ Moves => OutputIsWatched'
<1> SUFFICES ASSUME IInv, Moves, NEW g \in Fds PROVE WatchOK(g)'
  BY DEF OutputIsWatched, WatchOK
<1>0. TypeOK /\ BatchInv /\ WatchOK(g) /\ g # NoFd /\ g # Listener
  BY WatchedOK, ServersAssumption DEF IInv
<1>1. CASE \E c \in Clients : ClientStep(c) \/ ClientReads(c)
  <2>1. ServerWaits
    BY <1>1 DEF ClientStep, ClientReads
  <2> QED BY <1>0, <2>1 DEF ServerWaits, WatchOK, Open
<1>2. CASE Ask
  <2>1. ~drained
    BY <1>0, <1>2, Draining DEF Ask, Waiting
  <2>2. kind # "ONESHOT" => mask'[g] = mask[g]
    BY <1>0, <1>2 DEF Ask, TypeOK
  <2> QED BY <1>0, <1>2, <2>1, <2>2 DEF Ask, WatchOK, Open
<1>3. CASE Dying
  BY <1>3 DEF Dying, Cleanup, WatchOK, Open
<1>4. CASE backlog # <<>> /\ Accepting(NewFd, Head(backlog))
  <2> DEFINE fd == NewFd
             c == Head(backlog)
  <2>1. /\ fd \in Fds /\ sock' = [sock EXCEPT ![fd] = c]
        /\ sendBuf' = [sendBuf EXCEPT ![fd] = <<>>] /\ mask' = [mask EXCEPT ![fd] = {"in"}]
        /\ watched' = watched \cup {fd} /\ turn \in {Listener, NoFd}
        /\ kind' = kind
    BY <1>4 DEF Accepting
  <2> HIDE DEF fd, c
  <2>2. CASE g = fd
    BY <1>0, <2>1, <2>2 DEF WatchOK, TypeOK
  <2>3. CASE g # fd
    <3>1. sock'[g] = sock[g] /\ sendBuf'[g] = sendBuf[g] /\ mask'[g] = mask[g]
      BY <1>0, <2>1, <2>3 DEF TypeOK
    <3>2. ~drained
      BY <1>0, <2>1, Draining
    <3> QED BY <1>0, <2>1, <3>1, <3>2, WatchSame
  <2> QED BY <2>2, <2>3
<1>5. ASSUME NEW fd \in Fds, turn \in {fd, NoFd}, fd # g, kind' = kind,
             \A x \in Fds : x # fd => /\ sock'[x] = sock[x] /\ sendBuf'[x] = sendBuf[x]
                                      /\ mask'[x] = mask[x] /\ (x \in watched => x \in watched')
      PROVE  WatchOK(g)'
  BY <1>0, <1>5, Draining, WatchSame
<1>6. ASSUME NEW fd \in Fds, Closing(fd) PROVE WatchOK(g)'
  <2>1. CASE g = fd
    BY <1>0, <1>6, <2>1 DEF Closing, WatchOK, Open, TypeOK
  <2>2. \A x \in Fds : x # fd => /\ sock'[x] = sock[x] /\ sendBuf'[x] = sendBuf[x]
                                 /\ mask'[x] = mask[x] /\ (x \in watched => x \in watched')
    BY <1>0, <1>6 DEF Closing, TypeOK
  <2> QED BY <1>5, <1>6, <2>1, <2>2 DEF Closing
<1>7. ASSUME NEW fd \in Fds, NEW k, Receiving(fd, sock[fd], k) PROVE WatchOK(g)'
  <2>1. \A x \in Fds : x # fd => /\ sock'[x] = sock[x] /\ sendBuf'[x] = sendBuf[x]
                                 /\ mask'[x] = mask[x] /\ (x \in watched => x \in watched')
    BY <1>0, <1>7 DEF Receiving, TypeOK, NoModify, ModifyUnlessSelect, Modify
  <2>2. CASE g = fd
    <3>1. Open(fd) /\ sock' = sock /\ watched' = watched /\ kind' = kind
      BY <1>7 DEF Receiving
    <3>2. CASE Edge
      BY <1>0, <1>7, <2>2, <3>1, <3>2 DEF Receiving, WatchOK, Edge
    <3>3. CASE ~Edge /\ kind # "select"
      BY <1>0, <1>7, <2>2, <3>1, <3>3 DEF Receiving, WatchOK, ModifyUnlessSelect, Modify, TypeOK
    <3>4. CASE kind = "select"
      BY <1>0, <2>2, <3>1, <3>4 DEF WatchOK, Open
    <3> QED BY <3>2, <3>3, <3>4
  <2> QED BY <1>5, <1>7, <2>1, <2>2 DEF Receiving
<1>8. ASSUME NEW fd \in Fds, NEW n, Writing(fd, sock[fd], n) PROVE WatchOK(g)'
  <2>1. \A x \in Fds : x # fd => /\ sock'[x] = sock[x] /\ sendBuf'[x] = sendBuf[x]
                                 /\ mask'[x] = mask[x] /\ (x \in watched => x \in watched')
    BY <1>0, <1>8 DEF Writing, TypeOK, NoModify, ModifyUnlessSelect, Modify
  <2>2. CASE g = fd
    <3>1. Open(fd) /\ sock' = sock /\ watched' = watched /\ kind' = kind
      BY <1>8 DEF Writing
    <3>2. ~drained
      BY <1>0, <1>8, Draining DEF Writing
    <3>3. fd \in watched
      BY <1>0, <2>2, <3>1 DEF WatchOK
    <3>4. CASE kind \in {"poll", "LT", "ET"}
      <4>1. mask[fd] = {"in", "out"}
        BY <1>0, <1>8, <2>2, <3>1, <3>2, <3>4 DEF WatchOK, Writing
      <4>2. CASE sendBuf'[fd] = <<>>
        <5>1. mask'[fd] = {"in"}
          BY <1>0, <1>8, <3>4, <4>2 DEF Writing, ModifyUnlessSelect, Modify, TypeOK
        <5> QED BY <2>2, <3>1, <3>3, <4>2, <5>1 DEF WatchOK
      <4>3. CASE sendBuf'[fd] # <<>>
        <5>1. mask'[fd] = mask[fd]
          BY <1>0, <1>8, <4>3 DEF Writing, NoModify, TypeOK
        <5> QED BY <2>2, <3>1, <3>3, <4>1, <5>1 DEF WatchOK
      <4> QED BY <4>2, <4>3
    <3> QED BY <2>2, <3>1, <3>3, <3>4 DEF WatchOK
  <2> QED BY <1>5, <1>8, <2>1, <2>2 DEF Writing
<1>9. ASSUME NEW fd \in Fds, Again(fd) \/ Idle(fd) PROVE WatchOK(g)'
  <2>1. \A x \in Fds : x # fd => /\ sock'[x] = sock[x] /\ sendBuf'[x] = sendBuf[x]
                                 /\ mask'[x] = mask[x] /\ (x \in watched => x \in watched')
    BY <1>0, <1>9 DEF Again, Idle, TypeOK, NoModify, ModifyUnlessSelect, Modify
  <2>2. CASE g = fd
    <3>1. UNCHANGED <<sock, watched, kind, sendBuf>>
      BY <1>9 DEF Again, Idle
    <3>2. CASE Again(fd) /\ drained
      BY <1>0, <2>2, <3>1, <3>2 DEF Again, Modify, WatchOK, Open, TypeOK
    <3>3. CASE Again(fd) /\ ~drained
      BY <1>0, <2>2, <3>1, <3>3 DEF Again, NoModify, WatchOK, Open
    <3>4. CASE Idle(fd) /\ kind # "select"
      BY <1>0, <2>2, <3>1, <3>4 DEF Idle, ModifyUnlessSelect, Modify, WatchOK, Open, TypeOK
    <3>5. CASE kind = "select"
      BY <1>0, <2>2, <3>1, <3>5 DEF WatchOK, Open
    <3> QED BY <1>9, <3>2, <3>3, <3>4, <3>5
  <2> QED BY <1>5, <1>9, <2>1, <2>2 DEF Again, Idle
<1>10. CASE UNCHANGED vars
  BY <1>0, <1>10 DEF vars, sockets, server, WatchOK, Open
<1> QED BY <1>1, <1>2, <1>3, <1>4, <1>6, <1>7, <1>8, <1>9, <1>10 DEF Moves

--------------------------------------------------------------------------------
(* The events of a batch.                                                   *)
BatchOK(fd) ==
  /\ ~Open(fd) => batch[fd] \subseteq {"out"}
  /\ ~Open(fd) /\ batch[fd] # {} => ~Epoll /\ SomeoneEnded
  /\ Open(fd) /\ ~Edge => /\ "in" \in batch[fd] => Readable(sock[fd])
                          /\ "out" \in batch[fd] => Writable(sock[fd])

ListenerOK == batch[Listener] \subseteq {"in"} /\ (batch[Listener] # {} => backlog # <<>>)

DrainOK == drained => /\ Edge /\ turn \in Fds /\ Open(turn)
                      /\ "in" \in batch[turn] /\ "hup" \notin batch[turn]

LEMMA BatchParts == BatchInv <=> ListenerOK /\ (\A fd \in Fds : BatchOK(fd)) /\ DrainOK
BY DEF BatchInv, BatchOK, ListenerOK, DrainOK

LEMMA BatchSame ==
  ASSUME NEW g \in Fds, BatchOK(g), batch'[g] \subseteq batch[g],
         sock'[g] = sock[g], kind' = kind, SomeoneEnded => SomeoneEnded',
         Open(g) => /\ Readable(sock[g]) => Readable(sock[g])'
                    /\ Writable(sock[g]) => Writable(sock[g])'
  PROVE  BatchOK(g)'
<1>1. Readable(sock[g])' <=> (inq'[sock[g]] # <<>> \/ ended'[sock[g]] # "no")
  BY DEF Readable
<1>2. Writable(sock[g])' <=> (Len(outq'[sock[g]]) < Room \/ ended'[sock[g]] = "reset")
  BY DEF Writable
<1>3. /\ Open(g)' <=> Open(g)
      /\ Edge' <=> Edge
      /\ Epoll' <=> Epoll
  BY DEF Open, Edge, Epoll
<1> QED BY <1>1, <1>2, <1>3 DEF BatchOK

(* What a client does adds to what is ready, and an edge tells of it.       *)
LEMMA ClientsAdd ==
  ASSUME TypeOK, StreamInv, NEW c \in Clients, ClientStep(c) \/ ClientReads(c)
  PROVE  /\ \A d \in Clients : /\ Readable(d) => Readable(d)'
                               /\ Writable(d) => Writable(d)'
                               /\ ended[d] # "no" => ended'[d] # "no"
                               /\ Edge /\ Readable(d)' => Readable(d) \/ FdOf(d) \subseteq edges'
                               /\ Edge /\ Writable(d)' => Writable(d) \/ FdOf(d) \subseteq edges'
         /\ edges \subseteq edges' /\ (backlog # <<>> => backlog' # <<>>)
<1>1. edges \subseteq edges'
  BY DEF ClientStep, ClientReads, Raise
<1>2. ASSUME NEW d \in Clients, d # c
      PROVE  inq'[d] = inq[d] /\ outq'[d] = outq[d] /\ ended'[d] = ended[d]
  BY <1>2 DEF TypeOK, SocketsTypeOK, ClientStep, ClientReads, Connect, Send, Fin, Reset, Receive
<1>3. /\ Readable(c) => Readable(c)'
      /\ Writable(c) => Writable(c)'
      /\ ended[c] # "no" => ended'[c] # "no"
      /\ Edge /\ Readable(c)' => Readable(c) \/ FdOf(c) \subseteq edges'
      /\ Edge /\ Writable(c)' => Writable(c) \/ FdOf(c) \subseteq edges'
      /\ backlog # <<>> => backlog' # <<>>
  <2>1. CASE Connect(c)
    <3>1. inq' = inq /\ outq' = outq /\ ended' = ended /\ backlog' = Append(backlog, c)
      BY <2>1 DEF Connect
    <3>2. backlog' # <<>>
      <4>1. backlog \in Seq(Clients)
        BY DEF TypeOK, SocketsTypeOK
      <4> QED BY <3>1, <4>1
    <3> QED BY <3>1, <3>2 DEF Readable, Writable
  <2>2. CASE Send(c) /\ Raise(FdOf(c))
    <3>1. /\ inq'[c] = Append(inq[c], <<c, sent[c] + 1>>) /\ outq' = outq /\ ended' = ended
          /\ backlog' = backlog
      BY <2>2 DEF Send, TypeOK, SocketsTypeOK
    <3>2. Len(inq'[c]) = Len(inq[c]) + 1 /\ Len(inq[c]) \in Nat
      BY <2>2, SendAppends
    <3>3. inq'[c] # <<>>
      BY <3>2
    <3> QED BY <2>2, <3>1, <3>3 DEF Readable, Writable, Raise
  <2>3. CASE (Fin(c) \/ Reset(c)) /\ Raise(FdOf(c))
    <3>1. /\ ended'[c] # "no" /\ backlog' = backlog
          /\ \/ outq' = outq /\ ended[c] = "no"
             \/ ended'[c] = "reset"
      BY <2>3 DEF Fin, Reset, TypeOK, SocketsTypeOK
    <3> QED BY <2>3, <3>1 DEF Readable, Writable, Raise
  <2>4. CASE ClientReads(c)
    <3>1. inq' = inq /\ ended' = ended /\ backlog' = backlog
      BY <2>4 DEF ClientReads, Receive
    <3>2. StreamOK(c) /\ Receive(c)
      BY <2>4, StreamsOK DEF ClientReads
    <3>3. Len(outq'[c]) = Len(outq[c]) - 1 /\ Len(outq[c]) \in Nat
      BY <3>2, ReceiveTakes DEF StreamOK
    <3>4. Room \in Nat /\ Len(outq[c]) <= Room
      BY <3>2, SocketsAssumption DEF StreamOK
    <3>5. Len(outq'[c]) < Room
      BY <3>3, <3>4
    <3>6. Len(outq[c]) < Room \/ Len(outq[c]) = Room
      BY <3>3, <3>4
    <3> QED BY <2>4, <3>1, <3>5, <3>6 DEF Readable, Writable, ClientReads, Raise
  <2> QED BY <2>1, <2>2, <2>3, <2>4 DEF ClientStep
<1>4. ASSUME NEW d \in Clients, d # c
      PROVE  (Readable(d)' <=> Readable(d)) /\ (Writable(d)' <=> Writable(d))
  BY <1>2, <1>4 DEF Readable, Writable
<1> QED BY <1>1, <1>2, <1>3, <1>4

LEMMA EndedForGood ==
  ASSUME TypeOK, StreamInv, Moves, SomeoneEnded PROVE SomeoneEnded'
<1>1. CASE \E c \in Clients : ClientStep(c) \/ ClientReads(c)
  BY <1>1, ClientsAdd DEF SomeoneEnded
<1>2. CASE ~(\E c \in Clients : ClientStep(c) \/ ClientReads(c))
  <2>1. ended' = ended
    BY <1>2 DEF Moves, Ask, Dying, Cleanup, Accepting, Closing, Receiving, Writing, Again, Idle,
                vars, sockets
  <2> QED BY <2>1 DEF SomeoneEnded
<1> QED BY <1>1, <1>2

LEMMA BatchAsk == ASSUME IInv, Ask PROVE BatchInv'
<1>0. TypeOK /\ BatchInv /\ ~drained
  BY Draining DEF IInv, Ask, Waiting
<1>1. /\ batch' = Events /\ drained' = drained
      /\ UNCHANGED <<sockets, kind, sock, backlog, inq, outq, ended>>
  BY DEF Ask, sockets
<1>2. ListenerOK'
  <2>1. Events[Listener] \subseteq {"in"} /\ (Events[Listener] # {} => backlog # <<>>)
    BY DEF Events
  <2> QED BY <1>1, <2>1 DEF ListenerOK
<1>3. ASSUME NEW fd \in Fds PROVE BatchOK(fd)'
  <2>1. fd # Listener
    BY ServersAssumption
  <2>2. Events[fd] # {} => Open(fd) /\ Events[fd] \subseteq Ready(sock[fd])
    BY <2>1 DEF Events
  <2>3. \A e \in Events[fd] : /\ e = "in" => Readable(sock[fd])
                              /\ e = "out" => Writable(sock[fd])
    BY <2>2 DEF Ready
  <2>4. /\ Readable(sock[fd]) => Readable(sock[fd])'
        /\ Writable(sock[fd]) => Writable(sock[fd])'
    BY <1>1 DEF Readable, Writable
  <2> QED BY <1>1, <2>2, <2>3, <2>4 DEF BatchOK, Open
<1>4. DrainOK'
  BY <1>0, <1>1 DEF DrainOK
<1> QED BY <1>2, <1>3, <1>4 DEF BatchInv, BatchOK, ListenerOK, DrainOK

LEMMA BatchAccepting ==
  ASSUME IInv, Moves, backlog # <<>>, NEW fd, NEW c, Accepting(fd, c) PROVE BatchInv'
<1> DEFINE rest == IF MoreToAccept THEN {"in"} ELSE {}
<1>0. TypeOK /\ BatchInv /\ StreamInv /\ LinkInv
  BY DEF IInv
<1>1. /\ fd \in Fds /\ ~Open(fd) /\ c \in Clients /\ link[c] = "queued"
      /\ sock' = [sock EXCEPT ![fd] = c] /\ HandledThen(Listener, rest)
      /\ turn \in {Listener, NoFd} /\ backlog' = Tail(backlog)
      /\ UNCHANGED <<kind, drained, ended, inq, outq>>
  BY DEF Accepting
<1>2. rest \in SUBSET {"in", "out", "hup"} /\ rest \subseteq {"in"} /\ (rest # {} => Len(backlog) > 1)
  BY DEF MoreToAccept
<1>3. Len(Tail(backlog)) = Len(backlog) - 1 /\ Len(backlog) \in Nat
  BY <1>0, HeadOfBacklog
<1> HIDE DEF rest
<1>4. batch'[Listener] = rest /\ \A g \in Fds : batch'[g] = batch[g]
  BY <1>0, <1>1, <1>2, TypeHandled, ServersAssumption
<1>5. ListenerOK'
  <2>1. rest # {} => Len(Tail(backlog)) > 0
    BY <1>2, <1>3
  <2>2. rest # {} => Tail(backlog) # <<>>
    <3>1. Len(<<>>) = 0
      OBVIOUS
    <3>2. ~(0 > 0)
      OBVIOUS
    <3> QED BY <2>1, <3>1, <3>2
  <2> QED BY <1>1, <1>2, <1>4, <2>2 DEF ListenerOK
<1>6. SomeoneEnded => SomeoneEnded'
  BY <1>0, EndedForGood
<1>7. \A d : (Readable(d)' <=> Readable(d)) /\ (Writable(d)' <=> Writable(d))
  BY <1>1 DEF Readable, Writable
<1>8. BatchOK(fd)'
  <2>1. sock'[fd] = c /\ Open(fd)' /\ batch'[fd] \subseteq {"out"}
    <3>1. batch[fd] \subseteq {"out"}
      BY <1>0, <1>1, BatchParts DEF BatchOK
    <3>2. sock'[fd] = c /\ c # NoClient
      BY <1>0, <1>1, ServersAssumption DEF TypeOK
    <3> QED BY <1>1, <1>4, <3>1, <3>2 DEF Open
  <2>2. Writable(c)
    <3>1. Back(c) = 0
      BY <1>0, <1>1, StreamsOK DEF StreamOK
    <3>2. Len(outq[c]) = 0
      <4>1. Len(got[c]) \in Nat /\ Len(outq[c]) \in Nat
        BY <1>0, <1>1, Types DEF Typed
      <4>2. Len(got[c]) + Len(outq[c]) = 0
        BY <3>1 DEF Back
      <4> QED BY <4>1, <4>2, NoneLeft
    <3>3. Room \in Nat \ {0}
      BY SocketsAssumption
    <3>4. Len(outq[c]) < Room
      BY <3>2, <3>3
    <3> QED BY <3>4 DEF Writable
  <2>3. Writable(sock[fd])'
    BY <1>7, <2>1, <2>2 DEF Writable
  <2> QED BY <2>1, <2>3 DEF BatchOK
<1>9. ASSUME NEW g \in Fds, g # fd PROVE BatchOK(g)'
  <2>1. BatchOK(g) /\ sock'[g] = sock[g]
    BY <1>0, <1>1, <1>9, BatchParts DEF TypeOK
  <2> QED BY <1>1, <1>4, <1>6, <1>7, <2>1, BatchSame
<1>10. DrainOK'
  BY <1>0, <1>1, Draining DEF DrainOK
<1> QED BY <1>5, <1>8, <1>9, <1>10 DEF BatchInv, BatchOK, ListenerOK, DrainOK

(* The handlers of one descriptor: the others keep their events.            *)
LEMMA BatchOthers ==
  ASSUME TypeOK, LinkInv, BatchInv, NEW fd \in Fds, NEW g \in Fds, g # fd,
         batch'[g] = batch[g], sock'[g] = sock[g], kind' = kind, ended' = ended,
         \A d \in Clients : d # sock[fd] => inq'[d] = inq[d] /\ outq'[d] = outq[d]
  PROVE  BatchOK(g)'
<1>1. BatchOK(g) /\ (SomeoneEnded => SomeoneEnded')
  BY BatchParts DEF SomeoneEnded
<1>2. Open(g) => sock[g] \in Clients /\ sock[g] # sock[fd]
  BY DEF LinkInv, TypeOK, Open
<1>3. Open(g) => /\ Readable(sock[g]) => Readable(sock[g])'
                 /\ Writable(sock[g]) => Writable(sock[g])'
  BY <1>2 DEF Readable, Writable
<1> QED BY <1>1, <1>3, BatchSame

LEMMA BatchClosing == ASSUME IInv, NEW fd \in Fds, Closing(fd) PROVE BatchInv'
<1>0. TypeOK /\ BatchInv /\ LinkInv
  BY DEF IInv
<1>1. /\ sock' = [sock EXCEPT ![fd] = NoClient] /\ drained' = FALSE /\ sock[fd] \in Clients
      /\ UNCHANGED <<kind, backlog, ended, inq, outq>>
  BY DEF Closing
<1>2. PICK rest \in SUBSET {"out"} :
        HandledThen(fd, rest) /\ (rest # {} => ~Epoll /\ ended[sock[fd]] # "no")
  BY DEF Closing
<1>3. rest \in SUBSET {"in", "out", "hup"} /\ fd # Listener
  BY ServersAssumption
<1>4. batch'[fd] = rest /\ \A g \in Fds \cup {Listener} : g # fd => batch'[g] = batch[g]
  BY <1>0, <1>2, <1>3, TypeHandled
<1>5. ListenerOK'
  BY <1>0, <1>1, <1>3, <1>4, BatchParts DEF ListenerOK
<1>6. BatchOK(fd)'
  <2>1. ~Open(fd)' /\ (Epoll' <=> Epoll)
    BY <1>0, <1>1 DEF Open, Epoll, TypeOK
  <2>2. rest # {} => SomeoneEnded'
    BY <1>1, <1>2 DEF SomeoneEnded
  <2> QED BY <1>2, <1>4, <2>1, <2>2 DEF BatchOK
<1>7. ASSUME NEW g \in Fds, g # fd PROVE BatchOK(g)'
  <2>1. sock'[g] = sock[g]
    BY <1>0, <1>1, <1>7 DEF TypeOK
  <2> QED BY <1>0, <1>1, <1>4, <1>7, <2>1, BatchOthers
<1>8. DrainOK'
  BY <1>1 DEF DrainOK
<1> QED BY <1>5, <1>6, <1>7, <1>8 DEF BatchInv, BatchOK, ListenerOK, DrainOK

LEMMA BatchReceiving ==
  ASSUME IInv, NEW fd \in Fds, NEW c, NEW k, c = sock[fd], Receiving(fd, c, k) PROVE BatchInv'
<1>0. TypeOK /\ BatchInv /\ LinkInv
  BY DEF IInv
<1>1. /\ Open(fd) /\ c \in Clients /\ "in" \in batch[fd] /\ "hup" \notin batch[fd]
      /\ turn \in {fd, NoFd}
      /\ UNCHANGED <<kind, sock, backlog, ended, outq>>
  BY DEF Receiving
<1>2. \A d \in Clients : d # c => inq'[d] = inq[d] /\ outq'[d] = outq[d]
  BY <1>0 DEF Receiving, TypeOK, SocketsTypeOK
<1>3. fd # Listener
  BY ServersAssumption
<1>4. /\ Open(fd)' <=> Open(fd)
      /\ Edge' <=> Edge
      /\ Epoll' <=> Epoll
  BY <1>1 DEF Open, Edge, Epoll
<1>5. CASE Edge
  <2>1. batch' = batch /\ drained' = TRUE /\ turn' = fd
    BY <1>5 DEF Receiving
  <2>2. ListenerOK'
    BY <1>0, <1>1, <2>1, BatchParts DEF ListenerOK
  <2>3. BatchOK(fd)'
    BY <1>1, <1>4, <1>5 DEF BatchOK
  <2>4. ASSUME NEW g \in Fds, g # fd PROVE BatchOK(g)'
    BY <1>0, <1>1, <1>2, <2>1, <2>4, BatchOthers
  <2>5. DrainOK'
    <3>1. Edge' /\ turn' \in Fds /\ "in" \in batch'[turn'] /\ "hup" \notin batch'[turn']
      BY <1>1, <1>4, <1>5, <2>1
    <3>2. Open(turn)'
      BY <1>1, <2>1 DEF Open
    <3> QED BY <3>1, <3>2 DEF DrainOK
  <2> QED BY <2>2, <2>3, <2>4, <2>5 DEF BatchInv, BatchOK, ListenerOK, DrainOK
<1>6. CASE ~Edge
  <2>1. HandledThen(fd, batch[fd] \ {"in"}) /\ drained' = drained
    BY <1>6 DEF Receiving
  <2>2. batch[fd] \ {"in"} \in SUBSET {"in", "out", "hup"}
    BY <1>0 DEF TypeOK
  <2>3. /\ batch'[fd] = batch[fd] \ {"in"}
        /\ \A g \in Fds \cup {Listener} : g # fd => batch'[g] = batch[g]
    BY <1>0, <2>1, <2>2, TypeHandled
  <2>4. ListenerOK'
    BY <1>0, <1>1, <1>3, <2>3, BatchParts DEF ListenerOK
  <2>5. BatchOK(fd)'
    <3>1. "out" \in batch[fd] => Writable(c)
      BY <1>0, <1>1, <1>6, BatchParts DEF BatchOK
    <3>2. /\ Writable(c) => Writable(c)'
          /\ Writable(sock[fd])' <=> Writable(c)'
      BY <1>1 DEF Writable
    <3> QED BY <1>1, <1>4, <2>3, <3>1, <3>2 DEF BatchOK
  <2>6. ASSUME NEW g \in Fds, g # fd PROVE BatchOK(g)'
    BY <1>0, <1>1, <1>2, <2>3, <2>6, BatchOthers
  <2>7. DrainOK'
    BY <1>0, <1>4, <1>6, <2>1 DEF DrainOK, BatchInv
  <2> QED BY <2>4, <2>5, <2>6, <2>7 DEF BatchInv, BatchOK, ListenerOK, DrainOK
<1> QED BY <1>5, <1>6

LEMMA BatchTaken ==
  ASSUME IInv, NEW fd \in Fds, NEW e \in {"in", "out"}, turn \in {fd, NoFd}, e \in batch[fd],
         HandledThen(fd, batch[fd] \ {e}), kind' = kind, sock' = sock, backlog' = backlog,
         ended' = ended, drained' = FALSE, inq' = inq,
         \A d \in Clients : d # sock[fd] => outq'[d] = outq[d],
         e = "in" => outq' = outq
  PROVE  BatchInv'
<1>0. TypeOK /\ BatchInv /\ LinkInv
  BY DEF IInv
<1>1. batch[fd] \ {e} \in SUBSET {"in", "out", "hup"} /\ fd # Listener
  BY <1>0, ServersAssumption DEF TypeOK
<1>2. /\ batch'[fd] = batch[fd] \ {e}
      /\ \A g \in Fds \cup {Listener} : g # fd => batch'[g] = batch[g]
  BY <1>0, <1>1, TypeHandled
<1>3. ListenerOK'
  BY <1>0, <1>1, <1>2, BatchParts DEF ListenerOK
<1>4. BatchOK(fd)'
  <2>1. BatchOK(fd) /\ (SomeoneEnded' <=> SomeoneEnded) /\ (Open(fd)' <=> Open(fd))
        /\ (Edge' <=> Edge) /\ (Epoll' <=> Epoll)
    BY <1>0, BatchParts DEF SomeoneEnded, Open, Edge, Epoll
  <2>2. Readable(sock[fd])' <=> Readable(sock[fd])
    BY DEF Readable
  <2>3. e = "in" => (Writable(sock[fd])' <=> Writable(sock[fd]))
    BY DEF Writable
  <2>4. "out" \in batch'[fd] => e = "in"
    BY <1>2
  <2>5. batch'[fd] \subseteq batch[fd] /\ (batch'[fd] # {} => batch[fd] # {})
    BY <1>2
  <2> QED BY <2>1, <2>2, <2>3, <2>4, <2>5 DEF BatchOK
<1>5. ASSUME NEW g \in Fds, g # fd PROVE BatchOK(g)'
  BY <1>0, <1>2, <1>5, BatchOthers
<1>6. DrainOK'
  BY DEF DrainOK
<1> QED BY <1>3, <1>4, <1>5, <1>6 DEF BatchInv, BatchOK, ListenerOK, DrainOK

LEMMA BatchMoves == IInv /\ Moves => BatchInv'
<1> SUFFICES ASSUME IInv, Moves PROVE BatchInv'
  OBVIOUS
<1>0. TypeOK /\ BatchInv /\ LinkInv /\ StreamInv
  BY DEF IInv
<1>1. ASSUME NEW c \in Clients, ClientStep(c) \/ ClientReads(c) PROVE BatchInv'
  <2>1. UNCHANGED <<kind, sock, batch, turn, drained>>
    BY <1>1 DEF ClientStep, ClientReads, ServerWaits
  <2>2. /\ \A d \in Clients : (Readable(d) => Readable(d)') /\ (Writable(d) => Writable(d)')
        /\ backlog # <<>> => backlog' # <<>>
    BY <1>0, <1>1, ClientsAdd
  <2>3. SomeoneEnded => SomeoneEnded'
    BY <1>0, EndedForGood
  <2>4. ASSUME NEW g \in Fds PROVE BatchOK(g)'
    <3>1. BatchOK(g) /\ (Open(g) => sock[g] \in Clients)
      BY <1>0, BatchParts DEF TypeOK, Open
    <3> QED BY <2>1, <2>2, <2>3, <3>1, BatchSame
  <2>5. ListenerOK' /\ DrainOK'
    BY <1>0, <2>1, <2>2, BatchParts DEF ListenerOK, DrainOK, Open, Edge
  <2> QED BY <2>4, <2>5 DEF BatchInv, BatchOK, ListenerOK, DrainOK
<1>2. CASE Ask
  BY <1>2, BatchAsk
<1>3. CASE Dying
  <2>1. \A g \in Fds \cup {Listener} : batch'[g] = {}
    BY <1>3 DEF Dying, Cleanup, NoEvents
  <2>2. drained' = FALSE
    BY <1>3 DEF Dying, Cleanup
  <2> QED BY <2>1, <2>2 DEF BatchInv
<1>4. CASE backlog # <<>> /\ Accepting(NewFd, Head(backlog))
  <2>1. PICK fd, c : fd = NewFd /\ c = Head(backlog)
    OBVIOUS
  <2> QED BY <1>4, <2>1, BatchAccepting
<1>5. ASSUME NEW fd \in Fds, Closing(fd) PROVE BatchInv'
  BY <1>5, BatchClosing
<1>6. ASSUME NEW fd \in Fds, NEW k, Receiving(fd, sock[fd], k) PROVE BatchInv'
  <2>1. PICK c : c = sock[fd]
    OBVIOUS
  <2> QED BY <1>6, <2>1, BatchReceiving
<1>7. ASSUME NEW fd \in Fds, NEW n, Writing(fd, sock[fd], n) PROVE BatchInv'
  <2>1. drained' = FALSE
    BY <1>0, <1>7, Draining DEF Writing, TypeOK
  <2>2. \A d \in Clients : d # sock[fd] => outq'[d] = outq[d]
    BY <1>0, <1>7 DEF Writing, TypeOK, SocketsTypeOK
  <2> QED BY <1>7, <2>1, <2>2, BatchTaken DEF Writing
<1>8. ASSUME NEW fd \in Fds, Again(fd) PROVE BatchInv'
  BY <1>8, BatchTaken DEF Again, sockets
<1>9. ASSUME NEW fd \in Fds, Idle(fd) PROVE BatchInv'
  <2>1. drained' = FALSE
    BY <1>0, <1>9, Draining DEF Idle, TypeOK
  <2> QED BY <1>9, <2>1, BatchTaken DEF Idle, sockets
<1>10. CASE UNCHANGED vars
  BY <1>0, <1>10 DEF vars, sockets, server, BatchInv, Open, Epoll, Edge, SomeoneEnded, Readable, Writable
<1> QED BY <1>1, <1>2, <1>3, <1>4, <1>5, <1>6, <1>7, <1>8, <1>9, <1>10 DEF Moves

--------------------------------------------------------------------------------
(* The ready list of the edge-triggered server.                             *)
EdgeOK(fd) ==
  kind = "ET" /\ Open(fd) =>
    /\ Readable(sock[fd]) => fd \in edges \/ batch[fd] \cap {"in", "hup"} # {}
    /\ sendBuf[fd] # <<>> /\ Writable(sock[fd]) =>
         fd \in edges \/ batch[fd] \cap {"out", "hup"} # {} \/ (drained /\ turn = fd)

LEMMA EdgesOK == EdgeInv <=> \A fd \in Fds : EdgeOK(fd)
BY DEF EdgeInv, EdgeOK

LEMMA EdgeSame ==
  ASSUME NEW g \in Fds, EdgeOK(g), ~(drained /\ turn = g),
         batch'[g] = batch[g], sock'[g] = sock[g], sendBuf'[g] = sendBuf[g], kind' = kind,
         g \in edges => g \in edges',
         Open(g) => /\ Readable(sock[g])' => Readable(sock[g])
                    /\ Writable(sock[g])' => Writable(sock[g])
  PROVE  EdgeOK(g)'
<1>1. Readable(sock[g])' <=> (inq'[sock[g]] # <<>> \/ ended'[sock[g]] # "no")
  BY DEF Readable
<1>2. Writable(sock[g])' <=> (Len(outq'[sock[g]]) < Room \/ ended'[sock[g]] = "reset")
  BY DEF Writable
<1>3. Open(g)' <=> Open(g)
  BY DEF Open
<1> QED BY <1>1, <1>2, <1>3 DEF EdgeOK

(* The handlers of one descriptor, of an edge-triggered server.             *)
LEMMA EdgeOthers ==
  ASSUME IInv, NEW fd \in Fds, NEW g \in Fds, g # fd, turn \in {fd, NoFd},
         batch'[g] = batch[g], sock'[g] = sock[g], sendBuf'[g] = sendBuf[g],
         kind' = kind, ended' = ended, g \in edges => g \in edges',
         \A d \in Clients : d # sock[fd] => inq'[d] = inq[d] /\ outq'[d] = outq[d]
  PROVE  EdgeOK(g)'
<1>1. EdgeOK(g) /\ ~(drained /\ turn = g)
  BY EdgesOK, Draining DEF IInv
<1>2. Open(g) => sock[g] \in Clients /\ sock[g] # sock[fd]
  BY DEF IInv, LinkInv, TypeOK, Open
<1>3. Open(g) => /\ Readable(sock[g])' => Readable(sock[g])
                 /\ Writable(sock[g])' => Writable(sock[g])
  BY <1>2 DEF Readable, Writable
<1> QED BY <1>1, <1>3, EdgeSame

LEMMA EdgeClients ==
  ASSUME IInv, NEW c \in Clients, ClientStep(c) \/ ClientReads(c), NEW g \in Fds
  PROVE  EdgeOK(g)'
<1>0. TypeOK /\ StreamInv /\ EdgeOK(g)
  BY EdgesOK DEF IInv
<1>1. UNCHANGED <<kind, sock, sendBuf, batch, turn, drained>>
  BY DEF ClientStep, ClientReads, ServerWaits
<1>2. CASE kind = "ET" /\ Open(g)
  <2>1. PICK d \in Clients : d = sock[g]
    BY <1>0, <1>2 DEF TypeOK, Open
  <2>2. Edge /\ g \in FdOf(d)
    BY <1>2, <2>1 DEF Edge, FdOf
  <2>3. /\ Readable(d)' => Readable(d) \/ FdOf(d) \subseteq edges'
        /\ Writable(d)' => Writable(d) \/ FdOf(d) \subseteq edges'
        /\ edges \subseteq edges'
    BY <1>0, <2>2, ClientsAdd
  <2>4. CASE g \in edges'
    BY <2>4 DEF EdgeOK
  <2>5. CASE g \notin edges'
    <3>1. (Readable(d)' => Readable(d)) /\ (Writable(d)' => Writable(d)) /\ g \notin edges
      BY <2>2, <2>3, <2>5
    <3>2. sock'[g] = d
      BY <1>1, <2>1
    <3>3. (Readable(sock[g])' <=> Readable(d)') /\ (Writable(sock[g])' <=> Writable(d)')
      BY <3>2 DEF Readable, Writable
    <3> QED BY <1>0, <1>1, <1>2, <2>1, <3>1, <3>3 DEF EdgeOK
  <2> QED BY <2>4, <2>5
<1>3. CASE ~(kind = "ET" /\ Open(g))
  BY <1>1, <1>3 DEF EdgeOK, Open
<1> QED BY <1>2, <1>3

LEMMA EdgeAsk == ASSUME IInv, Ask, NEW g \in Fds PROVE EdgeOK(g)'
<1>0. TypeOK /\ EdgeOK(g) /\ WatchOK(g) /\ g # Listener
  BY EdgesOK, WatchedOK, ServersAssumption DEF IInv
<1>1. ~drained /\ batch[g] = {}
  BY Draining DEF IInv, Ask, Waiting, NoEvents
<1>2. /\ batch' = Events /\ UNCHANGED <<kind, sock, sendBuf>>
      /\ UNCHANGED <<inq, outq, ended>>
  BY DEF Ask, sockets
<1>3. CASE kind = "ET" /\ Open(g)
  <2>1. (Readable(sock[g])' <=> Readable(sock[g])) /\ (Writable(sock[g])' <=> Writable(sock[g]))
    BY <1>2 DEF Readable, Writable
  <2>2. /\ g \in watched
        /\ mask[g] = {"in", "out"} \/ (mask[g] = {"in"} /\ sendBuf[g] = <<>>)
    BY <1>0, <1>1, <1>3 DEF WatchOK
  <2>3. g \in edges => Events[g] = (mask[g] \cup {"hup"}) \cap Ready(sock[g])
    BY <1>0, <1>3, <2>2 DEF Events, Reported, Interest, Edge
  <2>4. /\ Readable(sock[g]) => g \in edges
        /\ sendBuf[g] # <<>> /\ Writable(sock[g]) => g \in edges
    BY <1>0, <1>1, <1>3 DEF EdgeOK
  <2>5. /\ Readable(sock[g]) => "in" \in Events[g]
        /\ sendBuf[g] # <<>> /\ Writable(sock[g]) => "out" \in Events[g]
    BY <2>2, <2>3, <2>4 DEF Ready
  <2> QED BY <1>2, <2>1, <2>5 DEF EdgeOK
<1>4. CASE ~(kind = "ET" /\ Open(g))
  BY <1>2, <1>4 DEF EdgeOK, Open
<1> QED BY <1>3, <1>4

LEMMA EdgeAccepting ==
  ASSUME IInv, NEW fd, NEW c, Accepting(fd, c), NEW g \in Fds PROVE EdgeOK(g)'
<1>0. TypeOK /\ EdgeOK(g) /\ ~drained
  BY EdgesOK, Draining DEF IInv, Accepting
<1>1. /\ fd \in Fds /\ c \in Clients /\ sock' = [sock EXCEPT ![fd] = c]
      /\ sendBuf' = [sendBuf EXCEPT ![fd] = <<>>]
      /\ Raise(IF Readable(c) THEN {fd} ELSE {})
      /\ UNCHANGED <<kind, ended, inq, outq>>
  BY DEF Accepting
<1>2. \A d : (Readable(d)' <=> Readable(d)) /\ (Writable(d)' <=> Writable(d))
  BY <1>1 DEF Readable, Writable
<1>3. CASE g = fd
  <2>1. sock'[g] = c /\ sendBuf'[g] = <<>>
    BY <1>0, <1>1, <1>3 DEF TypeOK
  <2>2. Readable(sock[g])' <=> Readable(c)
    BY <1>1, <2>1 DEF Readable
  <2>3. kind = "ET" /\ Readable(c) => g \in edges'
    BY <1>1, <1>3 DEF Raise, Edge
  <2> QED BY <1>1, <2>1, <2>2, <2>3 DEF EdgeOK
<1>4. CASE g # fd
  <2> DEFINE rest == IF MoreToAccept THEN {"in"} ELSE {}
  <2>1. HandledThen(Listener, rest) /\ rest \in SUBSET {"in", "out", "hup"} /\ g # Listener
    BY ServersAssumption DEF Accepting
  <2> HIDE DEF rest
  <2>2. batch'[g] = batch[g]
    BY <1>0, <2>1, TypeHandled
  <2>3. sock'[g] = sock[g] /\ sendBuf'[g] = sendBuf[g] /\ (g \in edges => g \in edges')
    BY <1>0, <1>1, <1>4 DEF TypeOK, Raise
  <2> QED BY <1>0, <1>1, <1>2, <2>2, <2>3, EdgeSame
<1> QED BY <1>3, <1>4

LEMMA EdgeReceiving ==
  ASSUME IInv, NEW fd \in Fds, NEW c, NEW k, c = sock[fd], Receiving(fd, c, k), NEW g \in Fds
  PROVE  EdgeOK(g)'
<1>0. TypeOK
  BY DEF IInv
<1>1. CASE kind # "ET"
  BY <1>1 DEF Receiving, EdgeOK
<1>2. CASE kind = "ET"
  <2>1. /\ batch' = batch /\ edges' = edges /\ drained' = TRUE /\ turn' = fd
        /\ UNCHANGED <<kind, sock, ended>> /\ "in" \in batch[fd] /\ turn \in {fd, NoFd}
    BY <1>2 DEF Receiving, NoModify, Edge
  <2>2. CASE g = fd
    BY <2>1, <2>2 DEF EdgeOK
  <2>3. CASE g # fd
    <3>1. sendBuf'[g] = sendBuf[g]
      BY <1>0, <2>3 DEF Receiving, TypeOK
    <3>2. \A d \in Clients : d # sock[fd] => inq'[d] = inq[d] /\ outq'[d] = outq[d]
      BY <1>0 DEF Receiving, TypeOK, SocketsTypeOK
    <3> QED BY <2>1, <2>3, <3>1, <3>2, EdgeOthers
  <2> QED BY <2>2, <2>3
<1> QED BY <1>1, <1>2

LEMMA EdgeWriting ==
  ASSUME IInv, NEW fd \in Fds, NEW c, NEW n, c = sock[fd], Writing(fd, c, n), NEW g \in Fds
  PROVE  EdgeOK(g)'
<1>0. TypeOK /\ EdgeOK(fd) /\ Typed
  BY EdgesOK, Types DEF IInv
<1>1. batch[fd] \ {"out"} \in SUBSET {"in", "out", "hup"} /\ HandledThen(fd, batch[fd] \ {"out"})
  BY <1>0 DEF TypeOK, Writing
<1>2. /\ batch'[fd] = batch[fd] \ {"out"}
      /\ \A x \in Fds \cup {Listener} : x # fd => batch'[x] = batch[x]
  BY <1>0, <1>1, TypeHandled
<1>3. edges \subseteq edges'
  BY DEF Writing, NoModify, ModifyUnlessSelect, Modify, Raise
<1>4. /\ c \in Clients /\ Open(fd) /\ ended[c] # "reset" /\ batch[fd] \cap {"in", "hup"} = {}
      /\ turn \in {fd, NoFd} /\ UNCHANGED <<kind, sock, ended, inq>>
  BY DEF Writing
<1>5. CASE g = fd
  <2>1. Readable(sock[fd])' <=> Readable(sock[fd])
    BY <1>4 DEF Readable
  <2>2. sendBuf'[fd] # <<>> => ~Writable(sock[fd])'
    <3> DEFINE q == SubSeq(sendBuf[fd], 1, n)
    <3>1. /\ sendBuf[fd] \in Seq(Unit) /\ Len(sendBuf[fd]) \in Nat /\ n \in 0..Len(sendBuf[fd])
          /\ outq[c] \in Seq(Unit) /\ outq'[c] = outq[c] \o q
          /\ sendBuf'[fd] = SubSeq(sendBuf[fd], n + 1, Len(sendBuf[fd]))
          /\ n = Len(sendBuf[fd]) \/ Len(outq[c]) + n = Room
      BY <1>0, <1>4 DEF Writing, Rest, Typed, TypeOK, SocketsTypeOK
    <3>2. Len(sendBuf'[fd]) = Len(sendBuf[fd]) - n /\ sendBuf'[fd] \in Seq(Unit)
      BY <3>1, CutBehind
    <3>3. q \in Seq(Unit) /\ Len(q) = n
      BY <3>1, CutBefore
    <3> HIDE DEF q
    <3>4. Len(outq'[c]) = Len(outq[c]) + n
      <4> PICK o \in Seq(Unit) : o = outq[c]
        BY <3>1
      <4>1. q \in Seq(Unit)
        BY <3>3
      <4>2. Len(o \o q) = Len(o) + Len(q)
        BY <4>1, Joined
      <4> QED BY <3>1, <3>3, <4>2
    <3>5. CASE n = Len(sendBuf[fd])
      <4>1. Len(sendBuf'[fd]) = 0
        BY <3>1, <3>2, <3>5
      <4> QED BY <3>2, <4>1
    <3>6. CASE Len(outq[c]) + n = Room
      <4>1. Len(outq'[c]) = Room /\ ~(Room < Room)
        BY <3>4, <3>6, SocketsAssumption
      <4> QED BY <1>4, <4>1 DEF Writable
    <3> QED BY <3>1, <3>5, <3>6
  <2> QED BY <1>0, <1>3, <1>4, <1>5, <2>1, <2>2 DEF EdgeOK, Open
<1>6. CASE g # fd
  <2>1. sendBuf'[g] = sendBuf[g]
    BY <1>0, <1>6 DEF Writing, TypeOK
  <2>2. \A d \in Clients : d # sock[fd] => inq'[d] = inq[d] /\ outq'[d] = outq[d]
    BY <1>0 DEF Writing, TypeOK, SocketsTypeOK
  <2> QED BY <1>2, <1>3, <1>4, <1>6, <2>1, <2>2, EdgeOthers
<1> QED BY <1>5, <1>6

LEMMA EdgeClosing == ASSUME IInv, NEW fd \in Fds, Closing(fd), NEW g \in Fds PROVE EdgeOK(g)'
<1>0. TypeOK /\ fd # Listener
  BY ServersAssumption DEF IInv
<1>1. CASE g = fd
  BY <1>0, <1>1 DEF Closing, EdgeOK, Open, TypeOK
<1>2. CASE g # fd
  <2>1. PICK rest \in SUBSET {"out"} : HandledThen(fd, rest)
    BY DEF Closing
  <2>2. rest \in SUBSET {"in", "out", "hup"}
    OBVIOUS
  <2>3. batch'[g] = batch[g]
    BY <1>0, <1>2, <2>1, <2>2, TypeHandled
  <2>4. /\ sock'[g] = sock[g] /\ sendBuf'[g] = sendBuf[g] /\ (g \in edges => g \in edges')
        /\ UNCHANGED <<kind, ended, inq, outq>> /\ turn \in {fd, NoFd}
    BY <1>0, <1>2 DEF Closing, TypeOK
  <2> QED BY <1>2, <2>3, <2>4, EdgeOthers
<1> QED BY <1>1, <1>2

LEMMA EdgeLooking ==
  ASSUME IInv, NEW fd \in Fds, Again(fd) \/ Idle(fd), NEW g \in Fds PROVE EdgeOK(g)'
<1>0. TypeOK /\ EdgeOK(fd) /\ fd # Listener
  BY EdgesOK, ServersAssumption DEF IInv
<1>1. /\ edges \subseteq edges' /\ turn \in {fd, NoFd}
      /\ UNCHANGED <<kind, sock, ended, inq, outq, sendBuf>>
  BY DEF Again, Idle, NoModify, ModifyUnlessSelect, Modify, Raise, sockets
<1>2. (Readable(sock[fd])' <=> Readable(sock[fd])) /\ (Writable(sock[fd])' <=> Writable(sock[fd]))
  BY <1>1 DEF Readable, Writable
<1>3. ASSUME NEW e \in {"in", "out"}, HandledThen(fd, batch[fd] \ {e})
      PROVE  /\ batch'[fd] = batch[fd] \ {e}
             /\ \A x \in Fds \cup {Listener} : x # fd => batch'[x] = batch[x]
  <2>1. batch[fd] \ {e} \in SUBSET {"in", "out", "hup"}
    BY <1>0 DEF TypeOK
  <2> QED BY <1>0, <1>3, <2>1, TypeHandled
<1>4. CASE g # fd
  <2>1. batch'[g] = batch[g]
    BY <1>3, <1>4 DEF Again, Idle
  <2> QED BY <1>1, <1>4, <2>1, EdgeOthers
<1>5. CASE g = fd /\ Idle(fd)
  BY <1>0, <1>1, <1>2, <1>5 DEF EdgeOK, Idle, Open
<1>6. CASE g = fd /\ Again(fd) /\ drained
  <2>1. ~Readable(sock[fd]) /\ Modify(fd, {"in", "out"})
    BY <1>6 DEF Again
  <2>2. kind = "ET" /\ Writable(sock[fd]) => fd \in edges'
    BY <2>1 DEF Modify, Ready, Raise, Edge
  <2> QED BY <1>1, <1>2, <1>6, <2>1, <2>2 DEF EdgeOK
<1>7. CASE g = fd /\ Again(fd) /\ ~drained
  <2>1. ~Readable(sock[fd]) /\ batch'[fd] = batch[fd] \ {"in"}
    BY <1>3, <1>7 DEF Again
  <2> QED BY <1>0, <1>1, <1>2, <1>7, <2>1 DEF EdgeOK, Open
<1> QED BY <1>4, <1>5, <1>6, <1>7

LEMMA EdgeMoves == IInv /\ Moves => EdgeInv'
<1> SUFFICES ASSUME IInv, Moves, NEW g \in Fds PROVE EdgeOK(g)'
  BY DEF EdgeInv, EdgeOK
<1>1. CASE \E c \in Clients : ClientStep(c) \/ ClientReads(c)
  BY <1>1, EdgeClients
<1>2. CASE Ask
  BY <1>2, EdgeAsk
<1>3. CASE Dying
  BY <1>3 DEF Dying, Cleanup, EdgeOK, Open
<1>4. CASE backlog # <<>> /\ Accepting(NewFd, Head(backlog))
  <2>1. PICK fd, c : fd = NewFd /\ c = Head(backlog)
    OBVIOUS
  <2> QED BY <1>4, <2>1, EdgeAccepting
<1>5. ASSUME NEW fd \in Fds, NEW k, Receiving(fd, sock[fd], k) PROVE EdgeOK(g)'
  <2>1. PICK c : c = sock[fd]
    OBVIOUS
  <2> QED BY <1>5, <2>1, EdgeReceiving
<1>6. ASSUME NEW fd \in Fds, Writing(fd, sock[fd], Taken(fd)) PROVE EdgeOK(g)'
  <2>1. PICK c, n : c = sock[fd] /\ n = Taken(fd)
    OBVIOUS
  <2> QED BY <1>6, <2>1, EdgeWriting
<1>7. CASE UNCHANGED vars
  <2>1. EdgeOK(g)
    BY EdgesOK DEF IInv
  <2> QED BY <1>7, <2>1 DEF vars, sockets, server, EdgeOK, Open, Readable, Writable
<1> QED BY <1>1, <1>2, <1>3, <1>4, <1>5, <1>6, <1>7, EdgeClosing, EdgeLooking DEF Moves

--------------------------------------------------------------------------------
(* What select keeps of a closed descriptor.                                *)
LEMMA StaleMoves == IInv /\ Moves => StaleInv'
<1> SUFFICES ASSUME IInv, Moves, Stale' PROVE SomeoneEnded'
  BY DEF StaleInv
<1>0. TypeOK /\ StreamInv /\ StaleInv
  BY DEF IInv
<1>1. SUFFICES ASSUME ~Stale, ~SomeoneEnded PROVE FALSE
  BY <1>0, EndedForGood DEF StaleInv
<1>2. CASE \/ \E c \in Clients : ClientStep(c) \/ ClientReads(c)
           \/ Ask \/ UNCHANGED vars
           \/ \E fd \in Fds : \/ Again(fd) \/ Idle(fd)
                              \/ \E k \in 1..Len(inq[sock[fd]]) : Receiving(fd, sock[fd], k)
                              \/ Writing(fd, sock[fd], Taken(fd))
  <2>1. UNCHANGED <<kind, sock, watched>>
    BY <1>2 DEF ClientStep, ClientReads, ServerWaits, Ask, Again, Idle, Receiving, Writing,
                vars, server
  <2> QED BY <1>1, <2>1 DEF Stale, Open
<1>3. CASE Dying
  BY <1>1, <1>3 DEF Dying
<1>4. CASE backlog # <<>> /\ Accepting(NewFd, Head(backlog))
  <2>1. PICK fd, c : fd = NewFd /\ c = Head(backlog)
    OBVIOUS
  <2>2. /\ fd \in Fds /\ c \in Clients /\ c # NoClient /\ watched' = watched \cup {fd}
        /\ sock' = [sock EXCEPT ![fd] = c] /\ kind' = kind
    BY <1>4, <2>1, ServersAssumption DEF Accepting
  <2>3. \A x \in Fds : Open(x)' <=> Open(x) \/ x = fd
    BY <1>0, <2>2 DEF Open, TypeOK
  <2> QED BY <1>0, <1>1, <2>2, <2>3 DEF Stale, TypeOK
<1>5. ASSUME NEW fd \in Fds, Closing(fd) PROVE FALSE
  <2>1. /\ sock' = [sock EXCEPT ![fd] = NoClient] /\ kind' = kind
        /\ watched' = watched \ {fd}
    BY <1>1, <1>5 DEF Closing, SomeoneEnded
  <2>2. \A x \in Fds : x # fd => (Open(x)' <=> Open(x))
    BY <1>0, <2>1 DEF Open, TypeOK
  <2> QED BY <1>0, <1>1, <2>1, <2>2 DEF Stale, TypeOK
<1> QED BY <1>2, <1>3, <1>4, <1>5 DEF Moves

--------------------------------------------------------------------------------
LEMMA Initially == Init => IInv
<1> SUFFICES ASSUME Init PROVE IInv
  OBVIOUS
<1>1. TypeOK
  <2>1. SocketsTypeOK
    <3>1. \A c \in Clients : 0 <= MaxUnits[c]
      BY SocketsAssumption
    <3>2. <<>> \in Seq(Clients) /\ <<>> \in Seq(Unit)
      OBVIOUS
    <3> QED BY <3>1, <3>2 DEF Init, SocketsInit, SocketsTypeOK
  <2>2. batch \in [Fds \cup {Listener} -> SUBSET {"in", "out", "hup"}]
    BY DEF Init, NoEvents
  <2>3. DOMAIN sendBuf = Fds /\ \A fd \in Fds : sendBuf[fd] \in Seq(Unit)
    BY DEF Init
  <2> QED BY <2>1, <2>2, <2>3 DEF Init, TypeOK
<1>2. \A fd \in Fds : ~Open(fd) /\ sendBuf[fd] = <<>> /\ batch[fd] = {}
  BY DEF Init, Open, NoEvents
<1>3. backlog = <<>> /\ DOMAIN backlog = {} /\ watched = {} /\ batch[Listener] = {} /\ ~drained
  BY DEF Init, SocketsInit, NoEvents
<1>4. LinkInv
  BY <1>2, <1>3 DEF LinkInv
<1>5. ASSUME NEW c \in Clients PROVE StreamOK(c)
  <2>1. /\ got[c] = <<>> /\ outq[c] = <<>> /\ inq[c] = <<>> /\ sent[c] = 0
    BY DEF Init, SocketsInit
  <2>2. Len(got[c]) = 0 /\ Len(outq[c]) = 0 /\ Len(inq[c]) = 0 /\ Back(c) = 0
    BY <2>1 DEF Back
  <2>3. 0 <= Room /\ 0 <= 0
    BY SocketsAssumption
  <2> QED BY <2>1, <2>2, <2>3, HoldsNothing DEF StreamOK
<1>6. StreamInv /\ BufferInv
  BY <1>2, <1>5 DEF StreamInv, StreamOK, BufferInv
<1>7. OutputIsWatched /\ EdgeInv
  BY <1>2 DEF OutputIsWatched, EdgeInv
<1>8. BatchInv
  BY <1>2, <1>3 DEF BatchInv
<1>9. StaleInv
  BY <1>3 DEF StaleInv, Stale
<1> QED BY <1>1, <1>4, <1>6, <1>7, <1>8, <1>9 DEF IInv

LEMMA Inductive == IInv /\ [Next]_vars => IInv'
<1> SUFFICES ASSUME IInv, [Next]_vars PROVE IInv'
  OBVIOUS
<1>1. Moves
  BY EachStep
<1> QED BY <1>1, TypeMoves, LinkMoves, StreamMoves, WatchMoves, BatchMoves, EdgeMoves, StaleMoves
        DEF IInv

(* Of every client at any time: which connection is its, where its units    *)
(* are, what the server knows and asks of its socket, which of the reported *)
(* events are still true, and what the kernel will report again.            *)
THEOREM Invariance == Spec => []IInv
BY Initially, Inductive, PTL DEF Spec

(* recv and send are made only on sockets that still are what the event     *)
(* said: no BlockingIOError escapes from the level-triggered servers.       *)
THEOREM EventsAreTrue == Spec => []EventsStillTrue
<1>1. IInv => EventsStillTrue
  BY DEF IInv, BatchInv, EventsStillTrue
<1> QED BY <1>1, Invariance, PTL

(* Edge-triggered, nothing is left over that epoll will not report again.   *)
THEOREM EdgesAreKept == Spec => []NoLostEdge
<1>1. IInv => NoLostEdge
  <2> SUFFICES ASSUME IInv, kind = "ET", batch = NoEvents, NEW fd \in Fds, Open(fd)
               PROVE  /\ Readable(sock[fd]) => fd \in edges
                      /\ sendBuf[fd] # <<>> /\ Writable(sock[fd]) => fd \in edges
    BY DEF NoLostEdge
  <2>1. EdgeOK(fd) /\ ~drained
    BY EdgesOK, Draining DEF IInv
  <2>2. batch[fd] = {}
    BY DEF NoEvents
  <2> QED BY <2>1, <2>2 DEF EdgeOK
<1> QED BY <1>1, Invariance, PTL

(* epoll serves for ever; the loops of select and poll end only after a     *)
(* client has gone.                                                         *)
THEOREM EndsAfterAClient == Spec => []LoopEndsOnlyAfterAClient
<1>1. Init => LoopEndsOnlyAfterAClient
  BY DEF Init, LoopEndsOnlyAfterAClient
<1>2. IInv /\ LoopEndsOnlyAfterAClient /\ [Next]_vars => LoopEndsOnlyAfterAClient'
  <2> SUFFICES ASSUME IInv, LoopEndsOnlyAfterAClient, [Next]_vars, loop' = "dead"
               PROVE  kind' \in {"select", "poll"} /\ SomeoneEnded'
    BY DEF LoopEndsOnlyAfterAClient, SomeoneEnded
  <2>1. Moves /\ (SomeoneEnded => SomeoneEnded')
    BY EachStep, EndedForGood DEF IInv
  <2>2. kind' = kind
    BY <2>1 DEF Moves, ClientStep, ClientReads, ServerWaits, Ask, Dying, Cleanup, Accepting,
                Closing, Receiving, Writing, Again, Idle, vars, server
  <2>3. CASE Dying
    BY <2>1, <2>2, <2>3 DEF Dying
  <2>4. CASE ~Dying
    <3>1. loop' = loop
      BY <2>1, <2>4 DEF Moves, ClientStep, ClientReads, ServerWaits, Ask, Accepting,
                        Closing, Receiving, Writing, Again, Idle, vars, server
    <3> QED BY <2>1, <2>2, <3>1 DEF LoopEndsOnlyAfterAClient, SomeoneEnded
  <2> QED BY <2>3, <2>4
<1> QED BY <1>1, <1>2, Invariance, PTL DEF Spec

(* To its clients each server is the EchoService: Send is its Send, the     *)
(* client's Receive its GiveBack, and every other step a stutter.           *)
THEOREM EveryServerEchoes == Spec => IsEchoService
<1>1. Init => Service!Init
  BY DEF Init, SocketsInit, Service!Init
<1>2. IInv /\ [Next]_vars => [Service!Next]_Service!vars
  <2> SUFFICES ASSUME IInv, [Next]_vars PROVE Service!Next \/ UNCHANGED <<sent, got>>
    BY DEF Service!vars
  <2>1. Moves /\ TypeOK /\ StreamInv
    BY EachStep DEF IInv
  <2>2. ASSUME NEW c \in Clients, Send(c) PROVE Service!Send(c)
    BY <2>2 DEF Send, Service!Send
  <2>3. ASSUME NEW c \in Clients, Receive(c) PROVE Service!GiveBack(c)
    <3>1. StreamOK(c)
      BY <2>1, StreamsOK
    <3>2. /\ got' = [got EXCEPT ![c] = Append(got[c], <<c, Len(got[c]) + 1>>)]
          /\ Len(got[c]) \in Nat /\ Len(outq[c]) \in Nat /\ Len(outq[c]) > 0 /\ sent' = sent
      BY <2>1, <2>3, <3>1, ReceiveTakes DEF StreamOK
    <3>3. Len(got[c]) < sent[c]
      <4>1. \A m, n, s \in Nat : n > 0 /\ m + n <= s => m < s
        OBVIOUS
      <4>2. Len(got[c]) + Len(outq[c]) <= sent[c] /\ sent[c] \in Nat
        BY <2>1, <3>1 DEF StreamOK, Back, TypeOK, SocketsTypeOK
      <4> QED BY <3>2, <4>1, <4>2
    <3> QED BY <2>1, <3>2, <3>3 DEF Service!GiveBack, TypeOK, SocketsTypeOK
  <2>4. CASE \E c \in Clients : Send(c) \/ Receive(c)
    BY <2>2, <2>3, <2>4 DEF Service!Next
  <2>5. CASE ~(\E c \in Clients : Send(c) \/ Receive(c))
    BY <2>1, <2>5 DEF Moves, ClientStep, ClientReads, Connect, Fin, Reset, Ask, Dying, Cleanup,
                      Accepting, Closing, Receiving, Writing, Again, Idle, vars, sockets
  <2> QED BY <2>4, <2>5
<1> QED BY <1>1, <1>2, Invariance, PTL DEF Spec, IsEchoService, Service!Spec
================================================================================
