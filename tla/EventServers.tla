------------------------------ MODULE EventServers ------------------------------
(****************************************************************************)
(* The echo servers of python/io_multiplexing that run on an asyncio event  *)
(* loop: nio_reactor_server.py, whose handlers are called when a socket is  *)
(* ready, and the two servers of proactor_server.py, a Protocol that is     *)
(* handed what has been read and a coroutine per client that awaits it.     *)
(* One of them runs.                                                        *)
(*                                                                          *)
(* The loop asks the selector, queues the callbacks of what is ready and    *)
(* runs them one by one; a step is one callback, or what a coroutine does   *)
(* between two awaits.  Between two steps the clients do as they like.  A   *)
(* transport and a stream (asyncio, external) are modelled by what they do  *)
(* for the two proactors; echoing in upper case is giving the unit back.    *)
(****************************************************************************)
EXTENDS EchoSockets

CONSTANTS Kinds,      (* the servers to choose from                         *)
          MaxFd,      (* descriptors 1..MaxFd are free for connections      *)
          Listener,   (* the descriptor of the listening socket             *)
          NoClient,
          ReadSize,   (* units recv(4096) and read(4096) return at most     *)
          HighWater,  (* units a transport buffers before it pauses writing *)
          InboxHigh,  (* units a StreamReader holds before it pauses reading*)
          InboxLow    (* and at which reading goes on                       *)

Fds == 1..MaxFd

ASSUME EventServersAssumption ==
  /\ Kinds \subseteq {"reactor", "protocol", "streams"}
  /\ MaxFd \in Nat /\ Listener \notin Fds /\ NoClient \notin Clients
  /\ IsFiniteSet(Clients) /\ Cardinality(Clients) <= MaxFd
  /\ ReadSize \in Nat \ {0} /\ HighWater \in Nat
  /\ InboxHigh \in Nat /\ InboxLow \in 0..InboxHigh

VARIABLES
  kind,      (* the server that runs                                        *)
  loop,      (* "run"; "closed": _cleanup has been run                      *)
  sock,      (* the connection that has the descriptor                      *)
  reader,    (* whose callback is called when the descriptor is readable    *)
  writer,    (* whose callback is called when it is writable                *)
  batch,     (* callbacks in the loop's ready queue                         *)
  buf,       (* EchoHandler._send_buf; the buffer of the transport          *)
  stage,     (* where the handler or the transport of a connection is       *)
  task,      (* the await of _handle_client the coroutine stands at         *)
  inbox,     (* what the StreamReader holds                                 *)
  eof,       (* connections whose StreamReader has been fed the end         *)
  paused     (* connections whose transport has paused writing              *)

streams == <<task, inbox, eof, paused>>
server == <<loop, sock, reader, writer, batch, buf, stage, streams>>
vars == <<sockets, kind, server>>

TypeOK ==
  /\ SocketsTypeOK
  /\ kind \in Kinds /\ loop \in {"run", "closed"}
  /\ sock \in [Fds -> Clients \cup {NoClient}]
  /\ reader \in [Fds -> Clients \cup {NoClient}]
  /\ writer \in [Fds -> Clients \cup {NoClient}]
  /\ batch \in [Fds \cup {Listener} -> SUBSET {"in", "out"}]
  /\ stage \in [Clients -> {"none", "open", "closing", "lost", "broken", "closed", "aborted"}]
  /\ task \in [Clients -> {"none", "read", "drain", "wait_closed", "done", "failed"}]
  /\ DOMAIN buf = Clients /\ DOMAIN inbox = Clients
  /\ \A c \in Clients : buf[c] \in Seq(Unit) /\ inbox[c] \in Seq(Unit)
  /\ eof \subseteq Clients /\ paused \subseteq Clients

NoEvents == [fd \in Fds \cup {Listener} |-> {}]

Init == /\ SocketsInit
        /\ kind \in Kinds /\ loop = "run"
        /\ sock = [fd \in Fds |-> NoClient]
        /\ reader = [fd \in Fds |-> NoClient] /\ writer = [fd \in Fds |-> NoClient]
        /\ batch = NoEvents
        /\ buf = [c \in Clients |-> <<>>] /\ stage = [c \in Clients |-> "none"]
        /\ task = [c \in Clients |-> "none"] /\ inbox = [c \in Clients |-> <<>>]
        /\ eof = {} /\ paused = {}

Reactor == kind = "reactor"
Open(fd) == sock[fd] # NoClient
FdOf(c) == CHOOSE fd \in Fds : sock[fd] = c
Least(m, n) == IF m < n THEN m ELSE n

--------------------------------------------------------------------------------
ClientStep(c) == /\ \/ loop = "run" /\ Connect(c)
                    \/ Send(c) \/ Fin(c) \/ Reset(c)
                 /\ UNCHANGED <<kind, server>>

ClientReads(c) == Receive(c) /\ UNCHANGED <<kind, server>>

--------------------------------------------------------------------------------
(* The loop asks the selector once the callbacks of the last call are done. *)
Looping == loop = "run" \/ ~Reactor
Events == [fd \in Fds \cup {Listener} |->
  IF fd = Listener THEN IF loop = "run" /\ backlog # <<>> THEN {"in"} ELSE {}
  ELSE {e \in {"in", "out"} : \/ e = "in" /\ reader[fd] # NoClient /\ Readable(sock[fd])
                              \/ e = "out" /\ writer[fd] # NoClient /\ Writable(sock[fd])}]

Ask == /\ Looping /\ batch = NoEvents /\ Events # NoEvents
       /\ batch' = Events
       /\ UNCHANGED <<sockets, kind, loop, sock, reader, writer, buf, stage, streams>>

(* add_reader, remove_reader, add_writer, remove_writer: a callback that is *)
(* in the queue is cancelled with its registration.                         *)
Register(fd, r, w, queued) == /\ reader' = [reader EXCEPT ![fd] = r]
                              /\ writer' = [writer EXCEPT ![fd] = w]
                              /\ batch' = [batch EXCEPT ![fd] = queued]
RegisterWrite(fd) == Register(fd, reader[fd], reader[fd], {})
UnregisterReadOnly(fd) == Register(fd, NoClient, writer[fd], {})
Unregister(fd) == Register(fd, NoClient, NoClient, {})

(* The end of run_forever or serve_forever: _cleanup closes the listening   *)
(* socket.  The reactor's loop ends with it and leaves its connections open.*)
Stop ==
  /\ loop = "run"
  /\ loop' = "closed"
  /\ link' = [c \in Clients |-> IF link[c] = "queued" THEN "gone" ELSE link[c]]
  /\ ended' = [c \in Clients |-> IF link[c] = "queued" THEN "reset" ELSE ended[c]]
  /\ backlog' = <<>>
  /\ batch' = [batch EXCEPT ![Listener] = {}]
  /\ UNCHANGED <<kind, sent, inq, outq, got, sock, reader, writer, buf, stage, streams>>

(* A handler, or a transport and the coroutine of its connection.           *)
ConnectionMade(c) ==
  /\ stage' = [stage EXCEPT ![c] = "open"]
  /\ task' = [task EXCEPT ![c] = IF kind = "streams" THEN "read" ELSE @]

(* on_accept, and what asyncio's servers do: all that are in the backlog.   *)
Accept == LET c == Head(backlog)
              fd == CHOOSE f \in Fds : ~Open(f) /\ \A g \in Fds : ~Open(g) => f <= g IN
  /\ loop = "run" /\ "in" \in batch[Listener]
  /\ sock' = [sock EXCEPT ![fd] = c]
  /\ link' = [link EXCEPT ![c] = "open"]
  /\ backlog' = Tail(backlog)
  /\ ConnectionMade(c)
  /\ reader' = [reader EXCEPT ![fd] = c]
  /\ batch' = [batch EXCEPT ![Listener] = IF Len(backlog) > 1 THEN {"in"} ELSE {}]
  /\ UNCHANGED <<kind, loop, ended, sent, inq, outq, got, writer, buf, inbox, eof, paused>>

--------------------------------------------------------------------------------
(* The callbacks of a connection: that of a reader comes first.             *)
Called(fd, e) == Looping /\ e \in batch[fd] /\ (e = "out" => "in" \notin batch[fd])
Left(fd, e) == batch[fd] \ {e}

(* A connection loses its socket.                                           *)
CloseSocket(c, how) == /\ sock' = [sock EXCEPT ![FdOf(c)] = NoClient]
                       /\ link' = [link EXCEPT ![c] = "gone"]
                       /\ stage' = [stage EXCEPT ![c] = how]

(* What send has left over; the writer is registered as long as there is    *)
(* something.                                                               *)
UnsentAll(units, n) == units
Unsent(units, n) == SubSeq(units, n + 1, Len(units))
WriterAfter(c, rest) == IF rest = <<>> THEN NoClient ELSE c

(* recv returns the first units of what is there.                           *)
Take(c, k) == /\ inq' = [inq EXCEPT ![c] = SubSeq(@, k + 1, Len(@))]
              /\ UNCHANGED <<link, backlog, ended, sent, got>>

--------------------------------------------------------------------------------
(* EchoHandler.on_read.  register_write registers the writer anew, whether  *)
(* it was registered or not.                                                *)
QueuedAnew(c, k) == SubSeq(inq[c], 1, k)
Queued(c, k) == buf[c] \o SubSeq(inq[c], 1, k)
OnRead(fd) == LET c == reader[fd] IN
  /\ Reactor /\ Called(fd, "in") /\ inq[c] # <<>>
  /\ \E k \in 1..Least(ReadSize, Len(inq[c])) :
       /\ Take(c, k) /\ UNCHANGED outq
       /\ buf' = [buf EXCEPT ![c] = Queued(c, k)]
  /\ RegisterWrite(fd)
  /\ UNCHANGED <<kind, loop, sock, stage, streams>>

(* _close: end of file, ConnectionResetError or BrokenPipeError.            *)
HandlerCloses(fd) == LET c == sock[fd] IN
  /\ Unregister(fd) /\ CloseSocket(c, "closed")
  /\ UNCHANGED <<backlog, ended, sent, inq, outq, got, kind, loop, buf, streams>>

OnReadEnd(fd) == /\ Reactor /\ Called(fd, "in")
                 /\ inq[reader[fd]] = <<>> /\ ended[reader[fd]] # "no"
                 /\ HandlerCloses(fd)

OnWrite(fd) ==
  LET c == writer[fd]
      n == Least(Len(buf[c]), Room - Len(outq[c]))
      rest == Unsent(buf[c], n) IN
  /\ Reactor /\ Called(fd, "out") /\ ended[c] # "reset"
  /\ outq' = [outq EXCEPT ![c] = @ \o SubSeq(buf[c], 1, n)]
  /\ buf' = [buf EXCEPT ![c] = rest]
  /\ Register(fd, reader[fd], WriterAfter(c, rest), Left(fd, "out"))
  /\ UNCHANGED <<kind, loop, link, backlog, ended, sent, inq, got, sock, stage, streams>>

OnWriteError(fd) == /\ Reactor /\ Called(fd, "out") /\ ended[writer[fd]] = "reset"
                    /\ HandlerCloses(fd)

--------------------------------------------------------------------------------
(* The transport.  write sends at once what there is room for when nothing  *)
(* waits in the buffer; a reset that comes up breaks the connection.        *)
Break(c) == /\ stage' = [stage EXCEPT ![c] = "broken"]
            /\ buf' = [buf EXCEPT ![c] = <<>>]
            /\ Unregister(FdOf(c))
            /\ paused' = paused
            /\ UNCHANGED outq

Write(c, units, r, queued) ==
  LET n == IF buf[c] = <<>> THEN Least(Len(units), Room - Len(outq[c])) ELSE 0
      rest == buf[c] \o Unsent(units, n)
      fd == FdOf(c) IN
  IF buf[c] = <<>> /\ ended[c] = "reset" THEN Break(c)
  ELSE /\ outq' = [outq EXCEPT ![c] = @ \o SubSeq(units, 1, n)]
       /\ buf' = [buf EXCEPT ![c] = rest]
       /\ paused' = IF Len(rest) > HighWater THEN paused \cup {c} ELSE paused
       /\ Register(fd, r, IF rest = <<>> THEN writer[fd] ELSE c, queued)
       /\ stage' = stage

(* close: what is in the buffer is sent first.                              *)
CloseTransport(c, queued) == LET fd == FdOf(c) IN
  /\ stage' = [stage EXCEPT ![c] = IF buf[c] = <<>> THEN "lost" ELSE "closing"]
  /\ Register(fd, NoClient, writer[fd], queued)

(* EchoProtocol.data_received writes what it is handed, StreamReader keeps  *)
(* it.                                                                      *)
DataReceived(fd) == LET c == reader[fd] IN
  /\ kind = "protocol" /\ Called(fd, "in")
  /\ \E k \in 1..Len(inq[c]) : /\ Take(c, k)
                               /\ Write(c, SubSeq(inq[c], 1, k), c, Left(fd, "in"))
  /\ UNCHANGED <<kind, loop, sock, task, inbox, eof>>

FeedData(fd) == LET c == reader[fd] IN
  /\ kind = "streams" /\ Called(fd, "in")
  /\ \E k \in 1..Len(inq[c]) : LET held == inbox[c] \o SubSeq(inq[c], 1, k) IN
       /\ Take(c, k) /\ UNCHANGED outq
       /\ inbox' = [inbox EXCEPT ![c] = held]
       /\ Register(fd, IF Len(held) > InboxHigh THEN NoClient ELSE c, writer[fd], Left(fd, "in"))
  /\ UNCHANGED <<kind, loop, sock, buf, stage, task, eof, paused>>

(* eof_received: FALSE from EchoProtocol, and the transport closes; TRUE    *)
(* from the stream's protocol, and it stays open for what is to be written. *)
EofReceived(fd) == LET c == reader[fd] IN
  /\ ~Reactor /\ Called(fd, "in") /\ inq[c] = <<>> /\ ended[c] = "fin"
  /\ IF kind = "protocol"
     THEN CloseTransport(c, Left(fd, "in")) /\ UNCHANGED eof
     ELSE /\ Register(fd, NoClient, writer[fd], Left(fd, "in"))
          /\ eof' = eof \cup {c} /\ UNCHANGED stage
  /\ UNCHANGED <<sockets, kind, loop, sock, buf, task, inbox, paused>>

ReadBreaks(fd) == LET c == reader[fd] IN
  /\ ~Reactor /\ Called(fd, "in") /\ inq[c] = <<>> /\ ended[c] = "reset"
  /\ Break(c)
  /\ UNCHANGED <<kind, loop, link, backlog, ended, sent, inq, got, sock, task, inbox, eof>>

(* Writing is resumed once the buffer is empty.  A closing transport loses  *)
(* its connection with the last unit.                                       *)
Flush(fd) ==
  LET c == writer[fd]
      n == Least(Len(buf[c]), Room - Len(outq[c]))
      rest == Unsent(buf[c], n) IN
  /\ ~Reactor /\ Called(fd, "out") /\ ended[c] # "reset"
  /\ outq' = [outq EXCEPT ![c] = @ \o SubSeq(buf[c], 1, n)]
  /\ buf' = [buf EXCEPT ![c] = rest]
  /\ paused' = IF rest = <<>> THEN paused \ {c} ELSE paused
  /\ Register(fd, reader[fd], WriterAfter(c, rest), Left(fd, "out"))
  /\ stage' = IF rest = <<>> /\ stage[c] = "closing" THEN [stage EXCEPT ![c] = "lost"] ELSE stage
  /\ UNCHANGED <<kind, loop, link, backlog, ended, sent, inq, got, sock, task, inbox, eof>>

FlushBreaks(fd) == LET c == writer[fd] IN
  /\ ~Reactor /\ Called(fd, "out") /\ ended[c] = "reset"
  /\ Break(c)
  /\ UNCHANGED <<kind, loop, link, backlog, ended, sent, inq, got, sock, task, inbox, eof>>

(* connection_lost, which the transport has had called soon.                *)
ConnectionLost(c) ==
  /\ stage[c] \in {"lost", "broken"}
  /\ CloseSocket(c, IF stage[c] = "lost" THEN "closed" ELSE "aborted")
  /\ UNCHANGED <<kind, loop, backlog, ended, sent, inq, outq, got, reader, writer, batch, buf, streams>>

--------------------------------------------------------------------------------
(* _handle_client.  An exception that the connection was lost with is       *)
(* raised by read and by drain, and once more by wait_closed.               *)
Goto(c, at) == task' = [task EXCEPT ![c] = at]
Lost(c) == stage[c] \in {"lost", "broken", "closed", "aborted"}

(* read, then write up to the await of drain.  Reading that was paused goes *)
(* on; a transport that has lost its connection ignores what it is given.   *)
ReadData(c) ==
  LET k == Least(ReadSize, Len(inbox[c]))
      fd == FdOf(c)
      resume == c \notin eof /\ Len(inbox[c]) - k <= InboxLow IN
  /\ task[c] = "read" /\ inbox[c] # <<>> /\ stage[c] # "aborted"
  /\ inbox' = [inbox EXCEPT ![c] = SubSeq(@, k + 1, Len(@))]
  /\ Goto(c, "drain")
  /\ IF Lost(c) THEN UNCHANGED <<outq, reader, writer, batch, buf, stage, paused>>
     ELSE Write(c, SubSeq(inbox[c], 1, k), IF resume THEN c ELSE reader[fd], batch[fd])
  /\ UNCHANGED <<kind, loop, link, backlog, ended, sent, inq, got, sock, eof>>

Drained(c) == /\ task[c] = "drain" /\ c \notin paused /\ stage[c] = "open"
              /\ Goto(c, "read")
              /\ UNCHANGED <<sockets, kind, loop, sock, reader, writer, batch, buf, stage, inbox, eof, paused>>

(* An empty read; writer.close().                                           *)
ReadEofEarly(c) ==
  /\ task[c] = "read" /\ c \in eof /\ stage[c] = "open"
  /\ Goto(c, "wait_closed")
  /\ CloseTransport(c, batch[FdOf(c)])
  /\ UNCHANGED <<sockets, kind, loop, sock, buf, inbox, eof, paused>>
ReadEof(c) == /\ task[c] = "read" /\ inbox[c] = <<>> /\ c \in eof /\ stage[c] = "open"
              /\ Goto(c, "wait_closed")
              /\ CloseTransport(c, batch[FdOf(c)])
              /\ UNCHANGED <<sockets, kind, loop, sock, buf, inbox, eof, paused>>

(* ConnectionResetError or BrokenPipeError out of read or drain.            *)
RaisedByRead(c) ==
  /\ task[c] = "read" /\ stage[c] = "aborted"
  /\ Goto(c, "wait_closed")
  /\ UNCHANGED <<sockets, kind, loop, sock, reader, writer, batch, buf, stage, inbox, eof, paused>>
Raised(c) == /\ task[c] \in {"read", "drain"} /\ stage[c] = "aborted"
             /\ Goto(c, "wait_closed")
             /\ UNCHANGED <<sockets, kind, loop, sock, reader, writer, batch, buf, stage, inbox, eof, paused>>

WaitClosed(c) == /\ task[c] = "wait_closed" /\ stage[c] \in {"closed", "aborted"}
                 /\ Goto(c, IF stage[c] = "closed" THEN "done" ELSE "failed")
                 /\ UNCHANGED <<sockets, kind, loop, sock, reader, writer, batch, buf, stage, inbox, eof, paused>>

--------------------------------------------------------------------------------
Callback(fd) == \/ OnRead(fd) \/ OnReadEnd(fd) \/ OnWrite(fd) \/ OnWriteError(fd)
                \/ DataReceived(fd) \/ FeedData(fd) \/ EofReceived(fd) \/ ReadBreaks(fd)
                \/ Flush(fd) \/ FlushBreaks(fd)

Coroutine(c) == ReadData(c) \/ Drained(c) \/ ReadEof(c) \/ Raised(c) \/ WaitClosed(c)

(* Nothing is ready, or the reactor's loop has ended.                       *)
Idle == (~Looping \/ (batch = NoEvents /\ Events = NoEvents)) /\ UNCHANGED vars

Next == \/ \E c \in Clients : \/ ClientStep(c) \/ ClientReads(c)
                              \/ ConnectionLost(c) \/ Coroutine(c)
        \/ Ask \/ Accept \/ \E fd \in Fds : Callback(fd)
        \/ Stop \/ Idle

Spec == Init /\ [][Next]_vars

(* The ready queue is first come, first served; clients read what has come. *)
FairSpec == /\ Spec /\ WF_vars(Ask) /\ WF_vars(Accept)
            /\ \A fd \in Fds : WF_vars(Callback(fd))
            /\ \A c \in Clients : /\ WF_vars(ConnectionLost(c)) /\ WF_vars(Coroutine(c))
                                  /\ WF_vars(ClientReads(c))

--------------------------------------------------------------------------------
(* A callback belongs to the connection that has the descriptor: after a    *)
(* close nothing stays registered or queued that the next connection with   *)
(* the same descriptor would be served by.                                  *)
NoCallbackOfTheClosed == \A fd \in Fds :
  /\ reader[fd] \in {sock[fd], NoClient} /\ writer[fd] \in {sock[fd], NoClient}
  /\ "in" \in batch[fd] => reader[fd] # NoClient /\ Readable(sock[fd])
  /\ "out" \in batch[fd] => writer[fd] # NoClient /\ Writable(sock[fd])

(* While a connection has output, and only then, its writer is registered:  *)
(* no output is forgotten and the loop does not spin.                       *)
WriterWhileOutput == \A fd \in Fds : Open(fd) /\ ~Lost(sock[fd]) =>
  (writer[fd] = sock[fd] <=> buf[sock[fd]] # <<>>)

(* "await writer.drain()" holds the coroutine back: of what a client does   *)
(* not read, the server keeps one read more than the high-water mark.       *)
DrainHoldsBack == kind = "streams" => \A c \in Clients : Len(buf[c]) <= HighWater + ReadSize

(* The servers catch up with their clients: every unit comes back, from the *)
(* proactors also to a client that has half-closed, and after the server    *)
(* has been closed; the reactor drops what it has not sent when it sees the *)
(* end.                                                                     *)
EverythingEchoed == \A c \in Clients :
  []<>(\/ Len(got[c]) = sent[c] \/ ended[c] = "reset"
       \/ Reactor /\ (ended[c] = "fin" \/ loop = "closed"))

(* A connection whose client has ended is closed, and its coroutine ends.   *)
EndedAreClosed == \A c \in Clients :
  []<>(\/ ended[c] = "no"
       \/ link[c] = "gone" /\ task[c] \in {"none", "done", "failed"}
       \/ Reactor /\ loop = "closed")

(* To its clients each server is an echo service.                           *)
Service == INSTANCE EchoService
IsEchoService == Service!Spec

--------------------------------------------------------------------------------
(* Why the safety properties hold.  A connection has a descriptor of its    *)
(* own from accept to close, and one that waits in the backlog has nothing. *)
LinkInv ==
  /\ \A i \in DOMAIN backlog : link[backlog[i]] = "queued"
  /\ \A i, j \in DOMAIN backlog : i # j => backlog[i] # backlog[j]
  /\ "in" \in batch[Listener] => backlog # <<>>
  /\ \A fd, g \in Fds : Open(fd) /\ fd # g => sock[fd] # sock[g]
  /\ \A c \in Clients :
       /\ link[c] = "open" <=> \E fd \in Fds : sock[fd] = c
       /\ link[c] = "open" <=> stage[c] \in {"open", "closing", "lost", "broken"}
       /\ link[c] \in {"away", "queued"} => stage[c] = "none"
       /\ stage[c] = "none" => /\ task[c] = "none" /\ buf[c] = <<>> /\ inbox[c] = <<>>
                               /\ c \notin eof \cup paused

(* The stream of a client, cut at the places where the units wait.          *)
Holds(q, c, from) == \A i \in 1..Len(q) : q[i] = <<c, from + i>>
StreamInv == \A c \in Clients : LET back == Len(got[c]) + Len(outq[c])
                                    kept == back + Len(buf[c]) IN
  /\ Holds(got[c], c, 0) /\ Holds(outq[c], c, Len(got[c])) /\ back <= sent[c]
  /\ Len(outq[c]) <= Room
  /\ ended[c] # "reset" =>
       /\ Holds(buf[c], c, back) /\ Holds(inbox[c], c, kept)
       /\ Holds(inq[c], c, kept + Len(inbox[c]))
       /\ kept + Len(inbox[c]) + Len(inq[c]) = sent[c]

(* A transport closes only when the coroutine has written all it was fed,   *)
(* and after its client has ended; only a reset makes a coroutine fail.     *)
TaskInv == \A c \in Clients :
  /\ kind # "streams" => task[c] = "none" /\ inbox[c] = <<>> /\ c \notin eof
  /\ Reactor => stage[c] \in {"none", "open", "closed"}
  /\ kind = "streams" => /\ stage[c] = "open" => task[c] \in {"read", "drain"}
                         /\ stage[c] \in {"closing", "lost", "closed"} =>
                              task[c] \in {"wait_closed", "done"}
  /\ stage[c] \in {"closing", "lost", "closed"} => inbox[c] = <<>> /\ ended[c] # "no"
  /\ stage[c] \in {"broken", "aborted"} \/ task[c] = "failed" => ended[c] = "reset"
  /\ task[c] = "done" => stage[c] = "closed"
  /\ c \in eof => ended[c] # "no"

(* A coroutine reads again only when the buffer is below the mark.          *)
FlowInv == \A c \in Clients :
  /\ ~Reactor /\ c \notin paused => Len(buf[c]) <= HighWater
  /\ task[c] = "read" => Len(buf[c]) <= HighWater
  /\ kind = "streams" => Len(buf[c]) <= HighWater + ReadSize

(* Who does not read any more is not registered, nor who has lost the       *)
(* connection.                                                              *)
EndedAreUnregistered == \A fd \in Fds : Open(fd) =>
  /\ stage[sock[fd]] # "open" \/ sock[fd] \in eof => reader[fd] = NoClient
  /\ Lost(sock[fd]) => writer[fd] = NoClient

IInv == /\ TypeOK /\ LinkInv /\ StreamInv /\ TaskInv /\ FlowInv
        /\ NoCallbackOfTheClosed /\ WriterWhileOutput /\ EndedAreUnregistered
================================================================================
