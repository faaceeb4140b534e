------------------------------ MODULE EchoServers ------------------------------
(****************************************************************************)
(* The single-threaded echo servers of python/io_multiplexing that ask the  *)
(* kernel which sockets are ready: select_server.py, poll_server.py, and    *)
(* epoll_server.py level-triggered, edge-triggered and edge-triggered with  *)
(* EPOLLONESHOT.  One of them runs.                                         *)
(*                                                                          *)
(* A step is one system call and the bookkeeping that follows it; between   *)
(* two of them the clients do as they like, so that a handler works on      *)
(* events that were reported some time ago.                                 *)
(****************************************************************************)
EXTENDS EchoSockets

CONSTANTS Kinds,     (* the servers to choose from                          *)
          MaxFd,     (* descriptors 1..MaxFd are free for connections       *)
          Listener,  (* the descriptor of the listening socket              *)
          NoClient, NoFd

Fds == 1..MaxFd

ASSUME ServersAssumption ==
  /\ Kinds \subseteq {"select", "poll", "LT", "ET", "ONESHOT"}
  /\ MaxFd \in Nat /\ Listener \notin Fds /\ NoFd \notin Fds \cup {Listener}
  /\ NoClient \notin Clients
  /\ IsFiniteSet(Clients) /\ Cardinality(Clients) <= MaxFd

VARIABLES
  kind,      (* the server that runs                                        *)
  loop,      (* "run"; "dead": serve_forever has left its loop              *)
  sock,      (* _fd_to_sock                                                 *)
  watched,   (* read_fds of select; the descriptors registered with poll    *)
  mask,      (* the events they are registered for                          *)
  sendBuf,   (* _send_bufs; empty when there is no entry                    *)
  batch,     (* the events of the last call that are not handled yet        *)
  turn,      (* the descriptor whose handler has not returned               *)
  drained,   (* total_read > 0, in the edge-triggered read loop             *)
  edges      (* edge-triggered: descriptors on epoll's ready list           *)

server == <<loop, sock, watched, mask, sendBuf, batch, turn, drained, edges>>
vars == <<sockets, kind, server>>

TypeOK == /\ SocketsTypeOK
          /\ kind \in Kinds /\ loop \in {"run", "dead"}
          /\ sock \in [Fds -> Clients \cup {NoClient}]
          /\ watched \subseteq Fds
          /\ mask \in [Fds -> SUBSET {"in", "out"}]
          /\ DOMAIN sendBuf = Fds /\ \A fd \in Fds : sendBuf[fd] \in Seq(Unit)
          /\ batch \in [Fds \cup {Listener} -> SUBSET {"in", "out", "hup"}]
          /\ turn \in Fds \cup {Listener, NoFd} /\ drained \in BOOLEAN
          /\ edges \subseteq Fds \cup {Listener}

NoEvents == [fd \in Fds \cup {Listener} |-> {}]

Init == /\ SocketsInit
        /\ kind \in Kinds /\ loop = "run"
        /\ sock = [fd \in Fds |-> NoClient]
        /\ watched = {} /\ mask = [fd \in Fds |-> {}]
        /\ sendBuf = [fd \in Fds |-> <<>>]
        /\ batch = NoEvents /\ turn = NoFd /\ drained = FALSE /\ edges = {}

Epoll == kind \in {"LT", "ET", "ONESHOT"}
Edge == kind \in {"ET", "ONESHOT"}
Open(fd) == sock[fd] # NoClient

--------------------------------------------------------------------------------
(* The clients.  What they do puts a descriptor back on the ready list.     *)
FdOf(c) == {fd \in Fds : sock[fd] = c}
Raise(fds) == edges' = IF Edge THEN edges \cup fds ELSE edges
ServerWaits == UNCHANGED <<kind, loop, sock, watched, mask, sendBuf, batch, turn, drained>>

ClientStep(c) ==
  /\ loop = "run"
  /\ \/ Connect(c) /\ Raise({Listener})
     \/ (Send(c) \/ Fin(c) \/ Reset(c)) /\ Raise(FdOf(c))
  /\ ServerWaits

ClientReads(c) == /\ Receive(c)
                  /\ Raise(IF Len(outq[c]) = Room THEN FdOf(c) ELSE {})
                  /\ ServerWaits

--------------------------------------------------------------------------------
(* select(), poll() and epoll.poll().                                       *)
Interest(fd) ==
  IF kind = "select" THEN IF sendBuf[fd] = <<>> THEN {"in"} ELSE {"in", "out"}
  ELSE IF mask[fd] = {} THEN {} ELSE mask[fd] \cup {"hup"}

Reported(fd) == Edge => fd \in edges
Events == [fd \in Fds \cup {Listener} |->
  IF ~Reported(fd) THEN {}
  ELSE IF fd = Listener THEN IF backlog # <<>> THEN {"in"} ELSE {}
  ELSE IF fd \in watched /\ Open(fd) THEN Interest(fd) \cap Ready(sock[fd]) ELSE {}]

(* A descriptor of read_fds has been closed: select() raises EBADF.         *)
Stale == kind = "select" /\ \E fd \in watched : ~Open(fd)

Waiting == loop = "run" /\ batch = NoEvents

Ask == /\ Waiting /\ ~Stale /\ Events # NoEvents
       /\ batch' = Events
       /\ edges' = {}
       /\ mask' = [fd \in Fds |-> IF kind = "ONESHOT" /\ Events[fd] # {} THEN {} ELSE mask[fd]]
       /\ UNCHANGED <<sockets, kind, loop, sock, watched, sendBuf, turn, drained>>

(* The one-second timeout.                                                  *)
AskInVain == Waiting /\ ~Stale /\ Events = NoEvents /\ UNCHANGED vars

(* _cleanup: every connection is closed, and the listening socket.          *)
Cleanup ==
  /\ loop' = "dead"
  /\ link' = [c \in Clients |-> IF Connected(c) THEN "gone" ELSE link[c]]
  /\ backlog' = <<>>
  /\ sock' = [fd \in Fds |-> NoClient]
  /\ watched' = {} /\ mask' = [fd \in Fds |-> {}]
  /\ sendBuf' = [fd \in Fds |-> <<>>]
  /\ batch' = NoEvents /\ turn' = NoFd /\ drained' = FALSE /\ edges' = {}
  /\ UNCHANGED <<kind, ended, sent, inq, outq, got>>

SelectFails == Waiting /\ Stale /\ Cleanup

Exited == loop = "dead" /\ UNCHANGED vars

--------------------------------------------------------------------------------
(* Handlers.  The event that is done is taken off the batch, and the        *)
(* handler either goes on with the other event of the descriptor or returns.*)
Handles(fd, e) == loop = "run" /\ e \in batch[fd] /\ turn \in {fd, NoFd}

HandledThen(fd, rest) == /\ batch' = [batch EXCEPT ![fd] = rest]
                         /\ turn' = IF rest = {} \/ kind = "select" THEN NoFd ELSE fd
HandledOnceWritten(fd, e) == HandledThen(fd, IF e = "in" THEN batch[fd] ELSE batch[fd] \ {e})
Handled(fd, e) == HandledThen(fd, batch[fd] \ {e})

(* poller.modify, _rearm: epoll looks again whether the socket is ready.    *)
Modify(fd, events) ==
  /\ mask' = [mask EXCEPT ![fd] = events]
  /\ Raise(IF (events \cup {"hup"}) \cap Ready(sock[fd]) # {} THEN {fd} ELSE {})
NoModify == UNCHANGED <<mask, edges>>
ModifyUnlessSelect(fd, events) == IF kind = "select" THEN NoModify ELSE Modify(fd, events)

(* _close_client; _handle_read of select does not pass read_fds on.         *)
CloseKeepingBuffer(fd, unwatch) ==
  /\ sock' = [sock EXCEPT ![fd] = NoClient]
  /\ sendBuf' = sendBuf
  /\ link' = [link EXCEPT ![sock[fd]] = "gone"]
  /\ watched' = IF unwatch THEN watched \ {fd} ELSE watched
  /\ mask' = [mask EXCEPT ![fd] = {}]
  /\ edges' = edges \ {fd}
Close(fd, unwatch) ==
  /\ sock' = [sock EXCEPT ![fd] = NoClient]
  /\ sendBuf' = [sendBuf EXCEPT ![fd] = <<>>]
  /\ link' = [link EXCEPT ![sock[fd]] = "gone"]
  /\ watched' = IF unwatch THEN watched \ {fd} ELSE watched
  /\ mask' = [mask EXCEPT ![fd] = {}]
  /\ edges' = edges \ {fd}

(* _accept_client: one connection, or all of them with epoll; each gets the *)
(* lowest free descriptor.                                                  *)
MoreToAccept == Epoll /\ Len(backlog) > 1
Accept == LET c == Head(backlog)
              fd == CHOOSE f \in Fds : ~Open(f) /\ \A g \in Fds : ~Open(g) => f <= g IN
  /\ Handles(Listener, "in")
  /\ sock' = [sock EXCEPT ![fd] = c]
  /\ link' = [link EXCEPT ![c] = "open"]
  /\ backlog' = Tail(backlog)
  /\ watched' = watched \cup {fd}
  /\ sendBuf' = [sendBuf EXCEPT ![fd] = <<>>]
  /\ mask' = [mask EXCEPT ![fd] = {"in"}]
  /\ Raise(IF Readable(c) THEN {fd} ELSE {})
  /\ HandledThen(Listener, IF MoreToAccept THEN {"in"} ELSE {})
  /\ UNCHANGED <<kind, loop, drained, ended, sent, inq, outq, got>>

(* POLLERR, POLLHUP.                                                        *)
HangUp(fd) == /\ Handles(fd, "hup")
              /\ Close(fd, TRUE)
              /\ HandledThen(fd, {})
              /\ UNCHANGED <<kind, loop, drained, backlog, ended, sent, inq, outq, got>>

Reads(fd) == Handles(fd, "in") /\ "hup" \notin batch[fd] /\ fd # Listener

(* recv() returns the first units of what is there; they are echoed later.  *)
(* Edge-triggered, the handler reads on until there is nothing left.        *)
Recv(fd) == LET c == sock[fd] IN
  /\ Reads(fd) /\ Open(fd)
  /\ \E k \in 1..Len(inq[c]) :
       /\ inq' = [inq EXCEPT ![c] = SubSeq(@, k + 1, Len(@))]
       /\ sendBuf' = [sendBuf EXCEPT ![fd] = @ \o SubSeq(inq[c], 1, k)]
  /\ IF Edge
     THEN /\ drained' = TRUE /\ turn' = fd /\ NoModify
          /\ UNCHANGED batch
     ELSE /\ Handled(fd, "in")
          /\ ModifyUnlessSelect(fd, {"in", "out"})
          /\ UNCHANGED drained
  /\ UNCHANGED <<kind, loop, sock, watched, link, backlog, ended, sent, outq, got>>

(* End of file or ConnectionResetError.  poll goes on with the write half   *)
(* of the event, epoll returns.                                             *)
RecvEnd(fd) == LET c == sock[fd] IN
  /\ Reads(fd) /\ Open(fd)
  /\ inq[c] = <<>> /\ ended[c] # "no"
  /\ Close(fd, kind # "select")
  /\ HandledThen(fd, IF Epoll THEN {} ELSE batch[fd] \ {"in"})
  /\ drained' = FALSE
  /\ UNCHANGED <<kind, loop, backlog, ended, sent, inq, outq, got>>

(* EAGAIN ends the loop of _handle_io_et; the other handlers do not expect  *)
(* it.                                                                      *)
RearmForgotten(fd) == NoModify
RearmForWriting(fd) == Modify(fd, {"in", "out"})
RecvAgain(fd) == LET c == sock[fd] IN
  /\ Reads(fd) /\ Open(fd)
  /\ inq[c] = <<>> /\ ended[c] = "no"
  /\ IF ~Edge THEN Cleanup
     ELSE /\ IF drained THEN RearmForWriting(fd) ELSE NoModify
          /\ Handled(fd, "in")
          /\ drained' = FALSE
          /\ UNCHANGED <<sockets, kind, loop, sock, watched, sendBuf>>

(* The write list of select comes after its read list.                      *)
Writes(fd) == /\ Handles(fd, "out") /\ fd # Listener
              /\ batch[fd] \cap {"in", "hup"} = {}
              /\ kind = "select" => \A g \in DOMAIN batch : "in" \notin batch[g]

Least(m, n) == IF m < n THEN m ELSE n
RestAgain(buf, n) == SubSeq(buf, IF n = 0 THEN 1 ELSE n, Len(buf))
Rest(buf, n) == SubSeq(buf, n + 1, Len(buf))

(* send() takes what there is room for; EAGAIN is expected only by the      *)
(* edge-triggered server.                                                   *)
WriteSome(fd) == LET c == sock[fd]
                     n == Least(Len(sendBuf[fd]), Room - Len(outq[c]))
                     rest == Rest(sendBuf[fd], n) IN
  /\ Writes(fd) /\ Open(fd) /\ sendBuf[fd] # <<>> /\ ended[c] # "reset"
  /\ IF n = 0 /\ ~Edge THEN Cleanup
     ELSE /\ outq' = [outq EXCEPT ![c] = @ \o SubSeq(sendBuf[fd], 1, n)]
          /\ sendBuf' = [sendBuf EXCEPT ![fd] = rest]
          /\ IF rest = <<>> THEN ModifyUnlessSelect(fd, {"in"}) ELSE NoModify
          /\ Handled(fd, "out")
          /\ UNCHANGED <<kind, loop, sock, watched, drained>>
          /\ UNCHANGED <<link, backlog, ended, sent, inq, got>>

(* ConnectionResetError, BrokenPipeError.                                   *)
WriteError(fd) ==
  /\ Writes(fd) /\ Open(fd) /\ sendBuf[fd] # <<>> /\ ended[sock[fd]] = "reset"
  /\ Close(fd, TRUE)
  /\ Handled(fd, "out")
  /\ UNCHANGED <<kind, loop, drained, backlog, ended, sent, inq, outq, got>>

(* Nothing to write, or no entry at all.  modify raises for a descriptor    *)
(* that the read half of the same event has unregistered, and nobody        *)
(* catches that.                                                            *)
WriteNothing(fd) ==
  /\ Writes(fd) /\ sendBuf[fd] = <<>>
  /\ IF kind # "poll" \/ fd \in watched
     THEN /\ ModifyUnlessSelect(fd, {"in"})
          /\ Handled(fd, "out")
          /\ UNCHANGED <<sockets, kind, loop, sock, watched, sendBuf, drained>>
     ELSE Cleanup

Handler(fd) == \/ HangUp(fd) \/ Recv(fd) \/ RecvEnd(fd) \/ RecvAgain(fd)
               \/ WriteSome(fd) \/ WriteError(fd) \/ WriteNothing(fd)

ServerStep == Ask \/ SelectFails \/ Accept \/ \E fd \in Fds : Handler(fd)

Next == \/ \E c \in Clients : ClientStep(c) \/ ClientReads(c)
        \/ ServerStep \/ AskInVain \/ Exited

Spec == Init /\ [][Next]_vars

(* The server thread is scheduled; clients read what has come for them.     *)
FairSpec == Spec /\ WF_vars(ServerStep) /\ \A c \in Clients : WF_vars(ClientReads(c))

--------------------------------------------------------------------------------
(* recv and send are made only on sockets that still are what the event     *)
(* said, though descriptors are closed and used again while a batch is      *)
(* handled; no BlockingIOError escapes from the level-triggered servers.    *)
EventsStillTrue == \A fd \in Fds : Open(fd) /\ ~Edge =>
  /\ "in" \in batch[fd] => Readable(sock[fd])
  /\ "out" \in batch[fd] /\ sendBuf[fd] # <<>> => Writable(sock[fd])

(* The server knows of every socket it holds, and asks to write as long as  *)
(* there is something to write (but for EPOLLONESHOT).                      *)
OutputIsWatched == \A fd \in Fds : Open(fd) =>
  /\ fd \in watched
  /\ kind \in {"poll", "LT", "ET"} /\ ~(turn = fd /\ drained) =>
       mask[fd] = {"in", "out"} \/ (mask[fd] = {"in"} /\ sendBuf[fd] = <<>>)

(* Edge-triggered: whatever the server has not dealt with is on the ready   *)
(* list, or it will never be.                                               *)
NoLostEdge == kind = "ET" /\ batch = NoEvents => \A fd \in Fds : Open(fd) =>
  /\ Readable(sock[fd]) => fd \in edges
  /\ sendBuf[fd] # <<>> /\ Writable(sock[fd]) => fd \in edges

(* epoll serves for ever; the loops of select and poll end only after a     *)
(* client has gone.                                                         *)
LoopEndsOnlyAfterAClient ==
  loop = "dead" => kind \in {"select", "poll"} /\ \E c \in Clients : ended[c] # "no"

(* Every unit comes back to a client that stays, from a server whose loop   *)
(* goes on; with EPOLLONESHOT, but for a connection whose send took a part: *)
(* the rest waits under a descriptor that is armed for nothing.             *)
Disarmed(c) == \E fd \in Fds : /\ kind = "ONESHOT" /\ sock[fd] = c /\ sendBuf[fd] # <<>>
                               /\ mask[fd] = {} /\ batch[fd] = {} /\ turn # fd
EverythingEchoed == \A c \in Clients : \A n \in 1..MaxUnits[c] :
  sent[c] >= n ~> (Len(got[c]) >= n \/ ended[c] # "no" \/ loop = "dead" \/ Disarmed(c))

(* To its clients each server is an echo service.                           *)
Service == INSTANCE EchoService
IsEchoService == Service!Spec

(* "Single-threaded concurrent connection handling via event loop"          *)
(* (select_server.py line 8): the end of one connection is not the end of   *)
(* the loop.                                                                *)
LoopSurvivesClients == loop = "run"

--------------------------------------------------------------------------------
(* Why the safety properties hold.                                          *)

(* A connection is in the backlog, or has one descriptor of its own, or     *)
(* neither; a closed descriptor has no output left.                         *)
LinkInv ==
  /\ \A i \in DOMAIN backlog : link[backlog[i]] = "queued"
  /\ \A i, j \in DOMAIN backlog : i # j => backlog[i] # backlog[j]
  /\ \A fd \in Fds : IF Open(fd) THEN link[sock[fd]] = "open" ELSE sendBuf[fd] = <<>>
  /\ \A fd, g \in Fds : Open(fd) /\ fd # g => sock[fd] # sock[g]

(* The stream of a client, cut at the places where the units wait.          *)
Holds(q, c, from) == \A i \in 1..Len(q) : q[i] = <<c, from + i>>
Back(c) == Len(got[c]) + Len(outq[c])
StreamInv == \A c \in Clients :
  /\ Holds(got[c], c, 0) /\ Holds(outq[c], c, Len(got[c]))
  /\ Back(c) <= sent[c] /\ Len(outq[c]) <= Room
  /\ link[c] \in {"away", "queued"} =>
       Back(c) = 0 /\ Len(inq[c]) = sent[c] /\ Holds(inq[c], c, 0)
BufferInv == \A fd \in Fds : LET c == sock[fd]
                                 due == Back(c) + Len(sendBuf[fd]) IN
  Open(fd) /\ ended[c] # "reset" =>
    /\ Holds(sendBuf[fd], c, Back(c)) /\ Holds(inq[c], c, due)
    /\ due + Len(inq[c]) = sent[c]

(* An event outlives its connection only as "out", and only after a client  *)
(* has gone; the handlers of the level-triggered servers find what it says. *)
(* An edge-triggered read loop is left with its event unless it is drained. *)
SomeoneEnded == \E c \in Clients : ended[c] # "no"
BatchInv ==
  /\ batch[Listener] \subseteq {"in"} /\ (batch[Listener] # {} => backlog # <<>>)
  /\ \A fd \in Fds :
       /\ ~Open(fd) => batch[fd] \subseteq {"out"}
       /\ ~Open(fd) /\ batch[fd] # {} => ~Epoll /\ SomeoneEnded
       /\ Open(fd) /\ ~Edge => /\ "in" \in batch[fd] => Readable(sock[fd])
                               /\ "out" \in batch[fd] => Writable(sock[fd])
  /\ drained => /\ Edge /\ turn \in Fds /\ Open(turn)
                /\ "in" \in batch[turn] /\ "hup" \notin batch[turn]

(* What is not dealt with is on the ready list or among the events.         *)
EdgeInv == kind = "ET" => \A fd \in Fds : Open(fd) =>
  /\ Readable(sock[fd]) => fd \in edges \/ batch[fd] \cap {"in", "hup"} # {}
  /\ sendBuf[fd] # <<>> /\ Writable(sock[fd]) =>
       fd \in edges \/ batch[fd] \cap {"out", "hup"} # {} \/ (drained /\ turn = fd)

(* What select keeps of a closed descriptor, and the end of the loop.       *)
StaleInv == Stale => SomeoneEnded

IInv == /\ TypeOK /\ LinkInv /\ StreamInv /\ BufferInv /\ OutputIsWatched
        /\ BatchInv /\ EdgeInv /\ StaleInv
================================================================================
