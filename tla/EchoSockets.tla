------------------------------ MODULE EchoSockets ------------------------------
(****************************************************************************)
(* The kernel and the clients as the echo servers of python/io_multiplexing *)
(* see them (external code): a backlog of connections, a receive queue and  *)
(* a send queue per connection, and clients that send, read, half-close or  *)
(* reset at any time.  A unit stands for some bytes that are never split.   *)
(****************************************************************************)
EXTENDS Integers, Sequences, FiniteSets

CONSTANTS Clients,
          MaxUnits,   (* bound: units each client sends                     *)
          Room        (* units a send queue holds                           *)

ASSUME SocketsAssumption == MaxUnits \in [Clients -> Nat] /\ Room \in Nat \ {0}

VARIABLES
  link,      (* "away", "queued" in the backlog, "open", "gone"             *)
  backlog,   (* connections to accept, in order                             *)
  ended,     (* "no"; "fin": the client sends no more; "reset"              *)
  sent,      (* units sent by the client                                    *)
  inq,       (* units the server has not received yet                       *)
  outq,      (* units sent to the client that it has not read               *)
  got        (* units the client has read                                   *)

sockets == <<link, backlog, ended, sent, inq, outq, got>>

Unit == {u \in Clients \X Nat : u[2] \in 1..MaxUnits[u[1]]}

SocketsTypeOK ==
  /\ link \in [Clients -> {"away", "queued", "open", "gone"}]
  /\ backlog \in Seq(Clients)
  /\ ended \in [Clients -> {"no", "fin", "reset"}]
  /\ sent \in [Clients -> Nat] /\ \A c \in Clients : sent[c] <= MaxUnits[c]
  /\ DOMAIN inq = Clients /\ DOMAIN outq = Clients /\ DOMAIN got = Clients
  /\ \A c \in Clients : /\ inq[c] \in Seq(Unit) /\ outq[c] \in Seq(Unit)
                        /\ got[c] \in Seq(Unit)

SocketsInit ==
  /\ link = [c \in Clients |-> "away"] /\ backlog = <<>>
  /\ ended = [c \in Clients |-> "no"] /\ sent = [c \in Clients |-> 0]
  /\ inq = [c \in Clients |-> <<>>]
  /\ outq = [c \in Clients |-> <<>>]
  /\ got = [c \in Clients |-> <<>>]

--------------------------------------------------------------------------------
(* What select, poll and epoll report of a connection.                      *)
Readable(c) == inq[c] # <<>> \/ ended[c] # "no"
Writable(c) == Len(outq[c]) < Room \/ ended[c] = "reset"
HungUp(c) == ended[c] = "reset"

Ready(c) == {e \in {"in", "out", "hup"} : \/ e = "in" /\ Readable(c)
                                          \/ e = "out" /\ Writable(c)
                                          \/ e = "hup" /\ HungUp(c)}
--------------------------------------------------------------------------------
Connect(c) == /\ link[c] = "away"
              /\ link' = [link EXCEPT ![c] = "queued"]
              /\ backlog' = Append(backlog, c)
              /\ UNCHANGED <<ended, sent, inq, outq, got>>

Connected(c) == link[c] \in {"queued", "open"}

Send(c) == /\ Connected(c) /\ ended[c] = "no" /\ sent[c] < MaxUnits[c]
           /\ sent' = [sent EXCEPT ![c] = @ + 1]
           /\ inq' = [inq EXCEPT ![c] = Append(@, <<c, sent[c] + 1>>)]
           /\ UNCHANGED <<link, backlog, ended, outq, got>>

Receive(c) == /\ outq[c] # <<>>
              /\ got' = [got EXCEPT ![c] = Append(@, Head(outq[c]))]
              /\ outq' = [outq EXCEPT ![c] = Tail(@)]
              /\ UNCHANGED <<link, backlog, ended, sent, inq>>

(* shutdown, or close with nothing left unread.                             *)
Fin(c) == /\ Connected(c) /\ ended[c] = "no"
          /\ ended' = [ended EXCEPT ![c] = "fin"]
          /\ UNCHANGED <<link, backlog, sent, inq, outq, got>>

(* A reset drops what is on its way to the client.                          *)
Reset(c) == /\ Connected(c) /\ ended[c] # "reset"
            /\ ended' = [ended EXCEPT ![c] = "reset"]
            /\ outq' = [outq EXCEPT ![c] = <<>>]
            /\ UNCHANGED <<link, backlog, sent, inq, got>>
================================================================================
