------------------------------ MODULE EchoService ------------------------------
(****************************************************************************)
(* What every echo server of python/io_multiplexing promises a client: it   *)
(* gets back what it has sent, from the start and in order, and nothing     *)
(* else; how far it gets is not promised to a client that goes away.        *)
(****************************************************************************)
EXTENDS Integers, Sequences

CONSTANTS Clients, MaxUnits

VARIABLES sent,   (* units each client has sent                             *)
          got     (* units it has been given back                           *)

vars == <<sent, got>>

Init == sent = [c \in Clients |-> 0] /\ got = [c \in Clients |-> <<>>]

Send(c) == /\ sent[c] < MaxUnits[c]
           /\ sent' = [sent EXCEPT ![c] = @ + 1]
           /\ UNCHANGED got

GiveBack(c) == /\ Len(got[c]) < sent[c]
               /\ got' = [got EXCEPT ![c] = Append(@, <<c, Len(@) + 1>>)]
               /\ UNCHANGED sent

Next == \E c \in Clients : Send(c) \/ GiveBack(c)

Spec == Init /\ [][Next]_vars
================================================================================
