------------------------------- MODULE PrintQueue -------------------------------
(****************************************************************************)
(* What the print servers of actor/ promise in every language: jobs are     *)
(* printed one after the other in the order in which they were accepted,    *)
(* each of them once, and none after the server has ended.                  *)
(****************************************************************************)
EXTENDS Integers, Sequences

CONSTANT Jobs

VARIABLES accepted,  (* jobs taken into the mailbox, in order               *)
          printed,   (* the jobs printed, in order                          *)
          ended

vars == <<accepted, printed, ended>>

Init == accepted = <<>> /\ printed = <<>> /\ ended = FALSE

Accept == /\ \E j \in Jobs : accepted' = Append(accepted, j)
          /\ UNCHANGED <<printed, ended>>

PrintJob == /\ ~ended /\ Len(printed) < Len(accepted)
            /\ printed' = Append(printed, accepted[Len(printed) + 1])
            /\ UNCHANGED <<accepted, ended>>

End == ~ended /\ ended' = TRUE /\ UNCHANGED <<accepted, printed>>

Next == Accept \/ PrintJob \/ End

Spec == Init /\ [][Next]_vars
================================================================================
