----------------------------- MODULE AtomicChannel ------------------------------
(****************************************************************************)
(* What a closable channel promises, whatever its waiting looks like: the   *)
(* items accepted form one log, receivers are given the log from its start, *)
(* each item once, and close stops the log from growing but not from being  *)
(* read to its end.                                                         *)
(****************************************************************************)
EXTENDS Integers, Sequences

CONSTANTS Threads,
          Ops,       (* Ops[t]: the operations thread t makes, in order      *)
          MaxSize    (* items the channel may hold; 0: no limit              *)

VARIABLES log,      (* every item accepted, in order                         *)
          given,    (* how many of them have been given to receivers         *)
          closed,
          answers   (* results of each thread's operations so far            *)

vars == <<log, given, closed, answers>>

Init == /\ log = <<>> /\ given = 0 /\ closed = FALSE
        /\ answers = [t \in Threads |-> <<>>]

(* A thread that is told the channel is closed makes no more operations.    *)
Todo(t) == /\ Len(answers[t]) < Len(Ops[t])
           /\ answers[t] = <<>> \/ answers[t][Len(answers[t])].status # "closed"
Now(t) == Ops[t][Len(answers[t]) + 1]
Answer(t, status, item) ==
  answers' = [answers EXCEPT ![t] = Append(@, [status |-> status, item |-> item])]

Full == MaxSize > 0 /\ Len(log) - given >= MaxSize

Put(t) == /\ Todo(t) /\ Now(t).op \in {"send", "try_send"} /\ ~closed /\ ~Full
          /\ log' = Append(log, Now(t).item)
          /\ Answer(t, "ok", Now(t).item)
          /\ UNCHANGED <<given, closed>>

GiveUp(t) == /\ Todo(t)
             /\ \/ Now(t).op = "try_send" /\ ~closed /\ Full
                \/ Now(t).op = "try_recv" /\ given = Len(log)
             /\ Answer(t, "not_now", Now(t).item)
             /\ UNCHANGED <<log, given, closed>>

Get(t) == /\ Todo(t) /\ Now(t).op \in {"recv", "try_recv"} /\ given < Len(log)
          /\ given' = given + 1
          /\ Answer(t, "ok", log[given + 1])
          /\ UNCHANGED <<log, closed>>

TooLate(t) == /\ Todo(t) /\ closed
              /\ \/ Now(t).op \in {"send", "try_send"}
                 \/ Now(t).op = "recv" /\ given = Len(log)
              /\ Answer(t, "closed", Now(t).item)
              /\ UNCHANGED <<log, given, closed>>

Close(t) == /\ Todo(t) /\ Now(t).op = "close"
            /\ closed' = TRUE
            /\ Answer(t, "ok", Now(t).item)
            /\ UNCHANGED <<log, given>>

Next == \E t \in Threads : Put(t) \/ GiveUp(t) \/ Get(t) \/ TooLate(t) \/ Close(t)

Spec == Init /\ [][Next]_vars
================================================================================
