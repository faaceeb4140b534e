------------------------------- MODULE Coroutines -------------------------------
(****************************************************************************)
(* The stackful coroutines of python/stackful_coroutine/greenlet_demo.py:   *)
(* Scheduler, which switches between greenlets when the library is there,   *)
(* and the fallback of ThreadBasedCoro and ThreadScheduler, in which each   *)
(* coroutine is a thread with a queue of resume tokens and one of messages  *)
(* to the scheduler.  Nobody looks into a message, so a queue is a number.  *)
(****************************************************************************)
EXTENDS Naturals, Sequences, SequencesExt

CONSTANTS Order,     (* the coroutines, in the order of sched.add           *)
          Rotator,   (* the one that moves another to the end of the queue  *)
          Suspensions,  (* how often each coroutine suspends: a set of choices *)
          Kinds

Coros == Range(Order)
Count == Len(Order)

ASSUME CoroutinesAssumption ==
  /\ Order \in Seq(Coros) /\ Count > 1 /\ IsInjective(Order)
  /\ Order[1] = Rotator
  /\ Suspensions \subseteq [Coros -> Nat]
  /\ Kinds \subseteq {"greenlets", "threads"}

VARIABLES
  kind,      (* with or without greenlet                                    *)
  suspends,  (* how often each coroutine will suspend                       *)
  steps,     (* steps each coroutine has made                               *)
  ready,     (* Scheduler._ready                                            *)
  raised,    (* an IndexError has ended Scheduler.run                       *)
  main,      (* ThreadScheduler.run: what it does, and to which coroutine   *)
  pc,        (* the threads of the coroutines                               *)
  resume_q, sched_q  (* tokens and messages in the queues of each coroutine *)

threads == <<main, pc, resume_q, sched_q>>
schedVars == <<kind, suspends, steps, ready, raised, threads>>

SchedTypeOK ==
  /\ kind \in Kinds /\ suspends \in Suspensions
  /\ steps \in [Coros -> Nat] /\ \A c \in Coros : steps[c] <= suspends[c] + 1
  /\ ready \in Seq(Coros) /\ raised \in BOOLEAN
  /\ main \in [does : {"start", "put", "get", "join", "done"}, at : 1..Count]
  /\ pc \in [Coros -> {"new", "run", "suspended", "returned", "ended"}]
  /\ resume_q \in [Coros -> Nat] /\ sched_q \in [Coros -> Nat]

SchedInit == /\ kind \in Kinds /\ suspends \in Suspensions
        /\ steps = [c \in Coros |-> 0]
        /\ ready = Order /\ raised = FALSE
        /\ main = [does |-> "start", at |-> 1]
        /\ pc = [c \in Coros |-> "new"]
        /\ resume_q = [c \in Coros |-> 0] /\ sched_q = [c \in Coros |-> 0]

AtLastStep(c) == steps[c] = suspends[c]
MakeStep(c) == steps' = [steps EXCEPT ![c] = @ + 1]

--------------------------------------------------------------------------------
(* Scheduler.run takes the first coroutine and switches to it.  The         *)
(* coroutine runs to its next suspension and is put back at the end, or to  *)
(* its end.  Before it suspends, coroutine A takes the first of the others  *)
(* from the queue and puts it at the end; pop(0) of an empty queue raises,  *)
(* and the greenlet hands the error to its parent, the scheduler.           *)
RequeueFirst(q, c) == <<c>> \o q
Requeue(q, c) == Append(q, c)

GreenletsRun == kind = "greenlets" /\ ready # <<>> /\ ~raised

LastStep == /\ GreenletsRun /\ AtLastStep(Head(ready))
            /\ MakeStep(Head(ready))
            /\ ready' = Tail(ready)
            /\ UNCHANGED <<kind, suspends, raised, threads>>

StepAndSwitch ==
  /\ GreenletsRun /\ ~AtLastStep(Head(ready)) /\ Head(ready) # Rotator
  /\ MakeStep(Head(ready))
  /\ ready' = Requeue(Tail(ready), Head(ready))
  /\ UNCHANGED <<kind, suspends, raised, threads>>

RotateAndSwitch == LET others == Tail(ready) IN
  /\ GreenletsRun /\ ~AtLastStep(Head(ready)) /\ Head(ready) = Rotator
  /\ MakeStep(Rotator)
  /\ raised' = (others = <<>>)
  /\ ready' = IF others = <<>> THEN others
              ELSE Requeue(Append(Tail(others), Head(others)), Rotator)
  /\ UNCHANGED <<kind, suspends, threads>>

--------------------------------------------------------------------------------
(* ThreadScheduler.run starts each coroutine (start the thread, switch: put *)
(* a token, get a message) and then joins them all, in the same order.      *)
Does(what) == kind = "threads" /\ main.does = what
Current == Order[main.at]
NextOr(what, otherwise) ==
  IF main.at < Count THEN [does |-> what, at |-> main.at + 1]
  ELSE [does |-> otherwise, at |-> 1]

StartThread == /\ Does("start")
               /\ pc' = [pc EXCEPT ![Current] = "run"]
               /\ main' = [main EXCEPT !.does = "put"]
               /\ UNCHANGED <<kind, suspends, steps, ready, raised, resume_q, sched_q>>

PutToken == /\ Does("put")
            /\ resume_q' = [resume_q EXCEPT ![Current] = @ + 1]
            /\ main' = [main EXCEPT !.does = "get"]
            /\ UNCHANGED <<kind, suspends, steps, ready, raised, pc, sched_q>>

GetMessage == /\ Does("get") /\ sched_q[Current] > 0
              /\ sched_q' = [sched_q EXCEPT ![Current] = @ - 1]
              /\ main' = NextOr("start", "join")
              /\ UNCHANGED <<kind, suspends, steps, ready, raised, pc, resume_q>>

Join == /\ Does("join") /\ pc[Current] = "ended"
        /\ main' = NextOr("join", "done")
        /\ UNCHANGED <<kind, suspends, steps, ready, raised, pc, resume_q, sched_q>>

(* A coroutine makes a step and tells the scheduler, whether it suspends or *)
(* is done; once the function has returned, _run says "done" again.         *)
Tell(c) == sched_q' = [sched_q EXCEPT ![c] = @ + 1]

ThreadStep(c) == /\ pc[c] = "run"
                 /\ MakeStep(c) /\ Tell(c)
                 /\ pc' = [pc EXCEPT ![c] = IF AtLastStep(c) THEN "returned" ELSE "suspended"]
                 /\ UNCHANGED <<kind, suspends, ready, raised, main, resume_q>>

TokensStillThere(c) == resume_q[c]
TokensLeft(c) == resume_q[c] - 1

Resumed(c) == /\ pc[c] = "suspended" /\ resume_q[c] > 0
              /\ resume_q' = [resume_q EXCEPT ![c] = TokensLeft(c)]
              /\ pc' = [pc EXCEPT ![c] = "run"]
              /\ UNCHANGED <<kind, suspends, steps, ready, raised, main, sched_q>>

ThreadEnds(c) == /\ pc[c] = "returned"
                 /\ Tell(c)
                 /\ pc' = [pc EXCEPT ![c] = "ended"]
                 /\ UNCHANGED <<kind, suspends, steps, ready, raised, main, resume_q>>

Thread(c) == ThreadStep(c) \/ Resumed(c) \/ ThreadEnds(c)
Greenlets == LastStep \/ StepAndSwitch \/ RotateAndSwitch
MainThread == StartThread \/ PutToken \/ GetMessage \/ Join

SchedNext == Greenlets \/ MainThread \/ \E c \in Coros : Thread(c)
SchedSpec == SchedInit /\ [][SchedNext]_schedVars

(* The threads are those of the operating system: each that can go on does, *)
(* and the scheduler of the greenlets is a loop.                            *)
SchedFairSpec == /\ SchedSpec /\ WF_schedVars(Greenlets) /\ WF_schedVars(MainThread)
            /\ \A c \in Coros : WF_schedVars(Thread(c))

--------------------------------------------------------------------------------
Ended(c) == steps[c] > suspends[c] /\ (kind = "threads" => pc[c] = "ended")

(* Scheduler is round robin though a coroutine changes the queue under it:  *)
(* nobody, not even one that has ended, is more than one step ahead of one  *)
(* that has not, and nobody is in the queue twice or lost from it.          *)
LockStep == kind = "greenlets" =>
  /\ \A c, d \in Coros : ~Ended(c) => steps[d] <= steps[c] + 1
  /\ IsInjective(ready)
  /\ ~raised => Range(ready) = {c \in Coros : ~Ended(c)}

(* Who ends.  With greenlets everybody does, unless the coroutine that      *)
(* rotates the queue suspends after all others have ended: then it raises.  *)
(* The fallback brings those to their end that suspend at most once; the    *)
(* others wait for a second token for ever.                                 *)
MayEnd(c) ==
  /\ kind = "threads" => suspends[c] <= 1
  /\ kind = "greenlets" /\ c = Rotator =>
       \E d \in Coros \ {c} : suspends[c] <= suspends[d] + 1

(* No other ends, whatever the order of the steps.  Scheduler.run returns,  *)
(* or raises, only after all of them, and ThreadScheduler.run when all have *)
(* ended: in the fallback it does not return as long as one suspends twice. *)
OnlyTheyEnd ==
  /\ \A c \in Coros : Ended(c) => MayEnd(c)
  /\ kind = "greenlets" /\ ready = <<>> => \A c \in Coros : MayEnd(c) => Ended(c)
  /\ kind = "threads" /\ main.does = "done" => \A c \in Coros : Ended(c)

EndsIffItMay == \A c \in Coros : /\ []<>(MayEnd(c) => Ended(c))
                                 /\ [](Ended(c) => MayEnd(c))

(* tests/test_greenlet_demo.py:8: "The demo should complete without error   *)
(* (with or without greenlet)."                                             *)
DemoCompletes == <>(IF kind = "threads" THEN main.does = "done" ELSE ready = <<>>)

--------------------------------------------------------------------------------
(* Why: the round of the greenlets.  The queue holds those with a step to   *)
(* make in this round, then those that have made it, with A between the two *)
(* as long as it has not ended: it is the first to make each step.          *)
Live == {c \in Coros : steps[c] <= suspends[c]}
InRound(queue, made) ==
  /\ IsInjective(queue)
  /\ \A i, j \in DOMAIN queue : i <= j =>
       made[queue[i]] <= made[queue[j]] /\ made[queue[j]] <= made[queue[i]] + 1
  /\ \A i, j \in DOMAIN queue : queue[i] = Rotator =>
       made[queue[j]] = IF j < i THEN made[Rotator] - 1 ELSE made[Rotator]
RoundInv == kind = "greenlets" =>
  /\ pc = [c \in Coros |-> "new"]
  /\ InRound(ready, steps)
  /\ Range(ready) = IF raised THEN {} ELSE Live
  /\ raised => Live = {Rotator}

(* Nobody is ahead, and A has had company at its last suspension, or was    *)
(* alone before the step that has raised.                                   *)
AheadInv == kind = "greenlets" =>
  /\ \A c \in Live, d \in Coros : steps[d] <= steps[c] + 1
  /\ Rotator \in Live => \A d \in Coros \ {Rotator} :
       steps[d] <= IF raised THEN steps[Rotator] - 1 ELSE steps[Rotator]
  /\ ~raised => \E d \in Coros \ {Rotator} :
       steps[Rotator] <= suspends[d] + 1 \/ suspends[Rotator] <= suspends[d] + 1

(* The fallback: where each token and each message is.  A coroutine has     *)
(* taken a token for each step but its first two; there is one token for    *)
(* each coroutine the first loop has passed, and one message taken back.    *)
Passed(i) == main.does \in {"join", "done"} \/ i < main.at
Now(i, what) == main.does = what /\ i = main.at
Taken(c) == IF pc[c] \in {"new", "run"} THEN steps[c] ELSE steps[c] - 1
ThreadAt(i) == LET c == Order[i] IN
  /\ pc[c] = "new" <=> ~(Passed(i) \/ Now(i, "put") \/ Now(i, "get"))
  /\ pc[c] = "new" => steps[c] = 0
  /\ pc[c] = "suspended" => steps[c] > 0
  /\ steps[c] > suspends[c] <=> pc[c] \in {"returned", "ended"}
  /\ Taken(c) + resume_q[c] = IF Passed(i) \/ Now(i, "get") THEN 1 ELSE 0
  /\ sched_q[c] + (IF Passed(i) THEN 1 ELSE 0) = steps[c] + (IF pc[c] = "ended" THEN 1 ELSE 0)
  /\ main.does = "done" \/ (main.does = "join" /\ i < main.at) => pc[c] = "ended"
ThreadInv == kind = "threads" => \A i \in 1..Count : ThreadAt(i)

SchedInv == SchedTypeOK /\ RoundInv /\ AheadInv /\ ThreadInv
================================================================================
