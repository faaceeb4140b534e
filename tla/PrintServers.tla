------------------------------ MODULE PrintServers ------------------------------
(****************************************************************************)
(* The print servers of actor/ in ten languages: a mailbox, an actor that   *)
(* takes one message after the other, and clients that tell, ask, stop.     *)
(* The loops are alike; what differs from one language to the next is how   *)
(* the server is stopped and who waits for what, and that is the record of  *)
(* the language.  One of the servers runs.                                  *)
(*                                                                          *)
(* Printing takes time: a server is busy between taking a job and printing  *)
(* it, and its clients go on.                                               *)
(****************************************************************************)
EXTENDS Integers, Sequences, FiniteSets

CONSTANTS Clients,
          Kinds,     (* the languages to choose from                        *)
          Program,   (* Program[k][c]: the calls client c makes             *)
          MaxCalls   (* bound: calls of a client                            *)

Calls == {"tell", "ask", "stop", "status", "step"}

(* Status requests are Scala's and single steps Lua's.  The programs of Go  *)
(* and Lua have one client; that of Go closes the input when it has no more *)
(* jobs, for to send one after it would panic.                              *)
ASSUME PrintersAssumption ==
  /\ Kinds \subseteq {"python", "cpp", "java", "scala", "haskell", "erlang", "go",
                      "kotlin", "lua", "javascript"}
  /\ MaxCalls \in Nat
  /\ Program \in [Kinds -> [Clients -> Seq(Calls)]]
  /\ \A k \in Kinds : \A c \in Clients :
       /\ Len(Program[k][c]) <= MaxCalls
       /\ \A i \in 1..Len(Program[k][c]) :
            /\ Program[k][c][i] = "status" => k = "scala"
            /\ Program[k][c][i] = "step" => k = "lua"
            /\ Program[k][c][i] = "stop" /\ k = "go" => i = Len(Program[k][c])
       /\ k \in {"go", "lua"} =>
            \A d \in Clients \ {c} : Len(Program[k][c]) = 0 \/ Len(Program[k][d]) = 0

--------------------------------------------------------------------------------
(* shutdown: a message behind the others, the end of the input, or a flag   *)
(*   that the loop looks at between two jobs;                               *)
(* stop: the call waits for the end, waits for a while, or returns;         *)
(* ask: the caller waits for ever, or for some seconds;                     *)
(* runs: on a thread, when a client resumes it, or as timer callbacks;      *)
(* slots: messages the mailbox holds, 0 for any number.                     *)
Python == [shutdown |-> "message", stop |-> "waits", ask |-> "waits", runs |-> "thread", slots |-> 0]
Cpp == [shutdown |-> "message", stop |-> "waits", ask |-> "waits", runs |-> "thread", slots |-> 0]
Java == [shutdown |-> "message", stop |-> "a_while", ask |-> "a_while", runs |-> "thread", slots |-> 0]
Scala == [shutdown |-> "message", stop |-> "returns", ask |-> "waits", runs |-> "thread", slots |-> 0]
Haskell == [shutdown |-> "message", stop |-> "returns", ask |-> "waits", runs |-> "thread", slots |-> 1]
Erlang == [shutdown |-> "message", stop |-> "waits", ask |-> "a_while", runs |-> "thread", slots |-> 0]
Go == [shutdown |-> "end", stop |-> "waits", ask |-> "waits", runs |-> "thread", slots |-> 100]
Kotlin == [shutdown |-> "flag", stop |-> "waits", ask |-> "waits", runs |-> "thread", slots |-> 0]
Lua == [shutdown |-> "flag", stop |-> "returns", ask |-> "waits", runs |-> "resumed", slots |-> 0]
JavaScript == [shutdown |-> "flag", stop |-> "returns", ask |-> "waits", runs |-> "timers", slots |-> 0]

Traits == [python |-> Python, cpp |-> Cpp, java |-> Java, scala |-> Scala, haskell |-> Haskell,
           erlang |-> Erlang, go |-> Go, kotlin |-> Kotlin, lua |-> Lua, javascript |-> JavaScript]

VARIABLES
  kind,      (* the language                                                *)
  at,        (* calls of each client that have returned                     *)
  doing,     (* "run"; "asking", "stopping": inside such a call             *)
  mailbox,
  server,    (* "loop": at its head; "receiving": suspended in the receive  *)
             (* of Kotlin; "busy": printing; "ended"                        *)
  current,   (* the job being printed                                       *)
  running,   (* the flag of Kotlin, Lua and JavaScript; the input of Go     *)
  counter,
  printed,   (* jobs, in the order of their printing                        *)
  accepted,  (* history: jobs put into the mailbox                          *)
  answers,   (* history: what each ask got                                  *)
  stopAt,    (* history: jobs accepted before the first stop, or NotYet     *)
  responses  (* what the monitor of Scala has been told: a count, and       *)
             (* (history) the jobs accepted before the request              *)

clients == <<at, doing, answers>>
vars == <<kind, clients, mailbox, server, current, running, counter, printed, accepted,
          stopAt, responses>>

NotYet == -1
Is == Traits[kind]
Job == Clients \X (1..MaxCalls)
(* before (history): the jobs accepted before the message was put.          *)
Message == [type : {"tell", "ask", "stop", "status"}, job : Job, before : Nat]
ThisMessage(c, type) == [type |-> type, job |-> <<c, at[c] + 1>>, before |-> Len(accepted)]

TypeOK ==
  /\ kind \in Kinds
  /\ at \in [Clients -> Nat] /\ doing \in [Clients -> {"run", "asking", "stopping"}]
  /\ mailbox \in Seq(Message)
  /\ server \in {"loop", "receiving", "busy", "ended"}
  /\ server = "busy" => current \in Message
  /\ running \in BOOLEAN /\ counter \in Nat
  /\ printed \in Seq(Job) /\ accepted \in Seq(Job)
  /\ \A a \in answers : a \in [ask : Job, reply : Job]
  /\ stopAt \in Nat \cup {NotYet} /\ responses \in Seq([count : Nat, due : Nat])

Init == /\ kind \in Kinds
        /\ at = [c \in Clients |-> 0] /\ doing = [c \in Clients |-> "run"] /\ answers = {}
        /\ mailbox = <<>> /\ server = "loop" /\ current = <<>> /\ running = TRUE
        /\ counter = 0 /\ printed = <<>> /\ accepted = <<>>
        /\ stopAt = NotYet /\ responses = <<>>

--------------------------------------------------------------------------------
(* The clients.                                                             *)
ThisJob(c) == <<c, at[c] + 1>>
Makes(c, call) == /\ doing[c] = "run" /\ at[c] < Len(Program[kind][c])
                  /\ Program[kind][c][at[c] + 1] = call
Returns(c) == /\ at' = [at EXCEPT ![c] = @ + 1]
              /\ doing' = [doing EXCEPT ![c] = "run"]
Enters(c, place) == doing' = [doing EXCEPT ![c] = place] /\ UNCHANGED at

(* putMVar and the buffered channel wait for room.                          *)
HasRoom == Is.slots = 0 \/ Len(mailbox) < Is.slots
PutFirst(m) == mailbox' = <<m>> \o mailbox
Put(m) == mailbox' = Append(mailbox, m)

(* After stop the channel of Kotlin is closed, JavaScript has no listener.  *)
Refuses == kind \in {"kotlin", "javascript"} /\ ~running

(* A job into the mailbox; Kotlin's suspended receive gets it at once, and  *)
(* the listener of JavaScript counts it before its timer is set.            *)
Post(m) == /\ HasRoom
           /\ IF Refuses THEN UNCHANGED <<mailbox, server, current, counter, accepted>>
              ELSE /\ accepted' = Append(accepted, m.job)
                   /\ IF server = "receiving"
                      THEN server' = "busy" /\ current' = m /\ UNCHANGED mailbox
                      ELSE Put(m) /\ UNCHANGED <<server, current>>
                   /\ counter' = IF Is.runs = "timers" THEN counter + 1 ELSE counter
           /\ UNCHANGED <<kind, running, printed, stopAt, responses, answers>>

Tell(c) == /\ Makes(c, "tell")
           /\ Post(ThisMessage(c, "tell"))
           /\ Returns(c)

Ask(c) == /\ Makes(c, "ask")
          /\ Post(ThisMessage(c, "ask"))
          /\ Enters(c, "asking")

(* future.get(5, SECONDS); gen_server:call, which also notices that the     *)
(* server has gone.                                                         *)
AskGivesUp(c) == /\ doing[c] = "asking" /\ Is.ask = "a_while"
                 /\ Returns(c)
                 /\ UNCHANGED <<kind, mailbox, server, current, running, counter, printed,
                                accepted, stopAt, answers, responses>>

(* server ! StatusRequest(monitor)                                          *)
Status(c) == /\ Makes(c, "status")
             /\ Put(ThisMessage(c, "status"))
             /\ Returns(c)
             /\ UNCHANGED <<kind, server, current, running, counter, printed, accepted,
                            answers, stopAt, responses>>

Note == stopAt' = IF stopAt = NotYet THEN Len(accepted) ELSE stopAt
DoesNotWait == Is.stop = "returns"
Stop(c) == /\ Makes(c, "stop")
           /\ IF Is.shutdown = "message"
              THEN /\ HasRoom /\ Put(ThisMessage(c, "stop"))
                   /\ UNCHANGED running
              ELSE running' = FALSE /\ UNCHANGED mailbox
           /\ server' = IF Is.runs = "resumed" THEN "ended" ELSE server
           /\ IF DoesNotWait THEN Returns(c) ELSE Enters(c, "stopping")
           /\ Note
           /\ UNCHANGED <<kind, current, counter, printed, accepted, answers, responses>>

(* The thread is joined; awaitTermination waits one second at most.         *)
StopReturns(c) == /\ doing[c] = "stopping"
                  /\ server = "ended" \/ Is.stop = "a_while"
                  /\ Returns(c)
                  /\ UNCHANGED <<kind, mailbox, server, current, running, counter, printed,
                                 accepted, stopAt, answers, responses>>

--------------------------------------------------------------------------------
(* The server.                                                              *)

(* The reply goes to the queue, callback, future, MVar or channel that came *)
(* with the job: it is lost if that call has been given up.                 *)
AnswerAnyAsk(m) == LET c == m.job[1] IN
  IF m.type = "ask" /\ doing[c] = "asking"
  THEN answers' = answers \cup {[ask |-> ThisJob(c), reply |-> m.job]} /\ Returns(c)
  ELSE UNCHANGED clients
Answer(m) == LET c == m.job[1] IN
  IF m.type = "ask" /\ doing[c] = "asking" /\ ThisJob(c) = m.job
  THEN answers' = answers \cup {[ask |-> ThisJob(c), reply |-> m.job]} /\ Returns(c)
  ELSE UNCHANGED clients


(* The head of the loop.                                                    *)
TakeCopy == current' = Head(mailbox) /\ mailbox' = mailbox
TakeLast == /\ current' = mailbox[Len(mailbox)]
            /\ mailbox' = SubSeq(mailbox, 1, Len(mailbox) - 1)
Take == current' = Head(mailbox) /\ mailbox' = Tail(mailbox)
PendingOffByOne == Len(mailbox) > 1
Pending == mailbox # <<>>
Loop ==
  /\ server = "loop" /\ Is.runs = "thread" /\ Is.shutdown # "flag"
  /\ Pending
  /\ Take
  /\ server' = IF current'.type = "stop" THEN "ended"
               ELSE IF current'.type = "status" THEN "loop" ELSE "busy"
  /\ responses' = IF current'.type = "status" 
                  THEN Append(responses, [count |-> counter, due |-> current'.before])
                  ELSE responses
  /\ UNCHANGED <<kind, clients, running, counter, printed, accepted, stopAt>>

(* for msg := range inbox                                                   *)
InputEnds == /\ Is.shutdown = "end" /\ server = "loop" /\ ~running /\ mailbox = <<>>
             /\ server' = "ended"
             /\ UNCHANGED <<kind, clients, mailbox, current, running, counter, printed,
                            accepted, stopAt, responses>>

(* while (running), then receiveCatching, which suspends only when the      *)
(* channel is open and empty.                                               *)
Process ==
  /\ server \in {"loop", "receiving"} /\ Is.runs = "thread" /\ Is.shutdown = "flag"
  /\ IF ~running THEN server' = "ended" /\ UNCHANGED <<mailbox, current>>
     ELSE IF mailbox = <<>> THEN server' = "receiving" /\ UNCHANGED <<mailbox, current>>
     ELSE server' = "busy" /\ Take
  /\ UNCHANGED <<kind, clients, running, counter, printed, accepted, stopAt, responses>>

PrintJob(m) == /\ printed' = Append(printed, m.job)
               /\ Answer(m)

Finish == /\ server = "busy"
          /\ PrintJob(current)
          /\ counter' = counter + 1
          /\ server' = "loop"
          /\ UNCHANGED <<kind, mailbox, current, running, accepted, stopAt, responses>>

(* coroutine.resume: from one yield to the next.                            *)
Resume == /\ Is.runs = "resumed" /\ server = "loop" /\ mailbox # <<>>
          /\ Take
          /\ PrintJob(Head(mailbox))
          /\ counter' = counter + 1
          /\ UNCHANGED <<kind, server, running, accepted, stopAt, responses>>

(* ask resumes the actor until it has its answer, step resumes it once.     *)
AskResumes(c) == doing[c] = "asking" /\ Resume
Step(c) == /\ Makes(c, "step")
           /\ IF server = "loop" /\ mailbox # <<>>
              THEN /\ Take
                   /\ printed' = Append(printed, Head(mailbox).job)
                   /\ counter' = counter + 1
              ELSE UNCHANGED <<mailbox, current, printed, counter>>
           /\ Returns(c)
           /\ UNCHANGED <<kind, server, running, accepted, stopAt, answers, responses>>

(* The timers of JavaScript are all as long: they fire in order, and they   *)
(* fire after stop too.                                                     *)
TimerFires == /\ Is.runs = "timers" /\ mailbox # <<>>
              /\ Take
              /\ PrintJob(Head(mailbox))
              /\ UNCHANGED <<kind, server, running, counter, accepted, stopAt, responses>>

ClientStep(c) == \/ Tell(c) \/ Ask(c) \/ AskGivesUp(c) \/ Status(c) \/ Stop(c)
                 \/ StopReturns(c) \/ AskResumes(c) \/ Step(c)
ServerStep == Loop \/ InputEnds \/ Process \/ Finish \/ TimerFires

Next == (\E c \in Clients : ClientStep(c)) \/ ServerStep

Spec == Init /\ [][Next]_vars

(* Server and clients are scheduled, timeouts end.                          *)
FairSpec == Spec /\ WF_vars(ServerStep) /\ \A c \in Clients : WF_vars(ClientStep(c))

--------------------------------------------------------------------------------
(* Jobs are printed in the order of their acceptance, once, and none after  *)
(* the end, in each language.                                               *)
Queue == INSTANCE PrintQueue WITH Jobs <- Job, ended <- server = "ended"
IsPrintQueue == Queue!Spec

(* What is accepted is printed, being printed, or in the mailbox, in this   *)
(* order and only there.                                                    *)
IsJob(m) == m.type \in {"tell", "ask"}
AcceptedAs(m) == m.before < Len(accepted) /\ accepted[m.before + 1] = m.job
Taken == Len(printed) + IF server = "busy" THEN 1 ELSE 0
PrintedInOrder == /\ Len(printed) <= Len(accepted)
                  /\ \A i \in 1..Len(printed) : printed[i] = accepted[i]
CurrentIsNext == server = "busy" =>
  IsJob(current) /\ current.before = Len(printed) /\ AcceptedAs(current)
MailboxInOrder ==
  /\ \A i \in 1..Len(mailbox) : mailbox[i].before \in Taken..Len(accepted)
  /\ \A i \in 1..Len(mailbox) : IsJob(mailbox[i]) => AcceptedAs(mailbox[i])
  /\ \A j \in 1..Len(mailbox) : \A i \in 1..(j - 1) :
       /\ mailbox[i].before <= mailbox[j].before
       /\ IsJob(mailbox[i]) => mailbox[i].before < mailbox[j].before
AllInMailbox == \A n \in Taken..(Len(accepted) - 1) :
  \E i \in 1..Len(mailbox) : IsJob(mailbox[i]) /\ mailbox[i].before = n
NoJobLost == PrintedInOrder /\ CurrentIsNext /\ MailboxInOrder /\ AllInMailbox

(* A client that is not between two calls is inside the next one of its     *)
(* program; a job carries the number of the call that sent it, and that     *)
(* call has returned or is an ask that waits.                               *)
Sent(j) == \/ j[2] <= at[j[1]]
           \/ j[2] = at[j[1]] + 1 /\ doing[j[1]] = "asking"
TypeOfCall(m) == IsJob(m) => m.type = Program[kind][m.job[1]][m.job[2]]
CallInv ==
  /\ \A c \in Clients :
       /\ at[c] <= Len(Program[kind][c])
       /\ doing[c] = "asking" => at[c] < Len(Program[kind][c]) /\ Program[kind][c][at[c] + 1] = "ask"
       /\ doing[c] = "stopping" => at[c] < Len(Program[kind][c]) /\ Program[kind][c][at[c] + 1] = "stop"
  /\ \A i \in 1..Len(accepted) : Sent(accepted[i])
  /\ \A i \in 1..Len(mailbox) : TypeOfCall(mailbox[i])
  /\ server = "busy" => TypeOfCall(current)

(* Who prints when, and what the counters count.                            *)
ServerInv ==
  /\ server = "busy" => Is.runs = "thread"
  /\ server = "receiving" => kind = "kotlin" /\ mailbox = <<>>
  /\ server = "ended" => Is.runs # "timers"
  /\ Is.shutdown # "message" => \A i \in 1..Len(mailbox) : IsJob(mailbox[i])
  /\ counter = Len(IF Is.runs = "timers" THEN accepted ELSE printed)

(* A stop in the mailbox has the jobs behind it that came behind it; when   *)
(* Go's input is closed its client has nothing more to say.                 *)
StopInv ==
  /\ Is.shutdown = "message" =>
       /\ \A i \in 1..Len(mailbox) : mailbox[i].type = "stop" =>
            stopAt # NotYet /\ stopAt <= mailbox[i].before
       /\ stopAt # NotYet /\ server # "ended" => \E i \in 1..Len(mailbox) :
            mailbox[i].type = "stop" /\ mailbox[i].before = stopAt
  /\ Is.shutdown = "end" /\ running => stopAt = NotYet
  /\ Is.shutdown = "end" /\ ~running =>
       /\ stopAt = Len(accepted)
       /\ \A c \in Clients : doing[c] = "stopping" \/ at[c] = Len(Program[kind][c])

IInv == TypeOK /\ NoJobLost /\ CallInv /\ ServerInv /\ StopInv

(* A shutdown that travels with the jobs ("a sentinel message",             *)
(* print_server.py line 8) takes effect exactly at its place: all jobs      *)
(* before the first one are printed and none of those behind it.            *)
StopInItsPlace == server = "ended" /\ Is.shutdown # "flag" => Len(printed) = stopAt

(* Who asks gets the answer to what he asked, and gets it: an ask is        *)
(* answered with its own job, although a job may be printed after the call  *)
(* that sent it has timed out and the client has asked again; a job that is *)
(* printed leaves nobody waiting for it (who hangs in ask has asked behind  *)
(* the stop); a status response counts the jobs sent before the request.    *)
OwnAnswer == \A a \in answers : a.ask = a.reply /\ \E i \in DOMAIN printed : printed[i] = a.ask
NobodyForgotten == \A i \in DOMAIN printed : LET c == printed[i][1] IN
  ~(doing[c] = "asking" /\ ThisJob(c) = printed[i])
StatusCounts == \A i \in 1..Len(responses) : responses[i].count = responses[i].due
RightAnswers == OwnAnswer /\ NobodyForgotten /\ StatusCounts

(* Every accepted job is printed, unless the server ends first (in Lua,     *)
(* while somebody asks: only then is the actor resumed until it answers).   *)
EveryJobPrinted == \A n \in 1..(MaxCalls * Cardinality(Clients)) :
  Len(accepted) >= n ~> \/ Len(printed) >= n \/ server = "ended"
                         \/ (Is.runs = "resumed" /\ \A c \in Clients : doing[c] # "asking")
================================================================================
