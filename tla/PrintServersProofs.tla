---------------------------- MODULE PrintServersProofs --------------------------
(****************************************************************************)
(* The print servers for any clients and programs, in the ten languages:    *)
(* jobs in order and none lost, shutdown at its place, answers to who asked *)
(* for them, and that each server is the PrintQueue.                        *)
(****************************************************************************)
EXTENDS PrintServers, TLAPS

(* What the proofs need to know of the languages.                           *)
LEMMA Languages ==
  ASSUME kind \in Kinds
  PROVE  /\ Is.runs \in {"thread", "resumed", "timers"}
         /\ Is.shutdown \in {"message", "end", "flag"}
         /\ Is.runs = "resumed" <=> kind = "lua"
         /\ Is.runs = "timers" <=> kind = "javascript"
         /\ Is.shutdown = "end" <=> kind = "go"
         /\ Is.shutdown = "flag" <=> kind \in {"kotlin", "lua", "javascript"}
<1> DEFINE Facts == /\ Is.runs \in {"thread", "resumed", "timers"}
                    /\ Is.shutdown \in {"message", "end", "flag"}
                    /\ Is.runs = "resumed" <=> kind = "lua"
                    /\ Is.runs = "timers" <=> kind = "javascript"
                    /\ Is.shutdown = "end" <=> kind = "go"
                    /\ Is.shutdown = "flag" <=> kind \in {"kotlin", "lua", "javascript"}
<1>1. CASE kind = "python"
  BY <1>1 DEF Is, Traits, Python
<1>2. CASE kind = "cpp"
  BY <1>2 DEF Is, Traits, Cpp
<1>3. CASE kind = "java"
  BY <1>3 DEF Is, Traits, Java
<1>4. CASE kind = "scala"
  BY <1>4 DEF Is, Traits, Scala
<1>5. CASE kind = "haskell"
  BY <1>5 DEF Is, Traits, Haskell
<1>6. CASE kind = "erlang"
  BY <1>6 DEF Is, Traits, Erlang
<1>7. CASE kind = "go"
  BY <1>7 DEF Is, Traits, Go
<1>8. CASE kind = "kotlin"
  BY <1>8 DEF Is, Traits, Kotlin
<1>9. CASE kind = "lua"
  BY <1>9 DEF Is, Traits, Lua
<1>10. CASE kind = "javascript"
  BY <1>10 DEF Is, Traits, JavaScript
<1> QED BY PrintersAssumption, <1>1, <1>2, <1>3, <1>4, <1>5, <1>6, <1>7, <1>8, <1>9, <1>10

LEMMA Appended ==
  ASSUME NEW S, NEW q \in Seq(S), NEW e \in S
  PROVE  /\ Append(q, e) \in Seq(S) /\ Len(Append(q, e)) = Len(q) + 1
         /\ \A i \in 1..Len(q) : Append(q, e)[i] = q[i]
         /\ Append(q, e)[Len(q) + 1] = e
OBVIOUS

LEMMA Beheaded ==
  ASSUME NEW S, NEW q \in Seq(S), q # <<>>
  PROVE  /\ Tail(q) \in Seq(S) /\ Len(Tail(q)) = Len(q) - 1 /\ Len(q) > 0
         /\ \A i \in 1..(Len(q) - 1) : Tail(q)[i] = q[i + 1]
         /\ Head(q) = q[1] /\ Head(q) \in S
OBVIOUS

LEMMA Element ==
  ASSUME NEW S, NEW q \in Seq(S), NEW i \in 1..Len(q)
  PROVE  q[i] \in S
OBVIOUS

Typed == /\ mailbox \in Seq(Message) /\ accepted \in Seq(Job) /\ printed \in Seq(Job)
         /\ Len(mailbox) \in Nat /\ Len(accepted) \in Nat /\ Len(printed) \in Nat
         /\ \A i \in 1..Len(mailbox) : mailbox[i].before \in Nat /\ mailbox[i].job \in Job

LEMMA Types == TypeOK => Typed
<1> SUFFICES ASSUME TypeOK PROVE Typed
  OBVIOUS
<1>1. mailbox \in Seq(Message) /\ accepted \in Seq(Job) /\ printed \in Seq(Job)
  BY DEF TypeOK
<1>2. \A i \in 1..Len(mailbox) : mailbox[i] \in Message
  BY <1>1, Element
<1>3. \A m \in Message : m.before \in Nat /\ m.job \in Job
  BY DEF Message
<1>4. Len(mailbox) \in Nat /\ Len(accepted) \in Nat /\ Len(printed) \in Nat
  BY <1>1
<1> QED BY <1>1, <1>2, <1>3, <1>4 DEF Typed

--------------------------------------------------------------------------------
(* The bookkeeping of jobs, one lemma for each way to move one.             *)
Busy == server = "busy"

(* At its head the mailbox has the next job, or nothing older than it.      *)
LEMMA HeadIsNext ==
  ASSUME Typed, NoJobLost, ~Busy, mailbox # <<>>
  PROVE  mailbox[1].before = Len(printed)
<1>1. Len(mailbox) \in Nat /\ Len(mailbox) > 0 /\ Taken = Len(printed) /\ 1 \in 1..Len(mailbox)
  BY Beheaded DEF Typed, Taken, Busy
<1>2. /\ mailbox[1].before \in Taken..Len(accepted)
      /\ IsJob(mailbox[1]) => mailbox[1].before < Len(accepted)
  BY <1>1 DEF NoJobLost, MailboxInOrder, AcceptedAs, IsJob
<1>3. CASE Len(printed) = Len(accepted)
  BY <1>1, <1>2, <1>3 DEF Typed
<1>4. CASE Len(printed) < Len(accepted)
  <2>1. Len(printed) \in Taken..(Len(accepted) - 1)
    BY <1>1, <1>4 DEF Typed
  <2>2. PICK i \in 1..Len(mailbox) : IsJob(mailbox[i]) /\ mailbox[i].before = Len(printed)
    BY <2>1 DEF NoJobLost, AllInMailbox
  <2>3. CASE i > 1
    <3>1. mailbox[1].before <= mailbox[i].before
      <4>1. 1 \in 1..(i - 1)
        BY <2>3
      <4> QED BY <4>1 DEF NoJobLost, MailboxInOrder
    <3> QED BY <1>1, <1>2, <2>2, <3>1 DEF Typed
  <2> QED BY <1>1, <2>2, <2>3
<1> QED BY <1>3, <1>4 DEF NoJobLost, PrintedInOrder, Typed

(* A message is put behind the others.                                      *)
LEMMA MessagePut ==
  ASSUME Typed, NoJobLost, NEW m \in Message, m.before = Len(accepted), m.job \in Job,
         mailbox' = Append(mailbox, m),
         IsJob(m) => accepted' = Append(accepted, m.job), ~IsJob(m) => accepted' = accepted,
         UNCHANGED <<printed, server, current>>
  PROVE  NoJobLost'
<1>1. /\ Len(mailbox') = Len(mailbox) + 1 /\ mailbox'[Len(mailbox) + 1] = m
      /\ \A i \in 1..Len(mailbox) : mailbox'[i] = mailbox[i]
  BY Appended DEF Typed
<1>2. /\ Len(accepted') \in Nat /\ Len(accepted') >= Len(accepted)
      /\ IsJob(m) => Len(accepted') = Len(accepted) + 1 /\ accepted'[Len(accepted) + 1] = m.job
      /\ ~IsJob(m) => Len(accepted') = Len(accepted)
      /\ \A i \in 1..Len(accepted) : accepted'[i] = accepted[i]
  <2>1. CASE IsJob(m)
    <3>1. accepted' = Append(accepted, m.job)
      BY <2>1
    <3> QED BY <2>1, <3>1, Appended DEF Typed
  <2>2. CASE ~IsJob(m)
    BY <2>2 DEF Typed
  <2> QED BY <2>1, <2>2
<1>3. Taken' = Taken /\ Taken \in Nat
  BY DEF Taken, Typed
<1>4. PrintedInOrder'
  BY <1>2 DEF NoJobLost, PrintedInOrder, Typed
<1>5. CurrentIsNext'
  <2> SUFFICES ASSUME server = "busy"
               PROVE  /\ IsJob(current) /\ current.before = Len(printed)
                      /\ current.before < Len(accepted')
                      /\ accepted'[current.before + 1] = current.job
    BY DEF CurrentIsNext, AcceptedAs, IsJob
  <2>1. /\ IsJob(current) /\ current.before = Len(printed) /\ current.before < Len(accepted)
        /\ accepted[current.before + 1] = current.job
    BY DEF NoJobLost, CurrentIsNext, AcceptedAs
  <2>2. Len(printed) \in Nat /\ Len(accepted) \in Nat
    BY DEF Typed
  <2>3. current.before + 1 \in 1..Len(accepted)
    BY <2>1, <2>2
  <2> QED BY <1>2, <2>1, <2>2, <2>3
<1>6. Taken <= Len(accepted)
  BY DEF Taken, NoJobLost, PrintedInOrder, CurrentIsNext, AcceptedAs, Typed
<1>7. MailboxInOrder'
  <2>1. \A i \in 1..Len(mailbox') : /\ mailbox'[i].before \in Taken'..Len(accepted')
                                    /\ IsJob(mailbox'[i]) => AcceptedAs(mailbox[i])'
    <3> SUFFICES ASSUME NEW i \in 1..Len(mailbox')
                 PROVE  /\ mailbox'[i].before \in Taken'..Len(accepted')
                        /\ IsJob(mailbox'[i]) => AcceptedAs(mailbox[i])'
      OBVIOUS
    <3>1. CASE i = Len(mailbox) + 1
      BY <1>1, <1>2, <1>3, <1>6, <3>1 DEF AcceptedAs, IsJob, Typed
    <3>2. CASE i \in 1..Len(mailbox)
      <4>1. /\ mailbox[i].before \in Taken..Len(accepted) /\ mailbox[i].before \in Nat
            /\ IsJob(mailbox[i]) => AcceptedAs(mailbox[i])
        BY <3>2 DEF NoJobLost, MailboxInOrder, Typed, IsJob
      <4>2. mailbox'[i] = mailbox[i]
        BY <1>1, <3>2
      <4>3. mailbox'[i].before \in Taken'..Len(accepted')
        BY <1>2, <1>3, <4>1, <4>2 DEF Typed
      <4>4. IsJob(mailbox[i]) => mailbox[i].before + 1 \in 1..Len(accepted)
        <5>1. IsJob(mailbox[i]) => mailbox[i].before < Len(accepted)
          BY <4>1 DEF AcceptedAs
        <5>2. Len(accepted) \in Nat
          BY DEF Typed
        <5> QED BY <4>1, <5>1, <5>2
      <4>5. IsJob(mailbox[i]) => AcceptedAs(mailbox[i])'
        <5> SUFFICES ASSUME IsJob(mailbox[i]) PROVE AcceptedAs(mailbox[i])'
          OBVIOUS
        <5>1. accepted'[mailbox[i].before + 1] = accepted[mailbox[i].before + 1]
          BY <1>2, <4>4
        <5>2. accepted'[mailbox'[i].before + 1] = mailbox'[i].job
          BY <4>1, <4>2, <5>1 DEF AcceptedAs
        <5>3. mailbox'[i].before < Len(accepted')
          BY <1>2, <4>1, <4>2 DEF AcceptedAs, Typed
        <5> QED BY <5>2, <5>3 DEF AcceptedAs
      <4> QED BY <4>2, <4>3, <4>5 DEF IsJob
    <3> QED BY <1>1, <3>1, <3>2 DEF Typed
  <2>2. \A j \in 1..Len(mailbox') : \A i \in 1..(j - 1) :
          /\ mailbox'[i].before <= mailbox'[j].before
          /\ IsJob(mailbox'[i]) => mailbox'[i].before < mailbox'[j].before
    <3> SUFFICES ASSUME NEW j \in 1..Len(mailbox'), NEW i \in 1..(j - 1)
                 PROVE  /\ mailbox'[i].before <= mailbox'[j].before
                        /\ IsJob(mailbox'[i]) => mailbox'[i].before < mailbox'[j].before
      OBVIOUS
    <3>1. i \in 1..Len(mailbox) /\ mailbox'[i] = mailbox[i] /\ mailbox[i].before \in Nat
      BY <1>1 DEF Typed
    <3>2. CASE j = Len(mailbox) + 1
      <4>1. /\ mailbox[i].before \in Taken..Len(accepted)
            /\ IsJob(mailbox[i]) => mailbox[i].before < Len(accepted)
        BY <3>1 DEF NoJobLost, MailboxInOrder, AcceptedAs, IsJob
      <4>2. mailbox'[j] = m
        BY <1>1, <3>2
      <4> QED BY <3>1, <4>1, <4>2 DEF Typed, IsJob
    <3>3. CASE j \in 1..Len(mailbox)
      <4>1. /\ mailbox[i].before <= mailbox[j].before
            /\ IsJob(mailbox[i]) => mailbox[i].before < mailbox[j].before
        BY <3>3 DEF NoJobLost, MailboxInOrder, IsJob
      <4>2. mailbox'[j] = mailbox[j] /\ mailbox[j].before \in Nat
        BY <1>1, <3>3 DEF Typed
      <4>3. /\ mailbox'[i].before = mailbox[i].before /\ mailbox'[j].before = mailbox[j].before
            /\ IsJob(mailbox'[i]) <=> IsJob(mailbox[i])
        BY <3>1, <4>2 DEF IsJob
      <4> QED BY <4>1, <4>3
    <3> QED BY <1>1, <3>2, <3>3 DEF Typed, IsJob
  <2> QED BY <2>1, <2>2 DEF MailboxInOrder, IsJob, AcceptedAs
<1>8. AllInMailbox'
  <2> SUFFICES ASSUME NEW n \in Taken'..(Len(accepted') - 1)
               PROVE  \E i \in 1..Len(mailbox') : IsJob(mailbox'[i]) /\ mailbox'[i].before = n
    BY DEF AllInMailbox, IsJob
  <2>1. CASE n = Len(accepted)
    <3>1. Len(mailbox) + 1 \in 1..Len(mailbox')
      BY <1>1 DEF Typed
    <3>2. IsJob(m)
      BY <1>2, <2>1 DEF Typed
    <3> QED BY <1>1, <2>1, <3>1, <3>2
  <2>2. CASE n \in Taken..(Len(accepted) - 1)
    <3>1. PICK i \in 1..Len(mailbox) : IsJob(mailbox[i]) /\ mailbox[i].before = n
      BY <2>2 DEF NoJobLost, AllInMailbox
    <3> QED BY <1>1, <3>1 DEF Typed, IsJob
  <2> QED BY <1>2, <1>3, <2>1, <2>2 DEF Typed
<1> QED BY <1>4, <1>5, <1>7, <1>8 DEF NoJobLost

(* Nothing is put and nothing taken.                                        *)
LEMMA NothingMoved ==
  ASSUME NoJobLost, UNCHANGED <<mailbox, accepted, printed>>, Busy' = Busy, Busy => UNCHANGED current
  PROVE  NoJobLost'
<1>1. Taken' = Taken
  BY DEF Taken, Busy
<1>2. PrintedInOrder'
  BY DEF NoJobLost, PrintedInOrder
<1>3. CurrentIsNext'
  BY DEF NoJobLost, CurrentIsNext, Busy, AcceptedAs, IsJob
<1>4. MailboxInOrder'
  BY <1>1 DEF NoJobLost, MailboxInOrder, AcceptedAs, IsJob
<1>5. AllInMailbox'
  BY <1>1 DEF NoJobLost, AllInMailbox, IsJob
<1> QED BY <1>2, <1>3, <1>4, <1>5 DEF NoJobLost

(* Kotlin's suspended receive gets the job without the mailbox.             *)
LEMMA HandedOver ==
  ASSUME Typed, NoJobLost, mailbox = <<>>, ~Busy, Busy', IsJob(current'),
         current'.before = Len(accepted), accepted' = Append(accepted, current'.job),
         current'.job \in Job, UNCHANGED <<printed, mailbox>>
  PROVE  NoJobLost'
<1>1. Len(printed) = Len(accepted)
  <2>1. Taken = Len(printed) /\ Len(mailbox) = 0
    BY DEF Taken, Busy
  <2>2. Len(printed) \in Nat /\ Len(accepted) \in Nat /\ Len(printed) <= Len(accepted)
    BY DEF NoJobLost, PrintedInOrder, Typed
  <2>3. Taken \notin Taken..(Len(accepted) - 1)
    BY <2>1 DEF NoJobLost, AllInMailbox
  <2> QED BY <2>1, <2>2, <2>3
<1>2. /\ Len(accepted') = Len(accepted) + 1 /\ accepted'[Len(accepted) + 1] = current'.job
      /\ \A i \in 1..Len(accepted) : accepted'[i] = accepted[i]
  BY Appended DEF Typed
<1>3. Taken' = Len(accepted')
  BY <1>1, <1>2 DEF Taken, Busy
<1>4. PrintedInOrder'
  BY <1>1, <1>2 DEF NoJobLost, PrintedInOrder, Typed
<1>5. CurrentIsNext'
  BY <1>1, <1>2 DEF CurrentIsNext, AcceptedAs, IsJob, Typed
<1>6. MailboxInOrder' /\ AllInMailbox'
  BY <1>2, <1>3 DEF MailboxInOrder, AllInMailbox, Typed
<1> QED BY <1>4, <1>5, <1>6 DEF NoJobLost

(* The job that was being printed has been.                                 *)
LEMMA Finished ==
  ASSUME Typed, NoJobLost, Busy, ~Busy', printed' = Append(printed, current.job),
         current.job \in Job, UNCHANGED <<mailbox, accepted>>
  PROVE  NoJobLost'
<1>1. /\ Len(printed') = Len(printed) + 1 /\ printed'[Len(printed) + 1] = current.job
      /\ \A i \in 1..Len(printed) : printed'[i] = printed[i]
  BY Appended DEF Typed
<1>2. Taken' = Taken
  BY <1>1 DEF Taken, Busy
<1>3. /\ current.before = Len(printed) /\ Len(printed) < Len(accepted)
      /\ accepted[Len(printed) + 1] = current.job
  BY DEF NoJobLost, CurrentIsNext, AcceptedAs, Busy
<1>4. PrintedInOrder'
  BY <1>1, <1>3 DEF NoJobLost, PrintedInOrder, Typed
<1>5. CurrentIsNext'
  BY DEF CurrentIsNext, Busy
<1>6. MailboxInOrder'
  BY <1>2 DEF NoJobLost, MailboxInOrder, AcceptedAs, IsJob
<1>7. AllInMailbox'
  BY <1>2 DEF NoJobLost, AllInMailbox, IsJob
<1> QED BY <1>4, <1>5, <1>6, <1>7 DEF NoJobLost

(* What remains when the head is taken.                                     *)
LEMMA TailInOrder ==
  ASSUME Typed, NoJobLost, ~Busy, mailbox # <<>>, mailbox' = Tail(mailbox), UNCHANGED accepted,
         IsJob(mailbox[1]) => Taken' = Len(printed) + 1, ~IsJob(mailbox[1]) => Taken' = Len(printed)
  PROVE  /\ MailboxInOrder' /\ AllInMailbox'
         /\ IsJob(mailbox[1]) =>
              mailbox[1].before < Len(accepted) /\ accepted[Len(printed) + 1] = mailbox[1].job
<1>1. /\ Len(mailbox) > 0 /\ Len(mailbox') = Len(mailbox) - 1 /\ 1 \in 1..Len(mailbox)
      /\ \A i \in 1..Len(mailbox') : mailbox'[i] = mailbox[i + 1]
  BY Beheaded DEF Typed
<1>2. mailbox[1].before = Len(printed) /\ Taken = Len(printed)
  BY HeadIsNext DEF Taken, Busy
<1>3. /\ IsJob(mailbox[1]) => AcceptedAs(mailbox[1])
  BY <1>1 DEF NoJobLost, MailboxInOrder, IsJob
<1>4. \A i \in 1..Len(mailbox') :
        /\ mailbox'[i].before \in Taken'..Len(accepted')
        /\ IsJob(mailbox'[i]) => AcceptedAs(mailbox[i])'
  <2> SUFFICES ASSUME NEW i \in 1..Len(mailbox')
               PROVE  /\ mailbox'[i].before \in Taken'..Len(accepted')
                      /\ IsJob(mailbox'[i]) => AcceptedAs(mailbox[i])'
    OBVIOUS
  <2>1. i + 1 \in 1..Len(mailbox) /\ mailbox'[i] = mailbox[i + 1] /\ 1 \in 1..i
    BY <1>1 DEF Typed
  <2>2. /\ mailbox[i + 1].before \in Taken..Len(accepted)
        /\ IsJob(mailbox[i + 1]) => AcceptedAs(mailbox[i + 1])
    BY <2>1 DEF NoJobLost, MailboxInOrder, IsJob
  <2>3. IsJob(mailbox[1]) => mailbox[1].before < mailbox[i + 1].before
    <3>1. 1 \in 1..((i + 1) - 1)
      BY <2>1
    <3> QED BY <2>1, <3>1 DEF NoJobLost, MailboxInOrder, IsJob
  <2>4. mailbox'[i].before \in Taken'..Len(accepted')
    BY <1>2, <2>1, <2>2, <2>3 DEF Typed
  <2>5. IsJob(mailbox'[i]) => AcceptedAs(mailbox[i])'
    BY <2>1, <2>2 DEF AcceptedAs, IsJob
  <2> QED BY <2>4, <2>5
<1>5. \A j \in 1..Len(mailbox') : \A i \in 1..(j - 1) :
        /\ mailbox'[i].before <= mailbox'[j].before
        /\ IsJob(mailbox'[i]) => mailbox'[i].before < mailbox'[j].before
  <2> SUFFICES ASSUME NEW j \in 1..Len(mailbox'), NEW i \in 1..(j - 1)
               PROVE  /\ mailbox'[i].before <= mailbox'[j].before
                      /\ IsJob(mailbox'[i]) => mailbox'[i].before < mailbox'[j].before
    OBVIOUS
  <2>1. /\ j + 1 \in 1..Len(mailbox) /\ i + 1 \in 1..((j + 1) - 1)
        /\ mailbox'[i] = mailbox[i + 1] /\ mailbox'[j] = mailbox[j + 1]
    BY <1>1 DEF Typed
  <2>2. /\ mailbox[i + 1].before <= mailbox[j + 1].before
        /\ IsJob(mailbox[i + 1]) => mailbox[i + 1].before < mailbox[j + 1].before
    BY <2>1 DEF NoJobLost, MailboxInOrder, IsJob
  <2> QED BY <2>1, <2>2 DEF IsJob
<1>6. AllInMailbox'
  <2> SUFFICES ASSUME NEW n \in Taken'..(Len(accepted') - 1)
               PROVE  \E i \in 1..Len(mailbox') : IsJob(mailbox'[i]) /\ mailbox'[i].before = n
    BY DEF AllInMailbox, IsJob
  <2>1. n \in Taken..(Len(accepted) - 1) /\ (IsJob(mailbox[1]) => n # mailbox[1].before)
    BY <1>2 DEF Typed
  <2>2. PICK i \in 1..Len(mailbox) : IsJob(mailbox[i]) /\ mailbox[i].before = n
    BY <2>1 DEF NoJobLost, AllInMailbox
  <2>3. i # 1
    BY <2>1, <2>2 DEF IsJob
  <2>4. i - 1 \in 1..Len(mailbox') /\ mailbox'[i - 1] = mailbox[i]
    BY <1>1, <2>3 DEF Typed
  <2> QED BY <2>2, <2>4 DEF IsJob
<1>7. IsJob(mailbox[1]) =>
        mailbox[1].before < Len(accepted) /\ accepted[Len(printed) + 1] = mailbox[1].job
  BY <1>2, <1>3 DEF AcceptedAs, IsJob
<1> QED BY <1>4, <1>5, <1>6, <1>7 DEF MailboxInOrder, AcceptedAs, IsJob

(* A job is taken, to be printed.                                           *)
LEMMA JobTaken ==
  ASSUME Typed, NoJobLost, ~Busy, Busy', mailbox # <<>>, IsJob(mailbox[1]),
         mailbox' = Tail(mailbox), current' = mailbox[1], UNCHANGED <<accepted, printed>>
  PROVE  NoJobLost'
<1>1. Taken' = Len(printed) + 1
  BY DEF Taken, Busy
<1>2. /\ MailboxInOrder' /\ AllInMailbox'
      /\ mailbox[1].before < Len(accepted) /\ accepted[Len(printed) + 1] = mailbox[1].job
  BY <1>1, TailInOrder
<1>3. CurrentIsNext'
  BY <1>2, HeadIsNext DEF CurrentIsNext, AcceptedAs, IsJob
<1> QED BY <1>2, <1>3 DEF NoJobLost, PrintedInOrder

(* Another message is taken.                                                *)
LEMMA OtherTaken ==
  ASSUME Typed, NoJobLost, ~Busy, ~Busy', mailbox # <<>>, ~IsJob(mailbox[1]),
         mailbox' = Tail(mailbox), UNCHANGED <<accepted, printed>>
  PROVE  NoJobLost'
<1>1. Taken' = Len(printed)
  BY DEF Taken, Busy
<1>2. MailboxInOrder' /\ AllInMailbox'
  BY <1>1, TailInOrder
<1>3. CurrentIsNext'
  BY DEF CurrentIsNext, Busy
<1> QED BY <1>2, <1>3 DEF NoJobLost, PrintedInOrder

(* A job is taken and printed.                                              *)
LEMMA JobPrinted ==
  ASSUME Typed, NoJobLost, ~Busy, ~Busy', mailbox # <<>>, IsJob(mailbox[1]),
         mailbox' = Tail(mailbox), printed' = Append(printed, mailbox[1].job), UNCHANGED accepted
  PROVE  NoJobLost'
<1>1. mailbox[1].job \in Job
  BY Beheaded DEF Typed
<1>2. /\ Len(printed') = Len(printed) + 1 /\ printed'[Len(printed) + 1] = mailbox[1].job
      /\ \A i \in 1..Len(printed) : printed'[i] = printed[i]
  BY <1>1, Appended DEF Typed
<1>3. Taken' = Len(printed) + 1
  BY <1>2 DEF Taken, Busy
<1>4. /\ MailboxInOrder' /\ AllInMailbox'
      /\ mailbox[1].before < Len(accepted) /\ accepted[Len(printed) + 1] = mailbox[1].job
  BY <1>3, TailInOrder
<1>5. Len(printed) < Len(accepted)
  BY <1>4, HeadIsNext
<1>6. PrintedInOrder'
  BY <1>2, <1>4, <1>5 DEF NoJobLost, PrintedInOrder, Typed
<1>7. CurrentIsNext'
  BY DEF CurrentIsNext, Busy
<1> QED BY <1>4, <1>6, <1>7 DEF NoJobLost

--------------------------------------------------------------------------------
(* Types.                                                                   *)
LEMMA Programs ==
  ASSUME kind \in Kinds, NEW c \in Clients
  PROVE  /\ Len(Program[kind][c]) \in Nat /\ Len(Program[kind][c]) <= MaxCalls /\ MaxCalls \in Nat
         /\ \A i \in 1..Len(Program[kind][c]) :
              /\ Program[kind][c][i] = "status" => kind = "scala"
              /\ Program[kind][c][i] = "step" => kind = "lua"
              /\ Program[kind][c][i] = "stop" /\ kind = "go" => i = Len(Program[kind][c])
         /\ kind \in {"go", "lua"} => \A d \in Clients \ {c} :
              Len(Program[kind][c]) = 0 \/ Len(Program[kind][d]) = 0
<1>1. Program[kind][c] \in Seq(Calls)
  BY PrintersAssumption
<1> QED BY <1>1, PrintersAssumption

LEMMA ThisIsAMessage ==
  ASSUME TypeOK, NEW c \in Clients, at[c] < Len(Program[kind][c]),
         NEW type \in {"tell", "ask", "stop", "status"}
  PROVE  /\ ThisMessage(c, type) \in Message
         /\ ThisMessage(c, type).type = type /\ ThisMessage(c, type).job = ThisJob(c)
         /\ ThisMessage(c, type).before = Len(accepted)
         /\ ThisJob(c) \in Job /\ ThisJob(c)[1] = c /\ ThisJob(c)[2] = at[c] + 1
<1>1. at[c] \in Nat /\ Len(accepted) \in Nat /\ kind \in Kinds
  BY DEF TypeOK
<1>2. at[c] + 1 \in 1..MaxCalls
  BY <1>1, Programs
<1>3. ThisJob(c) \in Job /\ ThisJob(c)[1] = c /\ ThisJob(c)[2] = at[c] + 1
  BY <1>2 DEF ThisJob, Job
<1> QED BY <1>1, <1>3 DEF ThisMessage, Message, ThisJob

ClientsTyped == /\ at \in [Clients -> Nat] /\ doing \in [Clients -> {"run", "asking", "stopping"}]
                /\ \A a \in answers : a \in [ask : Job, reply : Job]

LEMMA Returning ==
  ASSUME ClientsTyped, NEW c \in Clients, Returns(c)
  PROVE  /\ at' \in [Clients -> Nat] /\ doing' \in [Clients -> {"run", "asking", "stopping"}]
         /\ at'[c] = at[c] + 1 /\ doing'[c] = "run"
         /\ \A d \in Clients \ {c} : at'[d] = at[d] /\ doing'[d] = doing[d]
BY DEF ClientsTyped, Returns

LEMMA Entering ==
  ASSUME ClientsTyped, NEW c \in Clients, NEW place \in {"asking", "stopping"}, Enters(c, place)
  PROVE  /\ at' \in [Clients -> Nat] /\ doing' \in [Clients -> {"run", "asking", "stopping"}]
         /\ at' = at /\ doing'[c] = place
         /\ \A d \in Clients \ {c} : doing'[d] = doing[d]
BY DEF ClientsTyped, Enters

LEMMA Answering ==
  ASSUME ClientsTyped, NEW m \in Message, Answer(m)
  PROVE  /\ ClientsTyped'
         /\ \/ UNCHANGED clients
            \/ /\ m.type = "ask" /\ m.job \in Job /\ m.job[1] \in Clients
               /\ doing[m.job[1]] = "asking" /\ ThisJob(m.job[1]) = m.job
               /\ Returns(m.job[1]) /\ answers' = answers \cup {[ask |-> m.job, reply |-> m.job]}
<1>1. m.job \in Job /\ m.job[1] \in Clients
  BY DEF Message, Job
<1>2. CASE m.type = "ask" /\ doing[m.job[1]] = "asking" /\ ThisJob(m.job[1]) = m.job
  <2>1. Returns(m.job[1]) /\ answers' = answers \cup {[ask |-> m.job, reply |-> m.job]}
    BY <1>2 DEF Answer
  <2>2. ClientsTyped'
    BY <1>1, <2>1, Returning DEF ClientsTyped
  <2> QED BY <1>1, <1>2, <2>1, <2>2
<1>3. CASE ~(m.type = "ask" /\ doing[m.job[1]] = "asking" /\ ThisJob(m.job[1]) = m.job)
  BY <1>3 DEF Answer, clients, ClientsTyped
<1> QED BY <1>2, <1>3

ServerTyped == /\ mailbox \in Seq(Message) /\ server \in {"loop", "receiving", "busy", "ended"}
               /\ Busy => current \in Message
               /\ printed \in Seq(Job) /\ accepted \in Seq(Job) /\ counter \in Nat
RestTyped == /\ running \in BOOLEAN
             /\ stopAt \in Nat \cup {NotYet} /\ responses \in Seq([count : Nat, due : Nat])

LEMMA TypeParts == TypeOK <=> kind \in Kinds /\ ClientsTyped /\ ServerTyped /\ RestTyped
BY DEF TypeOK, ClientsTyped, ServerTyped, RestTyped, Busy

LEMMA Taking ==
  ASSUME ServerTyped, Take, mailbox # <<>>
  PROVE  /\ mailbox' \in Seq(Message) /\ mailbox' = Tail(mailbox)
         /\ current' \in Message /\ current' = mailbox[1] /\ current' = Head(mailbox)
         /\ Len(mailbox) \in Nat /\ Len(mailbox) > 0 /\ Len(mailbox') = Len(mailbox) - 1
         /\ \A i \in 1..Len(mailbox') : mailbox'[i] = mailbox[i + 1]
BY Beheaded DEF ServerTyped, Take

LEMMA PostType ==
  ASSUME ServerTyped, NEW m \in Message, Post(m)
  PROVE  ServerTyped'
<1>1. m.job \in Job
  BY DEF Message
<1>2. Append(accepted, m.job) \in Seq(Job) /\ Append(mailbox, m) \in Seq(Message)
  BY <1>1, Appended DEF ServerTyped
<1>3. CASE Refuses
  BY <1>3 DEF Post, ServerTyped, Busy
<1>4. CASE ~Refuses /\ server = "receiving"
  <2>1. accepted' = Append(accepted, m.job) /\ server' = "busy" /\ current' = m
        /\ UNCHANGED <<mailbox, printed>>
    BY <1>4 DEF Post
  <2>2. counter' \in Nat
    BY <1>4 DEF Post, ServerTyped
  <2> QED BY <1>2, <2>1, <2>2 DEF ServerTyped, Busy
<1>5. CASE ~Refuses /\ server # "receiving"
  <2>1. accepted' = Append(accepted, m.job) /\ mailbox' = Append(mailbox, m)
        /\ UNCHANGED <<server, current, printed>>
    BY <1>5 DEF Post, Put
  <2>2. counter' \in Nat
    BY <1>5 DEF Post, ServerTyped
  <2> QED BY <1>2, <2>1, <2>2 DEF ServerTyped, Busy
<1> QED BY <1>3, <1>4, <1>5

LEMMA PrintType ==
  ASSUME ServerTyped, NEW m \in Message
  PROVE  Append(printed, m.job) \in Seq(Job)
<1>1. m.job \in Job
  BY DEF Message
<1> QED BY <1>1, Appended DEF ServerTyped

LEMMA TypeNext == TypeOK /\ [Next]_vars => TypeOK'
<1> SUFFICES ASSUME TypeOK, [Next]_vars PROVE TypeOK'
  OBVIOUS
<1>a. kind \in Kinds /\ ClientsTyped /\ ServerTyped /\ RestTyped
  BY TypeParts
<1>b. kind' \in Kinds /\ ClientsTyped' /\ ServerTyped' /\ RestTyped' => TypeOK'
  BY DEF TypeOK, ClientsTyped, ServerTyped, RestTyped, Busy
<1> USE <1>a, <1>b
<1>1. ASSUME NEW c \in Clients, Tell(c) PROVE TypeOK'
  <2>1. ThisMessage(c, "tell") \in Message
    BY <1>1, ThisIsAMessage DEF Tell, Makes
  <2>2. ServerTyped' /\ ClientsTyped' /\ UNCHANGED <<kind, running, stopAt, responses>>
    BY <1>1, <2>1, PostType, Returning DEF Tell, Post, ClientsTyped
  <2> QED BY <2>2 DEF RestTyped
<1>2. ASSUME NEW c \in Clients, Ask(c) PROVE TypeOK'
  <2>1. ThisMessage(c, "ask") \in Message
    BY <1>2, ThisIsAMessage DEF Ask, Makes
  <2>2. ServerTyped' /\ ClientsTyped' /\ UNCHANGED <<kind, running, stopAt, responses>>
    BY <1>2, <2>1, PostType, Entering DEF Ask, Post, ClientsTyped
  <2> QED BY <2>2 DEF RestTyped
<1>3. ASSUME NEW c \in Clients, AskGivesUp(c) \/ StopReturns(c) PROVE TypeOK'
  BY <1>3, Returning DEF AskGivesUp, StopReturns, ClientsTyped, ServerTyped, RestTyped, Busy
<1>4. ASSUME NEW c \in Clients, Status(c) PROVE TypeOK'
  <2>1. ThisMessage(c, "status") \in Message
    BY <1>4, ThisIsAMessage DEF Status, Makes
  <2>2. mailbox' \in Seq(Message)
    BY <1>4, <2>1, Appended DEF Status, Put, ServerTyped
  <2> QED BY <1>4, <2>2, Returning DEF Status, ClientsTyped, ServerTyped, RestTyped, Busy
<1>5. ASSUME NEW c \in Clients, Stop(c) PROVE TypeOK'
  <2>1. ThisMessage(c, "stop") \in Message
    BY <1>5, ThisIsAMessage DEF Stop, Makes
  <2>2. mailbox' \in Seq(Message)
    <3>1. mailbox' = Append(mailbox, ThisMessage(c, "stop")) \/ mailbox' = mailbox
      BY <1>5 DEF Stop, Put
    <3>2. mailbox \in Seq(Message)
      BY DEF ServerTyped
    <3> QED BY <2>1, <3>1, <3>2, Appended
  <2>3. ClientsTyped'
    BY <1>5, Returning, Entering DEF Stop, ClientsTyped
  <2>4. ServerTyped'
    BY <1>5, <2>2 DEF Stop, ServerTyped, Busy
  <2>5. RestTyped'
    <3>1. Len(accepted) \in Nat
      BY DEF ServerTyped
    <3>2. stopAt' \in Nat \cup {NotYet}
      BY <1>5, <3>1 DEF Stop, Note, RestTyped
    <3>3. running' \in BOOLEAN /\ responses' = responses
      BY <1>5 DEF Stop, RestTyped
    <3> QED BY <3>2, <3>3 DEF RestTyped
  <2> QED BY <1>5, <2>3, <2>4, <2>5 DEF Stop
<1>6. ASSUME Resume \/ TimerFires PROVE TypeOK'
  <2>1. mailbox # <<>> /\ Take /\ PrintJob(Head(mailbox))
    BY <1>6 DEF Resume, TimerFires
  <2>2. Head(mailbox) \in Message
    BY <2>1, Taking
  <2>3. ClientsTyped'
    BY <2>1, <2>2, Answering DEF PrintJob
  <2>4. mailbox' \in Seq(Message) /\ current' \in Message /\ printed' \in Seq(Job)
    BY <2>1, <2>2, Taking, PrintType DEF PrintJob
  <2>5. ServerTyped'
    BY <1>6, <2>4 DEF Resume, TimerFires, ServerTyped, Busy
  <2> QED BY <1>6, <2>3, <2>5 DEF Resume, TimerFires, RestTyped
<1>7. ASSUME NEW c \in Clients, Step(c) PROVE TypeOK'
  <2>1. ClientsTyped'
    BY <1>7, Returning DEF Step, ClientsTyped
  <2>2. CASE server = "loop" /\ mailbox # <<>>
    <3>1. mailbox' \in Seq(Message) /\ current' \in Message /\ printed' \in Seq(Job)
      BY <1>7, <2>2, Taking, PrintType DEF Step
    <3> QED BY <1>7, <2>1, <2>2, <3>1 DEF Step, ServerTyped, RestTyped, Busy
  <2>3. CASE ~(server = "loop" /\ mailbox # <<>>)
    BY <1>7, <2>1, <2>3 DEF Step, ServerTyped, RestTyped, Busy
  <2> QED BY <2>2, <2>3
<1>8. ASSUME Loop PROVE TypeOK'
  <2>1. mailbox # <<>> /\ Take
    BY <1>8 DEF Loop, Pending
  <2>2. mailbox' \in Seq(Message) /\ current' \in Message
    BY <2>1, Taking
  <2>3. ServerTyped'
    BY <1>8, <2>2 DEF Loop, ServerTyped, Busy
  <2>4. ClientsTyped' /\ kind' \in Kinds
    BY <1>8 DEF Loop, clients, ClientsTyped
  <2>5. responses' \in Seq([count : Nat, due : Nat])
    <3> DEFINE r == [count |-> counter, due |-> current'.before]
    <3>1. r \in [count : Nat, due : Nat]
      BY <2>2 DEF ServerTyped, Message
    <3>2. Append(responses, r) \in Seq([count : Nat, due : Nat])
      BY <3>1, Appended DEF RestTyped
    <3> QED BY <1>8, <3>2 DEF Loop, RestTyped
  <2>6. RestTyped'
    BY <1>8, <2>5 DEF Loop, RestTyped
  <2> QED BY <2>3, <2>4, <2>6
<1>9. ASSUME InputEnds PROVE TypeOK'
  BY <1>9 DEF InputEnds, clients, ClientsTyped, ServerTyped, RestTyped, Busy
<1>10. ASSUME Process PROVE TypeOK'
  <2>1. ServerTyped'
    <3>1. CASE server' = "busy" /\ Take /\ mailbox # <<>>
      BY <1>10, <3>1, Taking DEF Process, ServerTyped, Busy
    <3>2. CASE server' \in {"ended", "receiving"} /\ UNCHANGED <<mailbox, current>>
      BY <1>10, <3>2 DEF Process, ServerTyped, Busy
    <3> QED BY <1>10, <3>1, <3>2 DEF Process
  <2> QED BY <1>10, <2>1 DEF Process, clients, ClientsTyped, RestTyped
<1>11. ASSUME Finish PROVE TypeOK'
  <2>1. current \in Message /\ printed' = Append(printed, current.job) /\ Answer(current)
    BY <1>11 DEF Finish, PrintJob, ServerTyped, Busy
  <2>2. ClientsTyped' /\ printed' \in Seq(Job)
    BY <2>1, Answering, PrintType
  <2> QED BY <1>11, <2>2 DEF Finish, ServerTyped, RestTyped, Busy
<1>12. CASE UNCHANGED vars
  BY <1>12 DEF vars, clients, ClientsTyped, ServerTyped, RestTyped, Busy
<1> QED BY <1>1, <1>2, <1>3, <1>4, <1>5, <1>6, <1>7, <1>8, <1>9, <1>10, <1>11, <1>12
        DEF Next, ClientStep, ServerStep, AskResumes

--------------------------------------------------------------------------------
(* No job is lost.                                                          *)
LEMMA PostKeepsJobs ==
  ASSUME TypeOK, NoJobLost, ServerInv, NEW c \in Clients, NEW type \in {"tell", "ask"},
         at[c] < Len(Program[kind][c]), Post(ThisMessage(c, type))
  PROVE  NoJobLost'
<1> DEFINE m == ThisMessage(c, type)
<1>1. /\ m \in Message /\ m.type = type /\ m.job = ThisJob(c) /\ m.before = Len(accepted)
      /\ m.job \in Job
  BY ThisIsAMessage
<1> HIDE DEF m
<1>2. Typed /\ IsJob(m) /\ Post(m)
  BY <1>1, Types DEF IsJob, m
<1>3. CASE Refuses
  BY <1>2, <1>3, NothingMoved DEF Post, Busy
<1>4. CASE ~Refuses /\ server = "receiving"
  <2>1. mailbox = <<>>
    BY <1>4 DEF ServerInv
  <2>2. /\ Busy' /\ ~Busy /\ current' = m /\ accepted' = Append(accepted, m.job)
        /\ UNCHANGED <<printed, mailbox>>
    BY <1>2, <1>4 DEF Post, Busy
  <2>3. IsJob(current') /\ current'.before = Len(accepted) /\ current'.job \in Job
        /\ accepted' = Append(accepted, current'.job)
    BY <1>1, <1>2, <2>2 DEF IsJob
  <2> QED BY <1>2, <2>1, <2>2, <2>3, HandedOver
<1>5. CASE ~Refuses /\ server # "receiving"
  <2>1. /\ mailbox' = Append(mailbox, m) /\ accepted' = Append(accepted, m.job)
        /\ UNCHANGED <<printed, server, current>>
    BY <1>2, <1>5 DEF Post, Put
  <2> QED BY <1>1, <1>2, <2>1, MessagePut
<1> QED BY <1>3, <1>4, <1>5

LEMMA HeadPrinted ==
  ASSUME TypeOK, NoJobLost, ServerInv, Is.shutdown = "flag", Is.runs # "thread", mailbox # <<>>, Take,
         printed' = Append(printed, Head(mailbox).job), UNCHANGED <<server, accepted>>
  PROVE  /\ NoJobLost' /\ IsJob(mailbox[1]) /\ mailbox[1] \in Message /\ Head(mailbox) = mailbox[1]
         /\ mailbox[1].before = Len(printed) /\ Len(printed) < Len(accepted)
<1>1. Typed
  BY Types
<1>2. /\ mailbox' = Tail(mailbox) /\ Head(mailbox) = mailbox[1] /\ mailbox[1] \in Message
      /\ Len(mailbox) > 0 /\ Len(mailbox) \in Nat
  BY Taking, TypeParts
<1>3. ~Busy /\ ~Busy'
  BY DEF ServerInv, Busy
<1>4. IsJob(mailbox[1])
  <2>1. 1 \in 1..Len(mailbox)
    BY <1>2
  <2> QED BY <2>1 DEF ServerInv, IsJob
<1>5. mailbox[1].before = Len(printed)
  BY <1>1, <1>3, HeadIsNext
<1>6. mailbox[1].before < Len(accepted)
  <2>1. 1 \in 1..Len(mailbox)
    BY <1>2
  <2> QED BY <1>4, <2>1 DEF NoJobLost, MailboxInOrder, AcceptedAs, IsJob
<1>7. NoJobLost'
  BY <1>1, <1>2, <1>3, <1>4, JobPrinted
<1> QED BY <1>2, <1>4, <1>5, <1>6, <1>7

LEMMA StepOfLua ==
  ASSUME TypeOK, NEW c \in Clients, Step(c)
  PROVE  /\ Is.shutdown = "flag" /\ Is.runs = "resumed" /\ kind = "lua"
         /\ at[c] < Len(Program[kind][c]) /\ at[c] \in Nat
<1>1. kind \in Kinds /\ at[c] \in Nat
  BY DEF TypeOK
<1>2. at[c] < Len(Program[kind][c]) /\ Program[kind][c][at[c] + 1] = "step"
  BY DEF Step, Makes
<1>3. at[c] + 1 \in 1..Len(Program[kind][c])
  BY <1>1, <1>2, Programs
<1>4. kind = "lua"
  BY <1>1, <1>2, <1>3, Programs
<1> QED BY <1>1, <1>2, <1>4, Languages

LEMMA NoJobLostNext == TypeOK /\ NoJobLost /\ ServerInv /\ [Next]_vars => NoJobLost'
<1> SUFFICES ASSUME TypeOK, NoJobLost, ServerInv, [Next]_vars PROVE NoJobLost'
  OBVIOUS
<1>0. Typed /\ kind \in Kinds
  BY Types DEF TypeOK
<1>1. ASSUME NEW c \in Clients, Tell(c) PROVE NoJobLost'
  BY <1>1, PostKeepsJobs DEF Tell, Makes
<1>2. ASSUME NEW c \in Clients, Ask(c) PROVE NoJobLost'
  BY <1>2, PostKeepsJobs DEF Ask, Makes
<1>3. ASSUME NEW c \in Clients, AskGivesUp(c) \/ StopReturns(c) PROVE NoJobLost'
  BY <1>3, NothingMoved DEF AskGivesUp, StopReturns, Busy
<1>4. ASSUME NEW c \in Clients, Status(c) PROVE NoJobLost'
  <2> DEFINE m == ThisMessage(c, "status")
  <2>1. m \in Message /\ m.before = Len(accepted) /\ m.type = "status" /\ m.job = ThisJob(c) /\ m.job \in Job
    BY <1>4, ThisIsAMessage DEF Status, Makes
  <2>2. mailbox' = Append(mailbox, m) /\ UNCHANGED <<printed, server, current, accepted>>
    BY <1>4 DEF Status, Put
  <2> HIDE DEF m
  <2>3. ~IsJob(m)
    BY <2>1 DEF IsJob
  <2> QED BY <1>0, <2>1, <2>2, <2>3, MessagePut
<1>5. ASSUME NEW c \in Clients, Stop(c) PROVE NoJobLost'
  <2>1. CASE Is.shutdown = "message"
    <3> DEFINE m == ThisMessage(c, "stop")
    <3>1. m \in Message /\ m.before = Len(accepted) /\ m.type = "stop" /\ m.job = ThisJob(c) /\ m.job \in Job
      BY <1>5, ThisIsAMessage DEF Stop, Makes
    <3>2. mailbox' = Append(mailbox, m) /\ UNCHANGED <<printed, server, current, accepted>>
      BY <1>0, <1>5, <2>1, Languages DEF Stop, Put
    <3> HIDE DEF m
    <3>3. ~IsJob(m)
      BY <3>1 DEF IsJob
    <3> QED BY <1>0, <3>1, <3>2, <3>3, MessagePut
  <2>2. CASE Is.shutdown # "message"
    <3>1. UNCHANGED <<mailbox, accepted, printed, current>> /\ Busy' = Busy
      BY <1>5, <2>2 DEF Stop, Busy, ServerInv
    <3> QED BY <3>1, NothingMoved
  <2> QED BY <2>1, <2>2
<1>6. ASSUME Resume \/ TimerFires PROVE NoJobLost'
  BY <1>0, <1>6, Languages, HeadPrinted DEF Resume, TimerFires, PrintJob
<1>7. ASSUME NEW c \in Clients, Step(c) PROVE NoJobLost'
  <2>1. Is.shutdown = "flag" /\ Is.runs = "resumed"
    BY <1>7, StepOfLua
  <2>2. CASE server = "loop" /\ mailbox # <<>>
    BY <1>7, <2>1, <2>2, HeadPrinted DEF Step
  <2>3. CASE ~(server = "loop" /\ mailbox # <<>>)
    BY <1>7, <2>3, NothingMoved DEF Step, Busy
  <2> QED BY <2>2, <2>3
<1>8. ASSUME Loop PROVE NoJobLost'
  <2>1. /\ mailbox # <<>> /\ Take /\ ~Busy /\ UNCHANGED <<accepted, printed>>
        /\ Busy' <=> current'.type \notin {"stop", "status"}
    BY <1>8 DEF Loop, Pending, Busy
  <2>2. current' = mailbox[1] /\ mailbox' = Tail(mailbox) /\ mailbox[1] \in Message
    BY <2>1, Taking, TypeParts
  <2>3. IsJob(mailbox[1]) <=> Busy'
    BY <2>1, <2>2 DEF IsJob, Message
  <2> QED BY <1>0, <2>1, <2>2, <2>3, JobTaken, OtherTaken
<1>9. ASSUME InputEnds PROVE NoJobLost'
  BY <1>9, NothingMoved DEF InputEnds, Busy
<1>10. ASSUME Process PROVE NoJobLost'
  <2>1. CASE server' = "busy" /\ Take /\ mailbox # <<>>
    <3>1. /\ current' = mailbox[1] /\ mailbox' = Tail(mailbox) /\ ~Busy /\ Busy'
          /\ UNCHANGED <<accepted, printed>> /\ Len(mailbox) \in Nat /\ Len(mailbox) > 0
      BY <1>10, <2>1, Taking, TypeParts DEF Process, Busy
    <3>2. IsJob(mailbox[1])
      <4>1. 1 \in 1..Len(mailbox) /\ Is.shutdown # "message"
        BY <1>10, <3>1 DEF Process
      <4> QED BY <4>1 DEF ServerInv, IsJob
    <3> QED BY <1>0, <2>1, <3>1, <3>2, JobTaken
  <2>2. CASE server' \in {"ended", "receiving"} /\ UNCHANGED <<mailbox, current>>
    BY <1>10, <2>2, NothingMoved DEF Process, Busy
  <2> QED BY <1>10, <2>1, <2>2 DEF Process
<1>11. ASSUME Finish PROVE NoJobLost'
  <2>1. /\ Busy /\ ~Busy' /\ printed' = Append(printed, current.job) /\ current \in Message
        /\ UNCHANGED <<mailbox, accepted>>
    BY <1>11, TypeParts DEF Finish, PrintJob, Busy, ServerTyped
  <2>2. current.job \in Job
    BY <2>1 DEF Message
  <2> QED BY <1>0, <2>1, <2>2, Finished
<1>12. CASE UNCHANGED vars
  BY <1>12, NothingMoved DEF vars, Busy
<1> QED BY <1>1, <1>2, <1>3, <1>4, <1>5, <1>6, <1>7, <1>8, <1>9, <1>10, <1>11, <1>12
        DEF Next, ClientStep, ServerStep, AskResumes

--------------------------------------------------------------------------------
(* The calls of the clients.                                                *)
InACall(c) ==
  /\ at[c] <= Len(Program[kind][c])
  /\ doing[c] = "asking" => at[c] < Len(Program[kind][c]) /\ Program[kind][c][at[c] + 1] = "ask"
  /\ doing[c] = "stopping" => at[c] < Len(Program[kind][c]) /\ Program[kind][c][at[c] + 1] = "stop"
AllInCalls == \A c \in Clients : InACall(c)
AcceptedSent == \A i \in 1..Len(accepted) : Sent(accepted[i])
MailboxCalls == \A i \in 1..Len(mailbox) : TypeOfCall(mailbox[i])
CurrentCall == Busy => TypeOfCall(current)

LEMMA CallParts == CallInv <=> AllInCalls /\ AcceptedSent /\ MailboxCalls /\ CurrentCall
BY DEF CallInv, AllInCalls, InACall, AcceptedSent, MailboxCalls, CurrentCall, Busy

(* What a client does leaves the others where they are.                     *)
LEMMA OneClientMoves ==
  ASSUME ClientsTyped, kind' = kind, kind \in Kinds, AllInCalls, NEW c \in Clients,
         \A d \in Clients \ {c} : at'[d] = at[d] /\ doing'[d] = doing[d],
         \/ at'[c] = at[c] + 1 /\ doing'[c] = "run" /\ at[c] < Len(Program[kind][c])
         \/ /\ at'[c] = at[c] /\ doing[c] = "run" /\ at[c] < Len(Program[kind][c])
            /\ \/ doing'[c] = "asking" /\ Program[kind][c][at[c] + 1] = "ask"
               \/ doing'[c] = "stopping" /\ Program[kind][c][at[c] + 1] = "stop"
  PROVE  AllInCalls' /\ \A j \in Job : Sent(j) => Sent(j)'
<1>1. AllInCalls'
  <2> SUFFICES ASSUME NEW d \in Clients PROVE InACall(d)'
    BY DEF AllInCalls
  <2>1. InACall(d) /\ at[d] \in Nat /\ Len(Program[kind][d]) \in Nat
    BY Programs DEF AllInCalls, ClientsTyped
  <2>2. CASE d = c
    BY <2>1, <2>2 DEF InACall
  <2>3. CASE d # c
    BY <2>1, <2>3 DEF InACall
  <2> QED BY <2>2, <2>3
<1>2. ASSUME NEW j \in Job, Sent(j) PROVE Sent(j)'
  <2>1. j[1] \in Clients /\ j[2] \in Nat
    BY DEF Job
  <2>2. at[j[1]] \in Nat
    BY <2>1 DEF ClientsTyped
  <2>3. CASE j[1] = c
    BY <1>2, <2>1, <2>2, <2>3 DEF Sent
  <2>4. CASE j[1] # c
    BY <1>2, <2>1, <2>2, <2>4 DEF Sent
  <2> QED BY <2>3, <2>4
<1> QED BY <1>1, <1>2

LEMMA NobodyMoves ==
  ASSUME UNCHANGED <<kind, at, doing>>, AllInCalls
  PROVE  AllInCalls' /\ \A j \in Job : Sent(j) => Sent(j)'
BY DEF AllInCalls, InACall, Sent

LEMMA AnswerMoves ==
  ASSUME ClientsTyped, kind' = kind, kind \in Kinds, AllInCalls, NEW m \in Message, Answer(m)
  PROVE  AllInCalls' /\ \A j \in Job : Sent(j) => Sent(j)'
<1>1. CASE UNCHANGED clients
  BY <1>1, NobodyMoves DEF clients
<1>2. CASE ~UNCHANGED clients
  <2> DEFINE c == m.job[1]
  <2>1. c \in Clients /\ doing[c] = "asking" /\ Returns(c)
    BY <1>2, Answering
  <2>2. at[c] < Len(Program[kind][c])
    BY <2>1 DEF AllInCalls, InACall
  <2> HIDE DEF c
  <2>3. /\ \A d \in Clients \ {c} : at'[d] = at[d] /\ doing'[d] = doing[d]
        /\ at'[c] = at[c] + 1 /\ doing'[c] = "run"
    BY <2>1, Returning
  <2> QED BY <2>1, <2>2, <2>3, OneClientMoves
<1> QED BY <1>1, <1>2

LEMMA ReturnMoves ==
  ASSUME ClientsTyped, kind' = kind, kind \in Kinds, AllInCalls, NEW c \in Clients, Returns(c),
         at[c] < Len(Program[kind][c])
  PROVE  AllInCalls' /\ \A j \in Job : Sent(j) => Sent(j)'
<1>1. /\ \A d \in Clients \ {c} : at'[d] = at[d] /\ doing'[d] = doing[d]
      /\ at'[c] = at[c] + 1 /\ doing'[c] = "run"
  BY Returning
<1> QED BY <1>1, OneClientMoves

LEMMA EnterMoves ==
  ASSUME ClientsTyped, kind' = kind, kind \in Kinds, AllInCalls, NEW c \in Clients,
         \/ Makes(c, "ask") /\ Enters(c, "asking")
         \/ Makes(c, "stop") /\ Enters(c, "stopping")
  PROVE  AllInCalls' /\ \A j \in Job : Sent(j) => Sent(j)'
<1>1. CASE Makes(c, "ask") /\ Enters(c, "asking")
  <2>1. /\ \A d \in Clients \ {c} : at'[d] = at[d] /\ doing'[d] = doing[d]
        /\ at'[c] = at[c] /\ doing'[c] = "asking"
    BY <1>1, Entering
  <2> QED BY <1>1, <2>1, OneClientMoves DEF Makes
<1>2. CASE Makes(c, "stop") /\ Enters(c, "stopping")
  <2>1. /\ \A d \in Clients \ {c} : at'[d] = at[d] /\ doing'[d] = doing[d]
        /\ at'[c] = at[c] /\ doing'[c] = "stopping"
    BY <1>2, Entering
  <2> QED BY <1>2, <2>1, OneClientMoves DEF Makes
<1> QED BY <1>1, <1>2

(* What is put is a call, what is taken has been put.                       *)
LEMMA MailboxOfCalls ==
  ASSUME ServerTyped, kind' = kind, MailboxCalls,
         \/ UNCHANGED mailbox
         \/ mailbox # <<>> /\ mailbox' = Tail(mailbox)
         \/ \E m \in Message : TypeOfCall(m) /\ mailbox' = Append(mailbox, m)
  PROVE  MailboxCalls'
<1>1. CASE UNCHANGED mailbox
  BY <1>1 DEF MailboxCalls, TypeOfCall, IsJob
<1>2. CASE mailbox # <<>> /\ mailbox' = Tail(mailbox)
  <2> SUFFICES ASSUME NEW i \in 1..Len(mailbox') PROVE TypeOfCall(mailbox[i])'
    BY DEF MailboxCalls
  <2>1. i + 1 \in 1..Len(mailbox) /\ mailbox'[i] = mailbox[i + 1]
    BY <1>2, Beheaded DEF ServerTyped
  <2> QED BY <2>1 DEF MailboxCalls, TypeOfCall, IsJob
<1>3. CASE \E m \in Message : TypeOfCall(m) /\ mailbox' = Append(mailbox, m)
  <2>1. PICK m \in Message : TypeOfCall(m) /\ mailbox' = Append(mailbox, m)
    BY <1>3
  <2> SUFFICES ASSUME NEW i \in 1..Len(mailbox') PROVE TypeOfCall(mailbox[i])'
    BY DEF MailboxCalls
  <2>2. /\ Len(mailbox) \in Nat /\ Len(mailbox') = Len(mailbox) + 1 /\ mailbox'[Len(mailbox) + 1] = m
        /\ \A k \in 1..Len(mailbox) : mailbox'[k] = mailbox[k]
    BY <2>1, Appended DEF ServerTyped
  <2>3. CASE i = Len(mailbox) + 1
    BY <2>1, <2>2, <2>3 DEF TypeOfCall, IsJob
  <2>4. CASE i \in 1..Len(mailbox)
    BY <2>2, <2>4 DEF MailboxCalls, TypeOfCall, IsJob
  <2> QED BY <2>2, <2>3, <2>4
<1> QED BY <1>1, <1>2, <1>3

LEMMA AcceptedOfCalls ==
  ASSUME ServerTyped, AcceptedSent, \A j \in Job : Sent(j) => Sent(j)',
         UNCHANGED accepted \/ \E j \in Job : Sent(j)' /\ accepted' = Append(accepted, j)
  PROVE  AcceptedSent'
<1> SUFFICES ASSUME NEW i \in 1..Len(accepted') PROVE Sent(accepted[i])'
  BY DEF AcceptedSent
<1>1. ASSUME NEW j \in Job, Sent(j)', accepted'[i] = j PROVE Sent(accepted[i])'
  BY <1>1 DEF Sent
<1>2. ASSUME i \in 1..Len(accepted), accepted'[i] = accepted[i] PROVE Sent(accepted[i])'
  <2>1. accepted[i] \in Job /\ Sent(accepted[i])
    BY <1>2, Element DEF ServerTyped, AcceptedSent
  <2>2. PICK j \in Job : j = accepted[i] /\ Sent(j)
    BY <2>1 DEF Sent
  <2>3. Sent(j)' /\ accepted'[i] = j
    BY <1>2, <2>2
  <2> QED BY <1>1, <2>3
<1>3. CASE UNCHANGED accepted
  BY <1>2, <1>3
<1>4. CASE \E j \in Job : Sent(j)' /\ accepted' = Append(accepted, j)
  <2>1. PICK j \in Job : Sent(j)' /\ accepted' = Append(accepted, j)
    BY <1>4
  <2>2. /\ Len(accepted) \in Nat /\ Len(accepted') = Len(accepted) + 1
        /\ accepted'[Len(accepted) + 1] = j
        /\ \A k \in 1..Len(accepted) : accepted'[k] = accepted[k]
    BY <2>1, Appended DEF ServerTyped
  <2>3. CASE i = Len(accepted) + 1
    BY <1>1, <2>1, <2>2, <2>3
  <2>4. CASE i \in 1..Len(accepted)
    BY <1>2, <2>2, <2>4
  <2> QED BY <2>2, <2>3, <2>4
<1> QED BY <1>3, <1>4

LEMMA PostOfCalls ==
  ASSUME TypeOK, CallInv, NEW c \in Clients, NEW type \in {"tell", "ask"}, Makes(c, type),
         Post(ThisMessage(c, type)), \A j \in Job : Sent(j) => Sent(j)',
         \A j \in Job : j[1] = c /\ j[2] = at[c] + 1 => Sent(j)'
  PROVE  AcceptedSent' /\ MailboxCalls' /\ CurrentCall'
<1>1. ServerTyped /\ AcceptedSent /\ MailboxCalls /\ CurrentCall
  BY TypeParts, CallParts
<1>2. PICK m \in Message : /\ m = ThisMessage(c, type) /\ m.type = type /\ m.job = ThisJob(c)
                           /\ m.job \in Job /\ m.job[1] = c /\ m.job[2] = at[c] + 1
  BY ThisIsAMessage DEF Makes
<1>3. Post(m) /\ TypeOfCall(m) /\ kind' = kind
  BY <1>2 DEF Makes, TypeOfCall, IsJob, Post
<1>4. AcceptedSent'
  <2>1. UNCHANGED accepted \/ accepted' = Append(accepted, m.job)
    BY <1>3 DEF Post
  <2>2. Sent(m.job)'
    BY <1>2
  <2> QED BY <1>1, <1>2, <2>1, <2>2, AcceptedOfCalls
<1>5. MailboxCalls'
  <2>1. UNCHANGED mailbox \/ mailbox' = Append(mailbox, m)
    BY <1>3 DEF Post, Put
  <2> QED BY <1>1, <1>3, <2>1, MailboxOfCalls
<1>6. CurrentCall'
  <2>1. CASE current' = m
    BY <1>3, <2>1 DEF CurrentCall, TypeOfCall, IsJob
  <2>2. CASE UNCHANGED <<server, current>>
    BY <1>1, <1>3, <2>2 DEF CurrentCall, TypeOfCall, IsJob, Busy
  <2> QED BY <1>3, <2>1, <2>2 DEF Post
<1> QED BY <1>4, <1>5, <1>6

(* The other steps accept nothing.                                          *)
LEMMA OthersOfCalls ==
  ASSUME ServerTyped, AcceptedSent, MailboxCalls, CurrentCall, \A j \in Job : Sent(j) => Sent(j)',
         UNCHANGED <<kind, accepted>>,
         \/ UNCHANGED mailbox
         \/ mailbox # <<>> /\ mailbox' = Tail(mailbox)
         \/ \E m \in Message : TypeOfCall(m) /\ mailbox' = Append(mailbox, m),
         Busy' => (Busy /\ UNCHANGED current) \/ (mailbox # <<>> /\ current' = mailbox[1])
  PROVE  AcceptedSent' /\ MailboxCalls' /\ CurrentCall'
<1>1. AcceptedSent' /\ MailboxCalls'
  BY AcceptedOfCalls, MailboxOfCalls
<1>2. CurrentCall'
  <2>1. CASE Busy /\ UNCHANGED current
    BY <2>1 DEF CurrentCall, TypeOfCall, IsJob
  <2>2. CASE mailbox # <<>> /\ current' = mailbox[1]
    <3>1. 1 \in 1..Len(mailbox)
      BY <2>2, Beheaded DEF ServerTyped
    <3>2. TypeOfCall(mailbox[1])
      BY <3>1 DEF MailboxCalls
    <3> QED BY <2>2, <3>2 DEF CurrentCall, TypeOfCall, IsJob
  <2> QED BY <2>1, <2>2 DEF CurrentCall
<1> QED BY <1>1, <1>2

LEMMA CallNext == TypeOK /\ CallInv /\ [Next]_vars => CallInv'
<1> SUFFICES ASSUME TypeOK, CallInv, [Next]_vars PROVE CallInv'
  OBVIOUS
<1> DEFINE Kept == \A j \in Job : Sent(j) => Sent(j)'
<1>0. /\ kind \in Kinds /\ ClientsTyped /\ ServerTyped
      /\ AllInCalls /\ AcceptedSent /\ MailboxCalls /\ CurrentCall
  BY TypeParts, CallParts
<1>a. AllInCalls' /\ AcceptedSent' /\ MailboxCalls' /\ CurrentCall' => CallInv'
  BY DEF CallInv, AllInCalls, InACall, AcceptedSent, MailboxCalls, CurrentCall, Busy
<1> USE <1>0, <1>a
<1>1. ASSUME NEW c \in Clients, Tell(c) PROVE CallInv'
  <2>1. /\ Makes(c, "tell") /\ Post(ThisMessage(c, "tell")) /\ Returns(c)
        /\ at[c] < Len(Program[kind][c]) /\ kind' = kind
    BY <1>1 DEF Tell, Makes, Post
  <2>2. AllInCalls' /\ Kept
    BY <2>1, ReturnMoves
  <2>3. \A j \in Job : j[1] = c /\ j[2] = at[c] + 1 => Sent(j)'
    <3>1. at'[c] = at[c] + 1 /\ at[c] \in Nat
      BY <2>1, Returning DEF ClientsTyped
    <3> QED BY <3>1 DEF Sent
  <2> QED BY <2>1, <2>2, <2>3, PostOfCalls
<1>2. ASSUME NEW c \in Clients, Ask(c) PROVE CallInv'
  <2>1. Makes(c, "ask") /\ Post(ThisMessage(c, "ask")) /\ Enters(c, "asking") /\ kind' = kind
    BY <1>2 DEF Ask, Post
  <2>2. AllInCalls' /\ Kept
    BY <2>1, EnterMoves
  <2>3. \A j \in Job : j[1] = c /\ j[2] = at[c] + 1 => Sent(j)'
    <3>1. at' = at /\ doing'[c] = "asking"
      BY <2>1, Entering
    <3> QED BY <3>1 DEF Sent
  <2> QED BY <2>1, <2>2, <2>3, PostOfCalls
<1>3. ASSUME NEW c \in Clients, AskGivesUp(c) \/ StopReturns(c) PROVE CallInv'
  <2>1. /\ Returns(c) /\ at[c] < Len(Program[kind][c])
        /\ UNCHANGED <<kind, accepted, mailbox, server, current>>
    BY <1>3 DEF AskGivesUp, StopReturns, AllInCalls, InACall
  <2>2. AllInCalls' /\ Kept
    BY <2>1, ReturnMoves
  <2> QED BY <2>1, <2>2, OthersOfCalls DEF Busy
<1>4. ASSUME NEW c \in Clients, Status(c) PROVE CallInv'
  <2>1. /\ Returns(c) /\ at[c] < Len(Program[kind][c])
        /\ UNCHANGED <<kind, accepted, server, current>>
        /\ mailbox' = Append(mailbox, ThisMessage(c, "status"))
    BY <1>4 DEF Status, Makes, Put
  <2>2. AllInCalls' /\ Kept
    BY <2>1, ReturnMoves
  <2>3. ThisMessage(c, "status") \in Message /\ TypeOfCall(ThisMessage(c, "status"))
    BY <2>1, ThisIsAMessage DEF TypeOfCall, IsJob
  <2> QED BY <2>1, <2>2, <2>3, OthersOfCalls DEF Busy
<1>5. ASSUME NEW c \in Clients, Stop(c) PROVE CallInv'
  <2>1. /\ Makes(c, "stop") /\ at[c] < Len(Program[kind][c])
        /\ UNCHANGED <<kind, accepted, current>> /\ (Busy' => Busy)
        /\ \/ mailbox' = Append(mailbox, ThisMessage(c, "stop"))
           \/ UNCHANGED mailbox
    BY <1>5 DEF Stop, Makes, Put, Busy
  <2>2. AllInCalls' /\ Kept
    BY <1>5, <2>1, ReturnMoves, EnterMoves DEF Stop
  <2>3. ThisMessage(c, "stop") \in Message /\ TypeOfCall(ThisMessage(c, "stop"))
    BY <2>1, ThisIsAMessage DEF TypeOfCall, IsJob
  <2> QED BY <2>1, <2>2, <2>3, OthersOfCalls
<1>6. ASSUME Resume \/ TimerFires PROVE CallInv'
  <2>1. /\ mailbox # <<>> /\ Take /\ Answer(Head(mailbox)) /\ UNCHANGED <<kind, accepted, server>>
    BY <1>6 DEF Resume, TimerFires, PrintJob
  <2>2. mailbox' = Tail(mailbox) /\ current' = mailbox[1] /\ Head(mailbox) \in Message
    BY <2>1, Taking
  <2>3. AllInCalls' /\ Kept
    BY <2>1, <2>2, AnswerMoves
  <2> QED BY <2>1, <2>2, <2>3, OthersOfCalls
<1>7. ASSUME NEW c \in Clients, Step(c) PROVE CallInv'
  <2>1. Returns(c) /\ at[c] < Len(Program[kind][c]) /\ UNCHANGED <<kind, accepted, server>>
    BY <1>7 DEF Step, Makes
  <2>2. AllInCalls' /\ Kept
    BY <2>1, ReturnMoves
  <2>3. CASE server = "loop" /\ mailbox # <<>>
    <3>1. mailbox' = Tail(mailbox) /\ current' = mailbox[1]
      BY <1>7, <2>3, Taking DEF Step
    <3> QED BY <2>1, <2>2, <2>3, <3>1, OthersOfCalls
  <2>4. CASE ~(server = "loop" /\ mailbox # <<>>)
    BY <1>7, <2>1, <2>2, <2>4, OthersOfCalls DEF Step, Busy
  <2> QED BY <2>3, <2>4
<1>8. ASSUME Loop PROVE CallInv'
  <2>1. mailbox # <<>> /\ Take /\ UNCHANGED <<kind, accepted, at, doing>>
    BY <1>8 DEF Loop, Pending, clients
  <2>2. mailbox' = Tail(mailbox) /\ current' = mailbox[1]
    BY <2>1, Taking
  <2>3. AllInCalls' /\ Kept
    BY <2>1, NobodyMoves
  <2> QED BY <2>1, <2>2, <2>3, OthersOfCalls
<1>9. ASSUME InputEnds PROVE CallInv'
  <2>1. UNCHANGED <<kind, accepted, at, doing, mailbox, current>> /\ ~Busy'
    BY <1>9 DEF InputEnds, clients, Busy
  <2>2. AllInCalls' /\ Kept
    BY <2>1, NobodyMoves
  <2> QED BY <2>1, <2>2, OthersOfCalls
<1>10. ASSUME Process PROVE CallInv'
  <2>1. UNCHANGED <<kind, accepted, at, doing>>
    BY <1>10 DEF Process, clients
  <2>2. AllInCalls' /\ Kept
    BY <2>1, NobodyMoves
  <2>3. \/ mailbox # <<>> /\ mailbox' = Tail(mailbox) /\ current' = mailbox[1]
        \/ UNCHANGED <<mailbox, current>> /\ ~Busy'
    BY <1>10, Taking DEF Process, Busy
  <2> QED BY <2>1, <2>2, <2>3, OthersOfCalls
<1>11. ASSUME Finish PROVE CallInv'
  <2>1. /\ Answer(current) /\ current \in Message /\ UNCHANGED <<kind, accepted, mailbox>> /\ ~Busy'
    BY <1>11 DEF Finish, PrintJob, ServerTyped, Busy
  <2>2. AllInCalls' /\ Kept
    BY <2>1, AnswerMoves
  <2> QED BY <2>1, <2>2, OthersOfCalls
<1>12. CASE UNCHANGED vars
  <2>1. UNCHANGED <<kind, accepted, at, doing, mailbox, current, server>>
    BY <1>12 DEF vars, clients
  <2>2. AllInCalls' /\ Kept
    BY <2>1, NobodyMoves
  <2> QED BY <2>1, <2>2, OthersOfCalls DEF Busy
<1> QED BY <1>1, <1>2, <1>3, <1>4, <1>5, <1>6, <1>7, <1>8, <1>9, <1>10, <1>11, <1>12
        DEF Next, ClientStep, ServerStep, AskResumes

--------------------------------------------------------------------------------
(* Who prints, and the counters.                                            *)
Places == /\ Busy => Is.runs = "thread"
          /\ server = "receiving" => kind = "kotlin" /\ mailbox = <<>>
          /\ server = "ended" => Is.runs # "timers"
JobsOnly == Is.shutdown # "message" => \A i \in 1..Len(mailbox) : IsJob(mailbox[i])
Counts == counter = Len(IF Is.runs = "timers" THEN accepted ELSE printed)

LEMMA ServerParts == ServerInv <=> Places /\ JobsOnly /\ Counts
BY DEF ServerInv, Places, JobsOnly, Counts, Busy

LEMMA OnlyJobsPut ==
  ASSUME ServerTyped, kind' = kind, JobsOnly,
         \/ UNCHANGED mailbox
         \/ mailbox # <<>> /\ mailbox' = Tail(mailbox)
         \/ \E m \in Message : (Is.shutdown # "message" => IsJob(m)) /\ mailbox' = Append(mailbox, m)
  PROVE  JobsOnly'
<1> SUFFICES ASSUME Is.shutdown # "message", NEW i \in 1..Len(mailbox') PROVE IsJob(mailbox'[i])
  BY DEF JobsOnly, Is, IsJob
<1>0. \A k \in 1..Len(mailbox) : IsJob(mailbox[k])
  BY DEF JobsOnly
<1>1. CASE UNCHANGED mailbox
  BY <1>0, <1>1 DEF IsJob
<1>2. CASE mailbox # <<>> /\ mailbox' = Tail(mailbox)
  <2>1. i + 1 \in 1..Len(mailbox) /\ mailbox'[i] = mailbox[i + 1]
    BY <1>2, Beheaded DEF ServerTyped
  <2> QED BY <1>0, <2>1 DEF IsJob
<1>3. CASE \E m \in Message : (Is.shutdown # "message" => IsJob(m)) /\ mailbox' = Append(mailbox, m)
  <2>1. PICK m \in Message : IsJob(m) /\ mailbox' = Append(mailbox, m)
    BY <1>3
  <2>2. /\ Len(mailbox) \in Nat /\ Len(mailbox') = Len(mailbox) + 1 /\ mailbox'[Len(mailbox) + 1] = m
        /\ \A k \in 1..Len(mailbox) : mailbox'[k] = mailbox[k]
    BY <2>1, Appended DEF ServerTyped
  <2>3. CASE i = Len(mailbox) + 1
    BY <2>1, <2>2, <2>3 DEF IsJob
  <2>4. CASE i \in 1..Len(mailbox)
    BY <1>0, <2>2, <2>4 DEF IsJob
  <2> QED BY <2>2, <2>3, <2>4
<1> QED BY <1>1, <1>2, <1>3

LEMMA PostKeepsServer ==
  ASSUME TypeOK, ServerInv, NEW c \in Clients, NEW type \in {"tell", "ask"},
         at[c] < Len(Program[kind][c]), Post(ThisMessage(c, type))
  PROVE  Places' /\ JobsOnly' /\ Counts'
<1>1. PICK m \in Message : m = ThisMessage(c, type) /\ m.type = type /\ m.job \in Job
  BY ThisIsAMessage
<1>2. Post(m) /\ IsJob(m) /\ kind' = kind /\ printed' = printed
  BY <1>1 DEF IsJob, Post
<1>3. ServerTyped /\ Places /\ JobsOnly /\ Counts /\ kind \in Kinds
  BY TypeParts, ServerParts
<1>4. Is' = Is
  BY <1>2 DEF Is
<1>5. JobsOnly'
  <2>1. UNCHANGED mailbox \/ mailbox' = Append(mailbox, m)
    BY <1>2 DEF Post, Put
  <2> QED BY <1>2, <1>3, <2>1, OnlyJobsPut
<1>6. Places'
  <2>1. CASE Refuses
    BY <1>2, <1>3, <1>4, <2>1 DEF Post, Places, Busy
  <2>2. CASE ~Refuses /\ server = "receiving"
    <3>1. server' = "busy" /\ kind = "kotlin"
      BY <1>2, <1>3, <2>2 DEF Post, Places
    <3>2. Is.runs = "thread"
      BY <1>3, <3>1, Languages
    <3> QED BY <1>4, <3>1, <3>2 DEF Places, Busy
  <2>3. CASE ~Refuses /\ server # "receiving"
    BY <1>2, <1>3, <1>4, <2>3 DEF Post, Places, Busy
  <2> QED BY <2>1, <2>2, <2>3
<1>7. Counts'
  <2>1. CASE Refuses
    BY <1>2, <1>3, <1>4, <2>1 DEF Post, Counts
  <2>2. CASE ~Refuses
    <3>1. accepted' = Append(accepted, m.job) /\ counter' = IF Is.runs = "timers" THEN counter + 1 ELSE counter
      BY <1>2, <2>2 DEF Post
    <3>2. Len(accepted') = Len(accepted) + 1
      BY <1>1, <1>3, <3>1, Appended DEF ServerTyped
    <3> QED BY <1>2, <1>3, <1>4, <3>1, <3>2 DEF Counts
  <2> QED BY <2>1, <2>2
<1> QED BY <1>5, <1>6, <1>7

LEMMA Quiet ==
  ASSUME Places, Counts, UNCHANGED <<kind, server, counter, accepted, printed>>,
         UNCHANGED mailbox \/ kind # "kotlin"
  PROVE  Places' /\ Counts'
BY DEF Places, Counts, Is, Busy

LEMMA PrintCounts ==
  ASSUME ServerTyped, Counts, NEW m \in Message, Is.runs # "timers", kind' = kind,
         counter' = counter + 1, printed' = Append(printed, m.job)
  PROVE  Counts'
<1>1. m.job \in Job
  BY DEF Message
<1>2. Len(printed') = Len(printed) + 1
  BY <1>1, Appended DEF ServerTyped
<1> QED BY <1>2 DEF Counts, Is

LEMMA ServerNext == TypeOK /\ ServerInv /\ [Next]_vars => ServerInv'
<1> SUFFICES ASSUME TypeOK, ServerInv, [Next]_vars PROVE ServerInv'
  OBVIOUS
<1>0. kind \in Kinds /\ ServerTyped /\ Places /\ JobsOnly /\ Counts
  BY TypeParts, ServerParts
<1>a. Places' /\ JobsOnly' /\ Counts' => ServerInv'
  BY DEF ServerInv, Places, JobsOnly, Counts, Busy
<1> USE <1>0, <1>a
<1>1. ASSUME NEW c \in Clients, Tell(c) PROVE ServerInv'
  BY <1>1, PostKeepsServer DEF Tell, Makes
<1>2. ASSUME NEW c \in Clients, Ask(c) PROVE ServerInv'
  BY <1>2, PostKeepsServer DEF Ask, Makes
<1>3. ASSUME NEW c \in Clients, AskGivesUp(c) \/ StopReturns(c) PROVE ServerInv'
  BY <1>3, Quiet, OnlyJobsPut DEF AskGivesUp, StopReturns
<1>4. ASSUME NEW c \in Clients, Status(c) PROVE ServerInv'
  <2>1. at[c] < Len(Program[kind][c]) /\ Program[kind][c][at[c] + 1] = "status" /\ at[c] \in Nat
    BY <1>4 DEF Status, Makes, TypeOK
  <2>2. at[c] + 1 \in 1..Len(Program[kind][c])
    BY <2>1, Programs
  <2>3. kind = "scala" /\ Is.shutdown = "message"
    BY <2>1, <2>2, Programs, Languages
  <2>4. /\ mailbox' = Append(mailbox, ThisMessage(c, "status")) /\ ThisMessage(c, "status") \in Message
        /\ UNCHANGED <<kind, server, counter, accepted, printed>>
    BY <1>4, <2>1, ThisIsAMessage DEF Status, Put
  <2>5. Places' /\ Counts'
    BY <2>3, <2>4, Quiet
  <2> QED BY <2>3, <2>4, <2>5, OnlyJobsPut
<1>5. ASSUME NEW c \in Clients, Stop(c) PROVE ServerInv'
  <2>1. at[c] < Len(Program[kind][c]) /\ UNCHANGED <<kind, counter, accepted, printed>>
    BY <1>5 DEF Stop, Makes
  <2>2. CASE Is.shutdown = "message"
    <3>1. /\ mailbox' = Append(mailbox, ThisMessage(c, "stop")) /\ ThisMessage(c, "stop") \in Message
          /\ server' = server /\ kind # "kotlin"
      BY <1>5, <2>1, <2>2, ThisIsAMessage, Languages DEF Stop, Put
    <3>2. Places' /\ Counts'
      BY <2>1, <3>1, Quiet
    <3> QED BY <2>1, <2>2, <3>1, <3>2, OnlyJobsPut
  <2>3. CASE Is.shutdown # "message"
    <3>1. mailbox' = mailbox /\ server' = IF Is.runs = "resumed" THEN "ended" ELSE server
      BY <1>5, <2>3 DEF Stop
    <3>2. JobsOnly'
      BY <2>1, <3>1, OnlyJobsPut
    <3>3. CASE Is.runs = "resumed"
      BY <2>1, <3>1, <3>2, <3>3 DEF Places, Counts, Is, Busy
    <3>4. CASE Is.runs # "resumed"
      BY <2>1, <3>1, <3>2, <3>4, Quiet
    <3> QED BY <3>3, <3>4
  <2> QED BY <2>2, <2>3
<1>6. ASSUME Resume PROVE ServerInv'
  <2>1. /\ mailbox # <<>> /\ Take /\ Is.runs = "resumed" /\ UNCHANGED <<kind, server>> /\ server = "loop"
        /\ counter' = counter + 1 /\ printed' = Append(printed, Head(mailbox).job)
    BY <1>6 DEF Resume, PrintJob
  <2>2. mailbox' = Tail(mailbox) /\ Head(mailbox) \in Message
    BY <2>1, Taking
  <2>3. Counts'
    BY <2>1, <2>2, PrintCounts
  <2>4. Places'
    BY <2>1 DEF Places, Is, Busy
  <2> QED BY <2>1, <2>2, <2>3, <2>4, OnlyJobsPut
<1>7. ASSUME NEW c \in Clients, Step(c) PROVE ServerInv'
  <2>1. Is.runs = "resumed" /\ kind = "lua" /\ kind' = kind /\ server' = server
    BY <1>7, StepOfLua DEF Step
  <2>2. CASE server = "loop" /\ mailbox # <<>>
    <3>1. Take /\ counter' = counter + 1 /\ printed' = Append(printed, Head(mailbox).job)
      BY <1>7, <2>2 DEF Step
    <3>2. mailbox' = Tail(mailbox) /\ Head(mailbox) \in Message
      BY <2>2, <3>1, Taking
    <3>3. Counts'
      BY <2>1, <3>1, <3>2, PrintCounts
    <3>4. Places'
      BY <2>1, <2>2 DEF Places, Is, Busy
    <3> QED BY <2>1, <2>2, <3>2, <3>3, <3>4, OnlyJobsPut
  <2>3. CASE ~(server = "loop" /\ mailbox # <<>>)
    <3>1. UNCHANGED <<kind, server, counter, accepted, printed, mailbox>>
      BY <1>7, <2>3 DEF Step
    <3> QED BY <3>1, Quiet, OnlyJobsPut
  <2> QED BY <2>2, <2>3
<1>8. ASSUME Loop PROVE ServerInv'
  <2>1. /\ mailbox # <<>> /\ Take /\ Is.runs = "thread" /\ server' \in {"ended", "loop", "busy"}
        /\ UNCHANGED <<kind, counter, accepted, printed>>
    BY <1>8 DEF Loop, Pending
  <2>2. mailbox' = Tail(mailbox)
    BY <2>1, Taking
  <2>3. Places' /\ Counts'
    BY <2>1 DEF Places, Counts, Is, Busy
  <2> QED BY <2>1, <2>2, <2>3, OnlyJobsPut
<1>9. ASSUME InputEnds PROVE ServerInv'
  <2>1. /\ Is.shutdown = "end" /\ server' = "ended"
        /\ UNCHANGED <<kind, counter, accepted, printed, mailbox>>
    BY <1>9 DEF InputEnds
  <2>2. Is.runs # "timers"
    BY <2>1, Languages
  <2>3. Places' /\ Counts'
    BY <2>1, <2>2 DEF Places, Counts, Is, Busy
  <2> QED BY <2>1, <2>3, OnlyJobsPut
<1>10. ASSUME Process PROVE ServerInv'
  <2>1. /\ Is.shutdown = "flag" /\ Is.runs = "thread" /\ UNCHANGED <<kind, counter, accepted, printed>>
        /\ \/ mailbox # <<>> /\ Take /\ server' = "busy"
           \/ UNCHANGED mailbox /\ server' = "ended"
           \/ UNCHANGED mailbox /\ mailbox = <<>> /\ server' = "receiving"
    BY <1>10 DEF Process
  <2>2. kind = "kotlin"
    BY <2>1, Languages
  <2>3. Places' /\ Counts'
    BY <2>1, <2>2 DEF Places, Counts, Is, Busy
  <2> QED BY <2>1, <2>3, OnlyJobsPut, Taking
<1>11. ASSUME Finish PROVE ServerInv'
  <2>1. /\ current \in Message /\ printed' = Append(printed, current.job) /\ counter' = counter + 1
        /\ server' = "loop" /\ UNCHANGED <<kind, mailbox>> /\ Is.runs = "thread"
    BY <1>11 DEF Finish, PrintJob, ServerTyped, Busy, Places
  <2>2. Counts'
    BY <2>1, PrintCounts
  <2>3. Places'
    BY <2>1 DEF Places, Busy
  <2> QED BY <2>1, <2>2, <2>3, OnlyJobsPut
<1>12. ASSUME TimerFires PROVE ServerInv'
  <2>1. /\ mailbox # <<>> /\ Take /\ Is.runs = "timers"
        /\ UNCHANGED <<kind, server, counter, accepted>>
    BY <1>12 DEF TimerFires
  <2>2. mailbox' = Tail(mailbox) /\ kind # "kotlin"
    BY <2>1, Taking, Languages
  <2>3. Places' /\ Counts'
    BY <2>1, <2>2 DEF Places, Counts, Is, Busy
  <2> QED BY <2>1, <2>2, <2>3, OnlyJobsPut
<1>13. CASE UNCHANGED vars
  BY <1>13, Quiet, OnlyJobsPut DEF vars
<1> QED BY <1>1, <1>2, <1>3, <1>4, <1>5, <1>6, <1>7, <1>8, <1>9, <1>10, <1>11, <1>12, <1>13
        DEF Next, ClientStep, ServerStep, AskResumes

--------------------------------------------------------------------------------
(* The shutdown.                                                            *)
StopsMarked == \A i \in 1..Len(mailbox) : mailbox[i].type = "stop" =>
  stopAt # NotYet /\ stopAt <= mailbox[i].before
StopComes == stopAt # NotYet /\ server # "ended" => \E i \in 1..Len(mailbox) :
  mailbox[i].type = "stop" /\ mailbox[i].before = stopAt
Closed == /\ stopAt = Len(accepted)
          /\ \A c \in Clients : doing[c] = "stopping" \/ at[c] = Len(Program[kind][c])

LEMMA StopParts ==
  StopInv <=> /\ Is.shutdown = "message" => StopsMarked /\ StopComes
              /\ Is.shutdown = "end" => IF running THEN stopAt = NotYet ELSE Closed
BY DEF StopInv, StopsMarked, StopComes, Closed

LEMMA StopKept ==
  ASSUME StopsMarked, StopComes, UNCHANGED <<mailbox, stopAt>>, server = "ended" => server' = "ended"
  PROVE  StopsMarked' /\ StopComes'
BY DEF StopsMarked, StopComes

LEMMA StopPut ==
  ASSUME Typed, stopAt \in Nat \cup {NotYet}, StopsMarked, StopComes, server' = server,
         NEW m \in Message, mailbox' = Append(mailbox, m), m.before = Len(accepted),
         \/ m.type # "stop" /\ UNCHANGED stopAt
         \/ m.type = "stop" /\ stopAt = NotYet /\ stopAt' = Len(accepted)
         \/ m.type = "stop" /\ stopAt # NotYet /\ stopAt' = stopAt /\ stopAt <= Len(accepted)
  PROVE  StopsMarked' /\ StopComes'
<1>1. /\ Len(mailbox') = Len(mailbox) + 1 /\ mailbox'[Len(mailbox) + 1] = m
      /\ \A i \in 1..Len(mailbox) : mailbox'[i] = mailbox[i]
  BY Appended DEF Typed
<1>2. StopsMarked'
  <2> SUFFICES ASSUME NEW i \in 1..Len(mailbox'), mailbox'[i].type = "stop"
               PROVE  stopAt' # NotYet /\ stopAt' <= mailbox'[i].before
    BY DEF StopsMarked
  <2>1. CASE i = Len(mailbox) + 1
    BY <1>1, <2>1 DEF Typed, NotYet
  <2>2. CASE i \in 1..Len(mailbox)
    <3>1. mailbox'[i] = mailbox[i]
      BY <1>1, <2>2
    <3>2. stopAt # NotYet /\ stopAt <= mailbox[i].before
      BY <2>2, <3>1 DEF StopsMarked
    <3> QED BY <3>1, <3>2
  <2> QED BY <1>1, <2>1, <2>2 DEF Typed
<1>3. StopComes'
  <2> SUFFICES ASSUME stopAt' # NotYet, server # "ended"
               PROVE  \E i \in 1..Len(mailbox') : mailbox'[i].type = "stop" /\ mailbox'[i].before = stopAt'
    BY DEF StopComes
  <2>1. CASE stopAt = NotYet
    <3>1. Len(mailbox) + 1 \in 1..Len(mailbox')
      BY <1>1 DEF Typed
    <3> QED BY <1>1, <2>1, <3>1
  <2>2. CASE stopAt # NotYet
    <3>1. PICK i \in 1..Len(mailbox) : mailbox[i].type = "stop" /\ mailbox[i].before = stopAt
      BY <2>2 DEF StopComes
    <3>2. i \in 1..Len(mailbox') /\ mailbox'[i] = mailbox[i]
      BY <1>1 DEF Typed
    <3> QED BY <2>2, <3>1, <3>2
  <2> QED BY <2>1, <2>2
<1> QED BY <1>2, <1>3

(* The head of the mailbox: if it is a stop, it is the first one and its    *)
(* place is here.                                                           *)
LEMMA StopTaken ==
  ASSUME Typed, stopAt \in Nat \cup {NotYet}, NoJobLost, ~Busy, StopsMarked, StopComes,
         server # "ended", mailbox # <<>>, mailbox' = Tail(mailbox), UNCHANGED stopAt,
         server' = "ended" <=> mailbox[1].type = "stop"
  PROVE  /\ StopsMarked' /\ StopComes'
         /\ mailbox[1].type = "stop" => stopAt = Len(printed)
<1>1. /\ Len(mailbox) > 0 /\ Len(mailbox') = Len(mailbox) - 1 /\ 1 \in 1..Len(mailbox)
      /\ \A i \in 1..Len(mailbox') : mailbox'[i] = mailbox[i + 1]
  BY Beheaded DEF Typed
<1>2. mailbox[1].before = Len(printed)
  BY HeadIsNext
<1>3. StopsMarked'
  <2> SUFFICES ASSUME NEW i \in 1..Len(mailbox'), mailbox'[i].type = "stop"
               PROVE  stopAt # NotYet /\ stopAt <= mailbox'[i].before
    BY DEF StopsMarked
  <2>1. i + 1 \in 1..Len(mailbox) /\ mailbox'[i] = mailbox[i + 1]
    BY <1>1 DEF Typed
  <2> QED BY <2>1 DEF StopsMarked
<1>4. CASE mailbox[1].type = "stop"
  <2>1. stopAt # NotYet /\ stopAt <= Len(printed)
    BY <1>1, <1>2, <1>4 DEF StopsMarked
  <2>2. PICK i \in 1..Len(mailbox) : mailbox[i].type = "stop" /\ mailbox[i].before = stopAt
    BY <2>1 DEF StopComes
  <2>3. mailbox[1].before <= mailbox[i].before
    <3>1. CASE i = 1
      BY <1>2, <3>1 DEF Typed
    <3>2. CASE i # 1
      <4>1. 1 \in 1..(i - 1)
        BY <3>2
      <4> QED BY <4>1 DEF NoJobLost, MailboxInOrder
    <3> QED BY <3>1, <3>2
  <2>4. stopAt = Len(printed)
    BY <1>2, <2>1, <2>2, <2>3 DEF Typed, NotYet
  <2>5. StopComes'
    BY <1>4 DEF StopComes
  <2> QED BY <1>3, <2>4, <2>5
<1>5. CASE mailbox[1].type # "stop"
  <2> SUFFICES ASSUME stopAt # NotYet
               PROVE  \E i \in 1..Len(mailbox') : mailbox'[i].type = "stop" /\ mailbox'[i].before = stopAt
    BY <1>3, <1>5 DEF StopComes
  <2>1. PICK i \in 1..Len(mailbox) : mailbox[i].type = "stop" /\ mailbox[i].before = stopAt
    BY DEF StopComes
  <2>2. i # 1
    BY <1>5, <2>1
  <2>3. i - 1 \in 1..Len(mailbox') /\ mailbox'[i - 1] = mailbox[i]
    BY <1>1, <2>2 DEF Typed
  <2> QED BY <2>1, <2>3
<1> QED BY <1>4, <1>5

LEMMA KindKept == [Next]_vars => UNCHANGED kind
BY DEF Next, vars, clients, ClientStep, ServerStep, Tell, Ask, AskGivesUp, Status, Stop, StopReturns,
       AskResumes, Resume, Step, Loop, InputEnds, Process, Finish, TimerFires, Post

LEMMA AllPrinted ==
  ASSUME Typed, NoJobLost, ~Busy, mailbox = <<>>
  PROVE  Len(printed) = Len(accepted)
<1>1. Taken = Len(printed) /\ Len(mailbox) = 0
  BY DEF Taken, Busy
<1> QED BY <1>1 DEF NoJobLost, PrintedInOrder, AllInMailbox, Typed

(* A shutdown that comes as a message.                                      *)
LEMMA StopByMessage ==
  ASSUME TypeOK, NoJobLost, ServerInv, StopInv, StopInItsPlace, Next, Is.shutdown = "message"
  PROVE  StopsMarked' /\ StopComes' /\ (server' = "ended" => Len(printed') = stopAt')
<1> DEFINE Goal == StopsMarked' /\ StopComes' /\ (server' = "ended" => Len(printed') = stopAt')
<1> SUFFICES Goal
  OBVIOUS
<1>0. /\ kind \in Kinds /\ ServerTyped /\ Typed /\ stopAt \in Nat \cup {NotYet}
      /\ StopsMarked /\ StopComes /\ (server = "ended" => Len(printed) = stopAt)
      /\ Len(printed) \in Nat /\ Len(accepted) \in Nat
      /\ Is.runs = "thread" /\ kind \notin {"go", "kotlin", "lua", "javascript"}
  BY TypeParts, StopParts, Types, Languages DEF RestTyped, StopInItsPlace, Typed
<1> USE <1>0
<1> HIDE DEF Goal
<1>1. ASSUME NEW c \in Clients, NEW type \in {"tell", "ask"}, Makes(c, type),
             Post(ThisMessage(c, type))
      PROVE Goal
  <2>1. PICK m \in Message : /\ m = ThisMessage(c, type) /\ m.type = type
                             /\ m.before = Len(accepted)
    BY <1>1, ThisIsAMessage DEF Makes
  <2>2. Post(m) /\ ~Refuses /\ server # "receiving"
    BY <1>1, <2>1 DEF Refuses, ServerInv
  <2>3. mailbox' = Append(mailbox, m) /\ UNCHANGED <<server, stopAt, printed>>
    BY <2>2 DEF Post, Put
  <2>4. StopsMarked' /\ StopComes'
    BY <1>1, <2>1, <2>3, StopPut
  <2> QED BY <2>3, <2>4 DEF Goal
<1>2. ASSUME NEW c \in Clients, Tell(c) \/ Ask(c) PROVE Goal
  BY <1>1, <1>2 DEF Tell, Ask
<1>3. ASSUME NEW c \in Clients, AskGivesUp(c) \/ StopReturns(c) PROVE Goal
  BY <1>3, StopKept DEF AskGivesUp, StopReturns, Goal
<1>4. ASSUME NEW c \in Clients, Status(c) PROVE Goal
  <2>1. PICK m \in Message : /\ m = ThisMessage(c, "status") /\ m.type = "status"
                             /\ m.before = Len(accepted)
    BY <1>4, ThisIsAMessage DEF Status, Makes
  <2>2. mailbox' = Append(mailbox, m) /\ UNCHANGED <<server, stopAt, printed>>
    BY <1>4, <2>1 DEF Status, Put
  <2>3. StopsMarked' /\ StopComes'
    BY <2>1, <2>2, StopPut
  <2> QED BY <2>2, <2>3 DEF Goal
<1>5. ASSUME NEW c \in Clients, Stop(c) PROVE Goal
  <2>1. PICK m \in Message : /\ m = ThisMessage(c, "stop") /\ m.type = "stop"
                             /\ m.before = Len(accepted)
    BY <1>5, ThisIsAMessage DEF Stop, Makes
  <2>2. mailbox' = Append(mailbox, m) /\ UNCHANGED <<server, printed>> /\ Note
    BY <1>5, <2>1 DEF Stop, Put
  <2>3. stopAt # NotYet => stopAt <= Len(accepted)
    <3>1. CASE server = "ended"
      BY <3>1 DEF NoJobLost, PrintedInOrder
    <3>2. CASE server # "ended" /\ stopAt # NotYet
      <4>1. PICK i \in 1..Len(mailbox) : mailbox[i].before = stopAt
        BY <3>2 DEF StopComes
      <4>2. mailbox[i].before \in Taken..Len(accepted)
        BY DEF NoJobLost, MailboxInOrder
      <4>3. Taken \in Nat
        BY DEF Taken
      <4> QED BY <4>1, <4>2, <4>3
    <3> QED BY <3>1, <3>2
  <2>4. stopAt' = IF stopAt = NotYet THEN Len(accepted) ELSE stopAt
    BY <2>2 DEF Note
  <2>5. StopsMarked' /\ StopComes'
    BY <2>1, <2>2, <2>3, <2>4, StopPut
  <2>6. server' = "ended" => Len(printed') = stopAt'
    BY <2>2, <2>4 DEF NotYet
  <2> QED BY <2>5, <2>6 DEF Goal
<1>6. ASSUME Loop PROVE Goal
  <2>1. /\ mailbox # <<>> /\ Take /\ ~Busy /\ server = "loop" /\ UNCHANGED <<printed, stopAt>>
        /\ server' = "ended" <=> current'.type = "stop"
    BY <1>6 DEF Loop, Pending, Busy
  <2>2. mailbox' = Tail(mailbox) /\ current' = mailbox[1]
    BY <2>1, Taking
  <2>3. StopsMarked' /\ StopComes' /\ (mailbox[1].type = "stop" => stopAt = Len(printed))
    BY <2>1, <2>2, StopTaken
  <2> QED BY <2>1, <2>2, <2>3 DEF Goal
<1>7. ASSUME Finish PROVE Goal
  <2>1. UNCHANGED <<mailbox, stopAt>> /\ server = "busy" /\ server' = "loop"
    BY <1>7 DEF Finish
  <2> QED BY <2>1, StopKept DEF Goal
<1>8. ASSUME NEW c \in Clients PROVE ~Step(c)
  BY StepOfLua
<1> QED BY <1>2, <1>3, <1>4, <1>5, <1>6, <1>7, <1>8
        DEF Next, ClientStep, ServerStep, AskResumes, Resume, InputEnds, Process, TimerFires

(* A shutdown that closes the input: it is the client's last call.          *)
LEMMA InputClosed ==
  ASSUME TypeOK, CallInv, kind = "go", NEW c \in Clients, Stop(c)
  PROVE  \A d \in Clients : doing'[d] = "stopping" \/ at'[d] = Len(Program[kind][d])
<1>1. /\ kind \in Kinds /\ ClientsTyped /\ AllInCalls /\ at[c] \in Nat
      /\ at[c] < Len(Program[kind][c]) /\ Program[kind][c][at[c] + 1] = "stop"
  BY TypeParts, CallParts DEF Stop, Makes, ClientsTyped
<1>2. ~DoesNotWait
  BY DEF DoesNotWait, Is, Traits, Go
<1>3. at' = at /\ doing'[c] = "stopping"
  BY <1>1, <1>2, Entering DEF Stop
<1>4. ASSUME NEW d \in Clients \ {c} PROVE at[d] = Len(Program[kind][d])
  <2>1. at[d] \in Nat /\ at[d] <= Len(Program[kind][d]) /\ Len(Program[kind][d]) \in Nat
    BY <1>1, Programs DEF AllInCalls, InACall, ClientsTyped
  <2>2. Len(Program[kind][d]) = 0
    BY <1>1, Programs
  <2> QED BY <2>1, <2>2
<1> QED BY <1>3, <1>4

LEMMA StopByEnd ==
  ASSUME TypeOK, NoJobLost, CallInv, ServerInv, StopInv, StopInItsPlace, Next, Is.shutdown = "end"
  PROVE  /\ IF running' THEN stopAt' = NotYet ELSE Closed'
         /\ server' = "ended" => Len(printed') = stopAt'
<1> DEFINE Goal == /\ IF running' THEN stopAt' = NotYet ELSE Closed'
                   /\ server' = "ended" => Len(printed') = stopAt'
<1> SUFFICES Goal
  OBVIOUS
<1>0. /\ kind \in Kinds /\ ServerTyped /\ Typed /\ ClientsTyped /\ AllInCalls
      /\ IF running THEN stopAt = NotYet ELSE Closed
      /\ server = "ended" => Len(printed) = stopAt
      /\ Len(printed) \in Nat /\ Len(accepted) \in Nat
      /\ Is.runs = "thread" /\ kind = "go" /\ kind' = kind
  BY TypeParts, CallParts, StopParts, Types, Languages, KindKept DEF StopInItsPlace, Typed
<1>1. running => server # "ended"
  BY <1>0 DEF NotYet
<1>2. ~running => \A c \in Clients : /\ doing[c] # "asking"
                                     /\ ~(doing[c] = "run" /\ at[c] < Len(Program[kind][c]))
  BY <1>0, Programs DEF Closed, AllInCalls, InACall, ClientsTyped
<1> USE <1>0, <1>1
<1>3. ASSUME NEW c \in Clients, NEW call, Makes(c, call) PROVE running
  BY <1>2, <1>3 DEF Makes
<1> HIDE DEF Goal
<1>4. ASSUME NEW c \in Clients, Tell(c) \/ Ask(c) \/ Status(c) PROVE Goal
  <2>1. running
    BY <1>3, <1>4 DEF Tell, Ask, Status
  <2>2. UNCHANGED <<running, stopAt>> /\ server' # "ended"
    BY <1>4, <2>1 DEF Tell, Ask, Status, Post
  <2> QED BY <2>1, <2>2 DEF Goal
<1>5. ASSUME NEW c \in Clients, AskGivesUp(c) PROVE Goal
  <2>1. running
    BY <1>2, <1>5 DEF AskGivesUp
  <2> QED BY <1>5, <2>1 DEF AskGivesUp, Goal
<1>6. ASSUME NEW c \in Clients, Stop(c) PROVE Goal
  <2>1. running /\ stopAt = NotYet
    BY <1>3, <1>6 DEF Stop
  <2>2. /\ running' = FALSE /\ stopAt' = Len(accepted) /\ accepted' = accepted
        /\ server' = server /\ kind' = kind
    BY <1>6, <2>1 DEF Stop, Note
  <2>3. Closed'
    BY <1>6, <2>2, InputClosed DEF Closed
  <2> QED BY <2>1, <2>2, <2>3 DEF Goal
<1>7. ASSUME NEW c \in Clients, StopReturns(c) PROVE Goal
  <2>1. /\ doing[c] = "stopping" /\ Returns(c)
        /\ UNCHANGED <<kind, server, running, stopAt, accepted, printed>>
    BY <1>7 DEF StopReturns
  <2>2. /\ \A d \in Clients \ {c} : at'[d] = at[d] /\ doing'[d] = doing[d]
        /\ at'[c] = at[c] + 1
    BY <2>1, Returning
  <2>3. at[c] + 1 = Len(Program[kind][c])
    <3>1. at[c] < Len(Program[kind][c]) /\ Program[kind][c][at[c] + 1] = "stop" /\ at[c] \in Nat
      BY <2>1 DEF AllInCalls, InACall, ClientsTyped
    <3>2. at[c] + 1 \in 1..Len(Program[kind][c])
      BY <3>1, Programs
    <3> QED BY <3>1, <3>2, Programs
  <2>4. ~running => Closed'
    BY <2>1, <2>2, <2>3 DEF Closed
  <2> QED BY <2>1, <2>4 DEF Goal
<1>8. ASSUME Loop PROVE Goal
  <2>1. /\ mailbox # <<>> /\ Take /\ server = "loop"
        /\ UNCHANGED <<kind, at, doing, running, accepted, stopAt>>
        /\ server' = "ended" => current'.type = "stop"
    BY <1>8 DEF Loop, Pending, clients
  <2>2. current' = mailbox[1] /\ Len(mailbox) > 0 /\ Len(mailbox) \in Nat
    BY <2>1, Taking
  <2>3. IsJob(mailbox[1])
    <3>1. 1 \in 1..Len(mailbox)
      BY <2>2
    <3> QED BY <3>1 DEF ServerInv, IsJob
  <2>4. server' # "ended"
    BY <2>1, <2>2, <2>3 DEF IsJob
  <2>5. ~running => Closed'
    BY <2>1 DEF Closed
  <2> QED BY <2>1, <2>4, <2>5 DEF Goal
<1>9. ASSUME InputEnds PROVE Goal
  <2>1. /\ ~running /\ mailbox = <<>> /\ ~Busy
        /\ UNCHANGED <<kind, at, doing, running, accepted, printed, stopAt>>
    BY <1>9 DEF InputEnds, clients, Busy
  <2>2. Len(printed) = Len(accepted)
    BY <2>1, AllPrinted
  <2>3. Closed'
    BY <2>1 DEF Closed
  <2> QED BY <2>1, <2>2, <2>3 DEF Goal, Closed
<1>10. ASSUME Finish PROVE Goal
  <2>1. /\ server' = "loop" /\ UNCHANGED <<kind, running, accepted, stopAt>>
        /\ Answer(current) /\ current \in Message
    BY <1>10 DEF Finish, PrintJob, ServerTyped, Busy
  <2>2. ~running => UNCHANGED <<at, doing>>
    BY <1>2, <2>1, Answering DEF clients
  <2>3. ~running => Closed'
    BY <2>1, <2>2 DEF Closed
  <2> QED BY <2>1, <2>3 DEF Goal
<1>11. ASSUME NEW c \in Clients PROVE ~Step(c)
  BY StepOfLua
<1> QED BY <1>4, <1>5, <1>6, <1>7, <1>8, <1>9, <1>10, <1>11
        DEF Next, ClientStep, ServerStep, AskResumes, Resume, Process, TimerFires

LEMMA StopNext ==
  TypeOK /\ NoJobLost /\ CallInv /\ ServerInv /\ StopInv /\ StopInItsPlace /\ [Next]_vars
    => StopInv' /\ StopInItsPlace'
<1> SUFFICES ASSUME TypeOK, NoJobLost, CallInv, ServerInv, StopInv, StopInItsPlace, [Next]_vars
             PROVE  StopInv' /\ StopInItsPlace'
  OBVIOUS
<1>0. kind \in Kinds /\ Is' = Is /\ kind' = kind
  BY TypeParts, KindKept DEF Is
<1>1. CASE UNCHANGED vars
  BY <1>1 DEF vars, clients, StopInv, StopInItsPlace, Is
<1>2. CASE Next /\ Is.shutdown = "flag"
  BY <1>0, <1>2 DEF StopInv, StopInItsPlace
<1>3. CASE Next /\ Is.shutdown = "message"
  <2>1. StopsMarked' /\ StopComes' /\ (server' = "ended" => Len(printed') = stopAt')
    BY <1>3, StopByMessage
  <2> QED BY <1>0, <1>3, <2>1 DEF StopInv, StopInItsPlace, StopsMarked, StopComes
<1>4. CASE Next /\ Is.shutdown = "end"
  <2>1. /\ IF running' THEN stopAt' = NotYet ELSE Closed'
        /\ server' = "ended" => Len(printed') = stopAt'
    BY <1>4, StopByEnd
  <2> QED BY <1>0, <1>4, <2>1 DEF StopInv, StopInItsPlace, Closed
<1> QED BY <1>0, <1>1, <1>2, <1>3, <1>4, Languages

--------------------------------------------------------------------------------
(* The answers.  A job is printed only when its call has returned, or       *)
(* returns in this step.                                                    *)
PrintedPast == \A i \in 1..Len(printed) : printed[i][2] <= at[printed[i][1]]

LEMMA PastForgotten ==
  ASSUME TypeOK, PrintedPast
  PROVE  NobodyForgotten
<1> SUFFICES ASSUME NEW i \in DOMAIN printed, ThisJob(printed[i][1]) = printed[i] PROVE FALSE
  BY DEF NobodyForgotten
<1>1. i \in 1..Len(printed) /\ printed[i] \in Job
  BY Element DEF TypeOK
<1>2. printed[i][1] \in Clients /\ printed[i][2] \in Nat
  BY <1>1 DEF Job
<1>3. at[printed[i][1]] \in Nat
  BY <1>2 DEF TypeOK
<1>4. printed[i][2] = at[printed[i][1]] + 1
  BY DEF ThisJob
<1> QED BY <1>1, <1>2, <1>3, <1>4 DEF PrintedPast

(* Time only adds to what has been printed and who has returned.            *)
LEMMA PastKept ==
  ASSUME TypeOK, PrintedPast, \A c \in Clients : at'[c] \in Nat /\ at[c] <= at'[c],
         \/ UNCHANGED printed
         \/ \E j \in Job : printed' = Append(printed, j) /\ j[2] <= at'[j[1]]
  PROVE  PrintedPast'
<1> SUFFICES ASSUME NEW i \in 1..Len(printed') PROVE printed'[i][2] <= at'[printed'[i][1]]
  BY DEF PrintedPast
<1>0. printed \in Seq(Job) /\ Len(printed) \in Nat
  BY DEF TypeOK
<1>1. ASSUME i \in 1..Len(printed), printed'[i] = printed[i] PROVE printed'[i][2] <= at'[printed'[i][1]]
  <2>1. PICK j \in Job : j = printed[i]
    BY <1>0, <1>1, Element
  <2>2. j[1] \in Clients /\ j[2] \in Nat
    BY DEF Job
  <2>3. at[j[1]] \in Nat /\ at'[j[1]] \in Nat /\ at[j[1]] <= at'[j[1]]
    BY <2>2 DEF TypeOK
  <2>4. j[2] <= at[j[1]]
    BY <1>1, <2>1 DEF PrintedPast
  <2> QED BY <1>1, <2>1, <2>2, <2>3, <2>4
<1>2. CASE UNCHANGED printed
  BY <1>1, <1>2
<1>3. CASE \E j \in Job : printed' = Append(printed, j) /\ j[2] <= at'[j[1]]
  <2>1. PICK j \in Job : printed' = Append(printed, j) /\ j[2] <= at'[j[1]]
    BY <1>3
  <2>2. /\ Len(printed') = Len(printed) + 1 /\ printed'[Len(printed) + 1] = j
        /\ \A k \in 1..Len(printed) : printed'[k] = printed[k]
    BY <1>0, <2>1, Appended
  <2>3. CASE i = Len(printed) + 1
    BY <2>1, <2>2, <2>3
  <2>4. CASE i \in 1..Len(printed)
    BY <1>1, <2>2, <2>4
  <2> QED BY <1>0, <2>2, <2>3, <2>4
<1> QED BY <1>2, <1>3

LEMMA OwnKept ==
  ASSUME TypeOK, OwnAnswer,
         \/ UNCHANGED <<printed, answers>>
         \/ \E j \in Job : /\ printed' = Append(printed, j)
                           /\ UNCHANGED answers \/ answers' = answers \cup {[ask |-> j, reply |-> j]}
  PROVE  OwnAnswer'
<1>1. CASE UNCHANGED <<printed, answers>>
  BY <1>1 DEF OwnAnswer
<1>2. CASE ~UNCHANGED <<printed, answers>>
  <2>1. PICK j \in Job : /\ printed' = Append(printed, j)
                         /\ UNCHANGED answers \/ answers' = answers \cup {[ask |-> j, reply |-> j]}
    BY <1>2
  <2>2. /\ printed \in Seq(Job) /\ Len(printed) \in Nat
        /\ DOMAIN printed = 1..Len(printed) /\ DOMAIN printed' = 1..(Len(printed) + 1)
    BY <2>1 DEF TypeOK
  <2>3. /\ printed'[Len(printed) + 1] = j
        /\ \A k \in 1..Len(printed) : printed'[k] = printed[k]
    <3>1. printed' = Append(printed, j) /\ printed \in Seq(Job)
      BY <2>1, <2>2
    <3> QED BY <3>1, Appended
  <2> SUFFICES ASSUME NEW a \in answers'
               PROVE  a.ask = a.reply /\ \E i \in DOMAIN printed' : printed'[i] = a.ask
    BY DEF OwnAnswer
  <2>4. CASE a \in answers
    <3>1. a.ask = a.reply
      BY <2>4 DEF OwnAnswer
    <3>2. PICK i \in 1..Len(printed) : printed[i] = a.ask
      BY <2>2, <2>4 DEF OwnAnswer
    <3>3. i \in DOMAIN printed' /\ printed'[i] = a.ask
      BY <2>2, <2>3, <3>2
    <3> QED BY <3>1, <3>3
  <2>5. CASE a = [ask |-> j, reply |-> j]
    <3>1. Len(printed) + 1 \in DOMAIN printed'
      BY <2>2
    <3> QED BY <2>3, <2>5, <3>1
  <2> QED BY <2>1, <2>4, <2>5
<1> QED BY <1>1, <1>2

LEMMA ClientsOnly ==
  ASSUME ClientsTyped, UNCHANGED at \/ \E c \in Clients : Returns(c)
  PROVE  \A c \in Clients : at'[c] \in Nat /\ at[c] <= at'[c]
<1>1. CASE UNCHANGED at
  BY <1>1 DEF ClientsTyped
<1>2. CASE \E c \in Clients : Returns(c)
  <2>1. PICK c \in Clients : Returns(c)
    BY <1>2
  <2>2. at'[c] = at[c] + 1 /\ \A d \in Clients \ {c} : at'[d] = at[d]
    BY <2>1, Returning
  <2>3. \A d \in Clients : at[d] \in Nat
    BY DEF ClientsTyped
  <2> QED BY <2>2, <2>3
<1> QED BY <1>1, <1>2

(* The reply goes to who asked, whoever else asks.                          *)
LEMMA PrintAndAnswer ==
  ASSUME TypeOK, CallInv, PrintedPast, OwnAnswer, NEW m \in Message, IsJob(m), TypeOfCall(m),
         Len(printed) < Len(accepted), accepted[Len(printed) + 1] = m.job,
         printed' = Append(printed, m.job), Answer(m)
  PROVE  PrintedPast' /\ OwnAnswer'
<1> DEFINE j == m.job
           c == j[1]
<1>0. ClientsTyped /\ AllInCalls /\ Len(printed) \in Nat
  BY TypeParts, CallParts DEF TypeOK
<1>1. j \in Job /\ c \in Clients /\ j[2] \in Nat /\ j = <<c, j[2]>>
  BY DEF Message, Job
<1>2. at[c] \in Nat
  BY <1>0, <1>1 DEF ClientsTyped
<1>3. Sent(j)
  BY <1>0 DEF CallInv
<1>4. CASE doing[c] = "asking" /\ j[2] = at[c] + 1
  <2>1. ThisJob(c) = j
    BY <1>1, <1>4 DEF ThisJob
  <2>2. m.type = "ask"
    BY <1>0, <1>1, <1>4 DEF AllInCalls, InACall, TypeOfCall
  <2>3. Returns(c) /\ answers' = answers \cup {[ask |-> j, reply |-> j]}
    BY <1>4, <2>1, <2>2 DEF Answer
  <2>4. at'[c] = at[c] + 1
    BY <1>0, <1>1, <2>3, Returning
  <2>5. \A d \in Clients : at'[d] \in Nat /\ at[d] <= at'[d]
    BY <1>0, <1>1, <2>3, ClientsOnly
  <2>6. j[2] <= at'[c]
    BY <1>1, <1>2, <1>4, <2>4
  <2> QED BY <1>1, <2>3, <2>5, <2>6, PastKept, OwnKept
<1>5. CASE ~(doing[c] = "asking" /\ j[2] = at[c] + 1)
  <2>1. j[2] <= at[c]
    BY <1>3, <1>5 DEF Sent
  <2>2. ThisJob(c) # j
    BY <1>1, <1>2, <2>1 DEF ThisJob
  <2>3. UNCHANGED clients
    BY <2>2 DEF Answer
  <2>4. UNCHANGED <<at, answers>>
    BY <2>3 DEF clients
  <2>5. \A d \in Clients : at'[d] \in Nat /\ at[d] <= at'[d]
    BY <1>0, <2>4, ClientsOnly
  <2> QED BY <1>1, <2>1, <2>4, <2>5, PastKept, OwnKept
<1> QED BY <1>4, <1>5

LEMMA RightNext ==
  TypeOK /\ NoJobLost /\ CallInv /\ ServerInv /\ PrintedPast /\ OwnAnswer /\ [Next]_vars
    => PrintedPast' /\ OwnAnswer'
<1> SUFFICES ASSUME TypeOK, NoJobLost, CallInv, ServerInv, PrintedPast, OwnAnswer, [Next]_vars
             PROVE  PrintedPast' /\ OwnAnswer'
  OBVIOUS
<1>0. /\ kind \in Kinds /\ ClientsTyped /\ ServerTyped /\ Typed /\ AllInCalls
      /\ MailboxCalls /\ CurrentCall
  BY TypeParts, CallParts, Types
<1> USE <1>0
<1>1. ASSUME NEW c \in Clients,
             \/ Tell(c) \/ Ask(c) \/ AskGivesUp(c) \/ Status(c) \/ Stop(c) \/ StopReturns(c)
      PROVE  PrintedPast' /\ OwnAnswer'
  <2>1. UNCHANGED <<printed, answers>>
    BY <1>1 DEF Tell, Ask, AskGivesUp, Status, Stop, StopReturns, Post
  <2>2. UNCHANGED at \/ Returns(c)
    BY <1>1 DEF Tell, Ask, AskGivesUp, Status, Stop, StopReturns, Enters
  <2>3. \A d \in Clients : at'[d] \in Nat /\ at[d] <= at'[d]
    BY <2>2, ClientsOnly
  <2> QED BY <2>1, <2>3, PastKept, OwnKept
<1>2. ASSUME Resume \/ TimerFires PROVE PrintedPast' /\ OwnAnswer'
  <2>1. /\ mailbox # <<>> /\ Take /\ Is.shutdown = "flag" /\ Is.runs # "thread"
        /\ printed' = Append(printed, Head(mailbox).job) /\ UNCHANGED <<server, accepted>>
        /\ Answer(Head(mailbox))
    BY <1>2, Languages DEF Resume, TimerFires, PrintJob
  <2>2. PICK m \in Message : m = mailbox[1]
    BY <2>1, HeadPrinted
  <2>3. /\ IsJob(m) /\ Head(mailbox) = m
        /\ m.before = Len(printed) /\ Len(printed) < Len(accepted)
    BY <2>1, <2>2, HeadPrinted DEF IsJob
  <2>4. 1 \in 1..Len(mailbox)
    BY <2>1, Taking
  <2>5. TypeOfCall(m) /\ accepted[Len(printed) + 1] = m.job
    BY <2>2, <2>3, <2>4 DEF MailboxCalls, TypeOfCall, NoJobLost, MailboxInOrder, AcceptedAs, IsJob
  <2> QED BY <2>1, <2>3, <2>5, PrintAndAnswer
<1>3. ASSUME NEW c \in Clients, Step(c) PROVE PrintedPast' /\ OwnAnswer'
  <2>1. Returns(c) /\ UNCHANGED answers
    BY <1>3 DEF Step
  <2>2. \A d \in Clients : at'[d] \in Nat /\ at[d] <= at'[d]
    BY <2>1, ClientsOnly
  <2>3. CASE server = "loop" /\ mailbox # <<>>
    <3>1. /\ Take /\ printed' = Append(printed, Head(mailbox).job) /\ UNCHANGED <<server, accepted>>
          /\ Is.shutdown = "flag" /\ Is.runs # "thread" /\ kind = "lua"
          /\ at[c] < Len(Program[kind][c]) /\ at[c] \in Nat /\ doing[c] = "run"
      BY <1>3, <2>3, StepOfLua DEF Step, Makes
    <3>2. PICK m \in Message : m = mailbox[1]
      BY <2>3, <3>1, HeadPrinted
    <3>3. /\ IsJob(m) /\ Head(mailbox) = m
          /\ m.before = Len(printed) /\ Len(printed) < Len(accepted)
      BY <2>3, <3>1, <3>2, HeadPrinted DEF IsJob
    <3>4. 1 \in 1..Len(mailbox)
      BY <2>3, <3>1, Taking
    <3>5. accepted[Len(printed) + 1] = m.job
      BY <3>2, <3>3, <3>4 DEF NoJobLost, MailboxInOrder, AcceptedAs, IsJob
    <3>6. m.job \in Job /\ m.job[1] \in Clients /\ m.job[2] \in Nat /\ m.job[2] >= 1
      BY DEF Message, Job
    <3>7. Sent(m.job)
      BY <3>3, <3>5 DEF CallInv, Typed
    <3>8. m.job[2] <= at[m.job[1]]
      <4>1. CASE m.job[1] = c
        BY <3>1, <3>7, <4>1 DEF Sent
      <4>2. CASE m.job[1] # c
        <5>1. Len(Program[kind][m.job[1]]) = 0
          BY <3>1, <3>6, <4>2, Programs
        <5>2. InACall(m.job[1]) /\ at[m.job[1]] \in Nat
          BY <3>6 DEF AllInCalls, ClientsTyped
        <5> QED BY <3>6, <3>7, <5>1, <5>2 DEF InACall, Sent
      <4> QED BY <4>1, <4>2
    <3>9. m.job[2] <= at'[m.job[1]]
      <4>1. at[m.job[1]] \in Nat
        BY <3>6 DEF ClientsTyped
      <4> QED BY <2>2, <3>6, <3>8, <4>1
    <3> QED BY <2>1, <2>2, <3>1, <3>3, <3>6, <3>9, PastKept, OwnKept
  <2>4. CASE ~(server = "loop" /\ mailbox # <<>>)
    <3>1. UNCHANGED <<printed, answers>>
      BY <1>3, <2>4 DEF Step
    <3> QED BY <2>2, <3>1, PastKept, OwnKept
  <2> QED BY <2>3, <2>4
<1>4. CASE Loop \/ InputEnds \/ Process \/ UNCHANGED vars
  <2>1. UNCHANGED <<printed, answers, at>>
    BY <1>4 DEF Loop, InputEnds, Process, vars, clients
  <2>2. \A d \in Clients : at'[d] \in Nat /\ at[d] <= at'[d]
    BY <2>1, ClientsOnly
  <2> QED BY <2>1, <2>2, PastKept, OwnKept
<1>5. ASSUME Finish PROVE PrintedPast' /\ OwnAnswer'
  <2>1. Busy /\ current \in Message /\ printed' = Append(printed, current.job) /\ Answer(current)
    BY <1>5 DEF Finish, PrintJob, Busy, ServerTyped
  <2>2. PICK m \in Message : m = current
    BY <2>1
  <2>3. /\ IsJob(m) /\ TypeOfCall(m) /\ Len(printed) < Len(accepted)
        /\ accepted[Len(printed) + 1] = m.job
    BY <2>1, <2>2 DEF CurrentCall, NoJobLost, CurrentIsNext, AcceptedAs, IsJob, TypeOfCall, Busy
  <2> QED BY <2>1, <2>2, <2>3, PrintAndAnswer
<1> QED BY <1>1, <1>2, <1>3, <1>4, <1>5 DEF Next, ClientStep, ServerStep, AskResumes

LEMMA StatusNext ==
  TypeOK /\ NoJobLost /\ ServerInv /\ StatusCounts /\ [Next]_vars => StatusCounts'
<1> SUFFICES ASSUME TypeOK, NoJobLost, ServerInv, StatusCounts, [Next]_vars PROVE StatusCounts'
  OBVIOUS
<1>1. CASE UNCHANGED responses
  BY <1>1 DEF StatusCounts
<1>2. CASE ~UNCHANGED responses
  <2>1. Loop
    BY <1>2 DEF Next, vars, clients, ClientStep, ServerStep, Tell, Ask, AskGivesUp, Status, Stop,
                StopReturns, AskResumes, Resume, Step, InputEnds, Process, Finish, TimerFires, Post
  <2>2. /\ mailbox # <<>> /\ Take /\ ~Busy /\ Is.runs = "thread"
        /\ responses' = Append(responses, [count |-> counter, due |-> current'.before])
    BY <1>2, <2>1 DEF Loop, Pending, Busy
  <2>3. Typed /\ ServerTyped /\ responses \in Seq([count : Nat, due : Nat])
    BY Types, TypeParts DEF RestTyped
  <2>4. current' = mailbox[1] /\ mailbox[1].before = Len(printed) /\ Len(printed) \in Nat
    BY <2>2, <2>3, Taking, HeadIsNext DEF Typed
  <2>5. counter = Len(printed)
    BY <2>2 DEF ServerInv
  <2> DEFINE r == [count |-> counter, due |-> current'.before]
  <2>6. r \in [count : Nat, due : Nat] /\ r.count = r.due
    BY <2>4, <2>5
  <2>7. responses' = Append(responses, r)
    BY <2>2
  <2> HIDE DEF r
  <2>8. /\ Len(responses) \in Nat /\ Len(responses') = Len(responses) + 1
        /\ responses'[Len(responses) + 1] = r
        /\ \A i \in 1..Len(responses) : responses'[i] = responses[i]
    BY <2>3, <2>6, <2>7, Appended
  <2> SUFFICES ASSUME NEW i \in 1..Len(responses') PROVE responses'[i].count = responses'[i].due
    BY DEF StatusCounts
  <2>9. CASE i = Len(responses) + 1
    BY <2>6, <2>8, <2>9
  <2>10. CASE i \in 1..Len(responses)
    BY <2>8, <2>10 DEF StatusCounts
  <2> QED BY <2>8, <2>9, <2>10
<1> QED BY <1>1, <1>2

--------------------------------------------------------------------------------
(* The theorems.                                                            *)
Together == IInv /\ StopInItsPlace /\ PrintedPast /\ OwnAnswer /\ StatusCounts

LEMMA Initially == Init => Together
<1> SUFFICES ASSUME Init PROVE Together
  OBVIOUS
<1>1. kind \in Kinds /\ Is.runs \in {"thread", "resumed", "timers"}
  BY Languages DEF Init
<1>2. TypeOK
  BY DEF Init, TypeOK, NotYet
<1>3. NoJobLost
  BY DEF Init, NoJobLost, PrintedInOrder, CurrentIsNext, MailboxInOrder, AllInMailbox, Taken
<1>4. CallInv
  BY <1>1, Programs DEF Init, CallInv
<1>5. ServerInv
  BY DEF Init, ServerInv
<1>6. StopInv /\ StopInItsPlace
  BY DEF Init, StopInv, StopInItsPlace
<1>7. PrintedPast /\ OwnAnswer /\ StatusCounts
  BY DEF Init, PrintedPast, OwnAnswer, StatusCounts
<1> QED BY <1>2, <1>3, <1>4, <1>5, <1>6, <1>7 DEF Together, IInv

LEMMA AllTogether == Spec => []Together
<1>1. Together /\ [Next]_vars => Together'
  BY TypeNext, NoJobLostNext, CallNext, ServerNext, StopNext, RightNext, StatusNext
  DEF Together, IInv
<1> QED BY Initially, <1>1, PTL DEF Spec

(* In every reachable state what has been accepted is printed, being        *)
(* printed or in the mailbox, in order and once.                            *)
THEOREM Invariance == Spec => []IInv
<1>1. Together => IInv
  BY DEF Together
<1> QED BY <1>1, AllTogether, PTL

(* The shutdown takes effect at its place among the jobs.                   *)
THEOREM ShutdownInOrder == Spec => []StopInItsPlace
<1>1. Together => StopInItsPlace
  BY DEF Together
<1> QED BY <1>1, AllTogether, PTL

(* Who asks gets the answer to what he asked and nobody is forgotten; a     *)
(* status response counts the jobs sent before it.                          *)
THEOREM AnswersAreRight == Spec => []RightAnswers
<1>1. Together => RightAnswers
  BY PastForgotten DEF Together, IInv, RightAnswers
<1> QED BY <1>1, AllTogether, PTL

(* A step of a server is a step of the queue that all of them promise.      *)
LEMMA StepOfTheQueue == Together /\ [Next]_vars => [Queue!Next]_(Queue!vars)
<1> SUFFICES ASSUME Together, [Next]_vars PROVE [Queue!Next]_(Queue!vars)
  OBVIOUS
<1>0. /\ TypeOK /\ NoJobLost /\ CallInv /\ ServerInv /\ kind \in Kinds /\ ServerTyped
      /\ Typed /\ Len(printed) \in Nat /\ Len(accepted) \in Nat
  BY TypeParts, Types DEF Together, IInv, Typed
<1> USE <1>0
<1> DEFINE Ended == server = "ended"
<1>1. ASSUME UNCHANGED <<accepted, printed>>, Ended => Ended' PROVE [Queue!Next]_(Queue!vars)
  BY <1>1 DEF Queue!Next, Queue!End, Queue!vars
<1>2. ASSUME NEW m \in Message, accepted[Len(printed) + 1] = m.job, Len(printed) < Len(accepted),
             printed' = Append(printed, m.job), UNCHANGED accepted, ~Ended, ~Ended'
      PROVE  [Queue!Next]_(Queue!vars)
  BY <1>2 DEF Queue!Next, Queue!PrintJob
<1>3. ASSUME NEW c \in Clients, NEW type \in {"tell", "ask"}, Makes(c, type),
             Post(ThisMessage(c, type))
      PROVE [Queue!Next]_(Queue!vars)
  <2>1. ThisMessage(c, type).job \in Job
    BY <1>3, ThisIsAMessage DEF Makes
  <2>2. \/ UNCHANGED <<accepted, printed, server>>
        \/ /\ accepted' = Append(accepted, ThisMessage(c, type).job) /\ printed' = printed
           /\ Ended' = Ended
    BY <1>3 DEF Post
  <2> QED BY <1>1, <2>1, <2>2 DEF Queue!Next, Queue!Accept
<1>4. ASSUME NEW c \in Clients, Tell(c) \/ Ask(c) PROVE [Queue!Next]_(Queue!vars)
  BY <1>3, <1>4 DEF Tell, Ask
<1>5. ASSUME NEW c \in Clients, AskGivesUp(c) \/ Status(c) \/ Stop(c) \/ StopReturns(c)
      PROVE [Queue!Next]_(Queue!vars)
  BY <1>1, <1>5 DEF AskGivesUp, Status, Stop, StopReturns
<1>6. CASE Loop \/ InputEnds \/ Process \/ UNCHANGED vars
  BY <1>1, <1>6 DEF Loop, InputEnds, Process, vars
<1>7. ASSUME mailbox # <<>>, Take, Is.shutdown = "flag", Is.runs # "thread", ~Ended,
             printed' = Append(printed, Head(mailbox).job), UNCHANGED <<server, accepted>>
      PROVE [Queue!Next]_(Queue!vars)
  <2>1. /\ IsJob(mailbox[1]) /\ mailbox[1] \in Message /\ Head(mailbox) = mailbox[1]
        /\ mailbox[1].before = Len(printed) /\ Len(printed) < Len(accepted)
    BY <1>7, HeadPrinted
  <2>2. 1 \in 1..Len(mailbox)
    BY <1>7, Taking
  <2>3. accepted[Len(printed) + 1] = mailbox[1].job
    BY <2>1, <2>2 DEF NoJobLost, MailboxInOrder, AcceptedAs, IsJob
  <2> QED BY <1>2, <1>7, <2>1, <2>3
<1>8. ASSUME Resume \/ TimerFires PROVE [Queue!Next]_(Queue!vars)
  BY <1>7, <1>8, Languages DEF Resume, TimerFires, PrintJob, ServerInv
<1>9. ASSUME NEW c \in Clients, Step(c) PROVE [Queue!Next]_(Queue!vars)
  <2>1. Is.shutdown = "flag" /\ Is.runs # "thread"
    BY <1>9, StepOfLua
  <2>2. CASE server = "loop" /\ mailbox # <<>>
    BY <1>7, <1>9, <2>1, <2>2 DEF Step
  <2>3. CASE ~(server = "loop" /\ mailbox # <<>>)
    BY <1>1, <1>9, <2>3 DEF Step
  <2> QED BY <2>2, <2>3
<1>10. ASSUME Finish PROVE [Queue!Next]_(Queue!vars)
  <2>1. /\ current \in Message /\ printed' = Append(printed, current.job) /\ UNCHANGED accepted
        /\ ~Ended /\ ~Ended'
    BY <1>10 DEF Finish, PrintJob, Busy, ServerTyped
  <2>2. accepted[Len(printed) + 1] = current.job /\ Len(printed) < Len(accepted)
    BY <1>10 DEF Finish, NoJobLost, CurrentIsNext, AcceptedAs
  <2> QED BY <1>2, <2>1, <2>2
<1> QED BY <1>4, <1>5, <1>6, <1>8, <1>9, <1>10 DEF Next, ClientStep, ServerStep, AskResumes

(* Each of the ten servers is the queue: jobs are printed in the order of   *)
(* their acceptance, once, and none after the end.                          *)
THEOREM EveryServerIsAQueue == Spec => IsPrintQueue
<1>1. Init => Queue!Init
  BY DEF Init, Queue!Init
<1> QED BY <1>1, StepOfTheQueue, AllTogether, PTL DEF Spec, Queue!Spec, IsPrintQueue
================================================================================
