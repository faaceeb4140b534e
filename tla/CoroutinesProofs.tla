---------------------------- MODULE CoroutinesProofs ----------------------------
(****************************************************************************)
(* Theorems about Coroutines, for any number of coroutines and any number   *)
(* of suspensions of each, and about Continuations, for any programs of its *)
(* kinds, any inputs and any limit of the stack.                            *)
(****************************************************************************)
EXTENDS Coroutines, Continuations, SequenceTheorems, WellFoundedInduction, TLAPS

--------------------------------------------------------------------------------
(* The queue of Scheduler, as positions.                                    *)
LEMMA OrderIs ==
  /\ Order \in Seq(Coros) /\ Count \in Nat /\ Count > 1 /\ DOMAIN Order = 1..Count
  /\ \A i \in 1..Count : Order[i] \in Coros
  /\ \A c \in Coros : \E i \in 1..Count : Order[i] = c
  /\ \A i, j \in 1..Count : Order[i] = Order[j] => i = j
  /\ Rotator \in Coros /\ Order[1] = Rotator
BY CoroutinesAssumption DEF Count, Coros, Range, IsInjective

LEMMA Places ==
  ASSUME NEW q \in Seq(Coros)
  PROVE  /\ Len(q) \in Nat /\ q \in [1..Len(q) -> Coros]
         /\ (q # <<>>) <=> (Len(q) > 0)
BY DEF Range

LEMMA RangeIs ==
  ASSUME NEW n \in Nat, NEW q \in [1..n -> Coros]
  PROVE  Range(q) = {q[i] : i \in 1..n}
BY DEF Range

LEMMA Beheaded ==
  ASSUME NEW q \in Seq(Coros), q # <<>>
  PROVE  /\ Tail(q) \in Seq(Coros) /\ Len(Tail(q)) = Len(q) - 1 /\ Head(q) = q[1]
         /\ \A i \in 1..(Len(q) - 1) : Tail(q)[i] = q[i + 1]
OBVIOUS

LEMMA Turned ==
  ASSUME NEW q \in Seq(Coros), q # <<>>
  PROVE  LET r == Append(Tail(q), Head(q)) IN
         /\ r \in Seq(Coros) /\ Len(r) = Len(q)
         /\ \A i \in 1..Len(q) : r[i] = IF i < Len(q) THEN q[i + 1] ELSE q[1]
<1> DEFINE t == Tail(q)
<1>1. /\ t \in Seq(Coros) /\ Len(t) = Len(q) - 1 /\ Head(q) = q[1] /\ q[1] \in Coros
      /\ \A i \in 1..(Len(q) - 1) : t[i] = q[i + 1]
  BY Beheaded
<1> HIDE DEF t
<1>2. Len(q) \in Nat /\ Len(q) > 0
  OBVIOUS
<1>3. /\ Append(t, q[1]) \in Seq(Coros) /\ Len(Append(t, q[1])) = Len(t) + 1
      /\ \A i \in 1..(Len(t) + 1) : Append(t, q[1])[i] = IF i <= Len(t) THEN t[i] ELSE q[1]
  BY <1>1
<1>4. \A i \in 1..Len(q) : Append(t, q[1])[i] = IF i < Len(q) THEN q[i + 1] ELSE q[1]
  BY <1>1, <1>2, <1>3
<1>5. Len(Append(t, q[1])) = Len(q)
  BY <1>1, <1>2, <1>3
<1> QED BY <1>1, <1>3, <1>4, <1>5 DEF t

LEMMA Rotated ==
  ASSUME NEW q \in Seq(Coros), Len(q) > 1
  PROVE  LET o == Tail(q)  r == Append(Append(Tail(o), Head(o)), Head(q)) IN
         /\ r \in Seq(Coros) /\ Len(r) = Len(q)
         /\ \A i \in 1..Len(q) : r[i] = IF i < Len(q) - 1 THEN q[i + 2]
                                        ELSE IF i = Len(q) - 1 THEN q[2] ELSE q[1]
<1> DEFINE o == Tail(q)
           u == Append(Tail(o), Head(o))
<1>1. /\ o \in Seq(Coros) /\ Len(o) = Len(q) - 1 /\ Head(q) = q[1] /\ q[1] \in Coros
      /\ \A i \in 1..(Len(q) - 1) : o[i] = q[i + 1]
  BY Beheaded
<1> HIDE DEF o
<1>2. Len(q) \in Nat /\ o # <<>>
  BY <1>1
<1>3. /\ u \in Seq(Coros) /\ Len(u) = Len(o)
      /\ \A i \in 1..Len(o) : u[i] = IF i < Len(o) THEN o[i + 1] ELSE o[1]
  BY <1>1, <1>2, Turned
<1> HIDE DEF u
<1>4. /\ Append(u, q[1]) \in Seq(Coros) /\ Len(Append(u, q[1])) = Len(u) + 1
      /\ \A i \in 1..(Len(u) + 1) : Append(u, q[1])[i] = IF i <= Len(u) THEN u[i] ELSE q[1]
  BY <1>1, <1>3
<1>5. \A i \in 1..Len(q) : Append(u, q[1])[i] = IF i < Len(q) - 1 THEN q[i + 2]
                                                ELSE IF i = Len(q) - 1 THEN q[2] ELSE q[1]
  <2> SUFFICES ASSUME NEW i \in 1..Len(q)
               PROVE  Append(u, q[1])[i] = IF i < Len(q) - 1 THEN q[i + 2]
                                           ELSE IF i = Len(q) - 1 THEN q[2] ELSE q[1]
    OBVIOUS
  <2>1. CASE i < Len(q) - 1
    <3>1. Append(u, q[1])[i] = u[i] /\ u[i] = o[i + 1]
      BY <1>1, <1>2, <1>3, <1>4, <2>1
    <3>2. o[i + 1] = q[i + 2]
      BY <1>1, <1>2, <2>1
    <3> QED BY <2>1, <3>1, <3>2
  <2>2. CASE i = Len(q) - 1
    BY <1>1, <1>2, <1>3, <1>4, <2>2
  <2>3. CASE i = Len(q)
    BY <1>1, <1>2, <1>3, <1>4, <2>3
  <2>4. i < Len(q) - 1 \/ i = Len(q) - 1 \/ i = Len(q)
    BY <1>2
  <2> QED BY <2>1, <2>2, <2>3, <2>4, Zenon
<1>6. Len(Append(u, q[1])) = Len(q)
  BY <1>1, <1>2, <1>3, <1>4
<1> QED BY <1>1, <1>4, <1>5, <1>6 DEF o, u

--------------------------------------------------------------------------------
(* A turn keeps the round: of a coroutine that ends, of one that suspends,  *)
(* and of the one that moves another to the end.                            *)
LEMMA RoundPlaces ==
  ASSUME NEW n \in Nat, NEW q \in [1..n -> Coros], NEW s
  PROVE  InRound(q, s) <=>
         /\ \A i, j \in 1..n : q[i] = q[j] => i = j
         /\ \A i, j \in 1..n : i <= j => s[q[i]] <= s[q[j]] /\ s[q[j]] <= s[q[i]] + 1
         /\ \A i, j \in 1..n : q[i] = Rotator =>
              s[q[j]] = IF j < i THEN s[Rotator] - 1 ELSE s[Rotator]
<1>1. DOMAIN q = 1..n
  OBVIOUS
<1> QED BY <1>1, Zenon DEF InRound, IsInjective

(* A queue of n and the steps made, before and after a step of the first.   *)
FirstSteps(n, q, s, s2) ==
  /\ n \in Nat /\ n > 0 /\ q \in [1..n -> Coros] /\ s \in [Coros -> Nat] /\ InRound(q, s)
  /\ s2 \in [Coros -> Nat] /\ s2[q[1]] = s[q[1]] + 1
  /\ \A c \in Coros : c # q[1] => s2[c] = s[c]
Leaves(n, q, r) == r \in [1..(n - 1) -> Coros] /\ \A i \in 1..(n - 1) : r[i] = q[i + 1]
Turns(n, q, r) == r \in [1..n -> Coros] /\ \A i \in 1..n : r[i] = IF i < n THEN q[i + 1] ELSE q[1]
Rotates(n, q, r) == r \in [1..n -> Coros] /\ \A i \in 1..n :
  r[i] = IF i < n - 1 THEN q[i + 2] ELSE IF i = n - 1 THEN q[2] ELSE q[1]

LEMMA LastKeepsRound ==
  ASSUME NEW n, NEW q, NEW s, NEW r, NEW s2, FirstSteps(n, q, s, s2), Leaves(n, q, r)
  PROVE  InRound(r, s2) /\ Range(r) = Range(q) \ {q[1]}
<1> USE DEF FirstSteps, Leaves
<1> DEFINE m == n - 1
<1>1. m \in Nat
  OBVIOUS
<1>2. q[1] \in Coros /\ 1 \in 1..n /\ \A i \in 1..n : q[i] \in Coros
  OBVIOUS
<1>3. /\ \A i, j \in 1..n : q[i] = q[j] => i = j
      /\ \A i, j \in 1..n : i <= j => s[q[i]] <= s[q[j]] /\ s[q[j]] <= s[q[i]] + 1
      /\ \A i, j \in 1..n : q[i] = Rotator =>
           s[q[j]] = IF j < i THEN s[Rotator] - 1 ELSE s[Rotator]
  <2>d. DOMAIN q = 1..n
    OBVIOUS
  <2> QED BY <2>d, Zenon DEF InRound, IsInjective
<1>4. \A i \in 1..m : i + 1 \in 1..n /\ r[i] = q[i + 1] /\ r[i] # q[1] /\ s2[r[i]] = s[r[i]]
  <2> SUFFICES ASSUME NEW i \in 1..m
               PROVE  i + 1 \in 1..n /\ r[i] = q[i + 1] /\ r[i] # q[1] /\ s2[r[i]] = s[r[i]]
    OBVIOUS
  <2>1. i + 1 \in 1..n /\ i + 1 # 1
    OBVIOUS
  <2> QED BY <1>2, <1>3, <2>1
<1>5. \A i, j \in 1..m : r[i] = r[j] => i = j
  BY <1>1, <1>2, <1>3, <1>4
<1>6. \A i, j \in 1..m : i <= j => s2[r[i]] <= s2[r[j]] /\ s2[r[j]] <= s2[r[i]] + 1
  <2> SUFFICES ASSUME NEW i \in 1..m, NEW j \in 1..m, i <= j
               PROVE  s2[r[i]] <= s2[r[j]] /\ s2[r[j]] <= s2[r[i]] + 1
    OBVIOUS
  <2>1. i + 1 \in 1..n /\ j + 1 \in 1..n /\ i + 1 <= j + 1
    BY <1>4
  <2>2. s[q[i + 1]] <= s[q[j + 1]] /\ s[q[j + 1]] <= s[q[i + 1]] + 1
    BY <1>3, <2>1
  <2> QED BY <1>4, <2>2
<1>7. \A i, j \in 1..m : r[i] = Rotator =>
        s2[r[j]] = IF j < i THEN s2[Rotator] - 1 ELSE s2[Rotator]
  <2> SUFFICES ASSUME NEW i \in 1..m, NEW j \in 1..m, r[i] = Rotator
               PROVE  s2[r[j]] = IF j < i THEN s2[Rotator] - 1 ELSE s2[Rotator]
    OBVIOUS
  <2>1. i + 1 \in 1..n /\ j + 1 \in 1..n /\ (j + 1 < i + 1 <=> j < i)
    BY <1>4
  <2>2. q[i + 1] = Rotator /\ s2[Rotator] = s[Rotator] /\ s2[r[j]] = s[q[j + 1]]
    BY <1>4
  <2>3. s[q[j + 1]] = IF j + 1 < i + 1 THEN s[Rotator] - 1 ELSE s[Rotator]
    BY <1>3, <2>1, <2>2
  <2> QED BY <2>1, <2>2, <2>3
<1>8. InRound(r, s2)
  <2>1. DOMAIN r = 1..m
    OBVIOUS
  <2> QED BY <2>1, <1>5, <1>6, <1>7, Zenon DEF InRound, IsInjective
<1>9. Range(r) = Range(q) \ {q[1]}
  <2>1. Range(r) = {r[i] : i \in 1..m} /\ Range(q) = {q[i] : i \in 1..n}
    BY <1>1, RangeIs
  <2>2. ASSUME NEW c \in Range(r) PROVE c \in Range(q) \ {q[1]}
    BY <1>4, <2>1
  <2>3. ASSUME NEW c \in Range(q), c # q[1] PROVE c \in Range(r)
    <3>1. PICK i \in 1..n : c = q[i]
      BY <2>1
    <3>2. i - 1 \in 1..m /\ r[i - 1] = q[i]
      BY <1>1, <1>2, <2>3, <3>1
    <3> QED BY <2>1, <3>1, <3>2
  <2> QED BY <2>2, <2>3
<1> QED BY <1>8, <1>9

LEMMA TurnKeepsRound ==
  ASSUME NEW n, NEW q, NEW s, NEW r, NEW s2, FirstSteps(n, q, s, s2), Turns(n, q, r),
         q[1] # Rotator
  PROVE  InRound(r, s2) /\ Range(r) = Range(q)
<1> USE DEF FirstSteps, Turns
<1>1. n \in Nat /\ n > 0 /\ \A i \in 1..n : q[i] \in Coros
  OBVIOUS
<1>2. /\ \A i, j \in 1..n : q[i] = q[j] => i = j
      /\ \A i, j \in 1..n : i <= j => s[q[i]] <= s[q[j]] /\ s[q[j]] <= s[q[i]] + 1
      /\ \A i, j \in 1..n : q[i] = Rotator =>
           s[q[j]] = IF j < i THEN s[Rotator] - 1 ELSE s[Rotator]
  <2>d. DOMAIN q = 1..n
    OBVIOUS
  <2> QED BY <2>d, Zenon DEF InRound, IsInjective
<1>3. \A i \in 1..n : i < n => i + 1 \in 1..n /\ r[i] = q[i + 1] /\ r[i] # q[1] /\ s2[r[i]] = s[q[i + 1]]
  BY <1>1, <1>2
<1>4. r[n] = q[1] /\ s2[q[1]] = s[q[1]] + 1 /\ s[q[1]] \in Nat
  BY <1>1
<1>5. n \in 1..n /\ 1 \in 1..n
  BY <1>1
<1>t. \A i \in 1..n : s[q[i]] \in Nat
  BY <1>1
<1>6. \A i, j \in 1..n : r[i] = r[j] => i = j
  <2> SUFFICES ASSUME NEW i \in 1..n, NEW j \in 1..n, r[i] = r[j] PROVE i = j
    OBVIOUS
  <2>1. CASE i < n /\ j < n
    BY <1>2, <1>3, <2>1
  <2>2. CASE i = n \/ j = n
    <3>1. ~(i < n) /\ ~(j < n)
      BY <1>3, <1>4, <1>5, <2>2
    <3> QED BY <1>1, <3>1
  <2> QED BY <1>1, <2>1, <2>2
<1>7. \A i, j \in 1..n : i <= j => s2[r[i]] <= s2[r[j]] /\ s2[r[j]] <= s2[r[i]] + 1
  <2> SUFFICES ASSUME NEW i \in 1..n, NEW j \in 1..n, i <= j
               PROVE  s2[r[i]] <= s2[r[j]] /\ s2[r[j]] <= s2[r[i]] + 1
    OBVIOUS
  <2>1. CASE j < n
    <3>1. i < n /\ j < n /\ i + 1 <= j + 1
      BY <1>1, <2>1
    <3>2. s[q[i + 1]] <= s[q[j + 1]] /\ s[q[j + 1]] <= s[q[i + 1]] + 1
      BY <1>2, <1>3, <3>1
    <3> QED BY <1>3, <3>1, <3>2
  <2>2. CASE j = n /\ i < n
    <3>1. s[q[1]] <= s[q[i + 1]] /\ s[q[i + 1]] <= s[q[1]] + 1 /\ i + 1 \in 1..n
      <4>1. i + 1 \in 1..n /\ 1 <= i + 1
        BY <1>3, <2>2
      <4> QED BY <1>2, <1>5, <4>1
    <3>2. s2[r[i]] = s[q[i + 1]] /\ s2[r[j]] = s[q[1]] + 1
      BY <1>3, <1>4, <2>2
    <3>3. s[q[i + 1]] \in Nat
      BY <1>t, <3>1
    <3> HIDE DEF FirstSteps, Turns
    <3> QED BY <1>4, <3>1, <3>2, <3>3
  <2>3. CASE j = n /\ i = n
    BY <1>4, <2>3
  <2> QED BY <1>1, <2>1, <2>2, <2>3
<1>8. \A i, j \in 1..n : r[i] = Rotator =>
        s2[r[j]] = IF j < i THEN s2[Rotator] - 1 ELSE s2[Rotator]
  <2> SUFFICES ASSUME NEW i \in 1..n, NEW j \in 1..n, r[i] = Rotator
               PROVE  s2[r[j]] = IF j < i THEN s2[Rotator] - 1 ELSE s2[Rotator]
    OBVIOUS
  <2>1. i < n
    BY <1>1, <1>4
  <2>2. i + 1 \in 1..n /\ q[i + 1] = Rotator /\ s2[Rotator] = s[Rotator]
    BY <1>3, <2>1
  <2>3. s[Rotator] \in Nat
    BY OrderIs
  <2>4. CASE j < n
    <3>1. j + 1 \in 1..n /\ s2[r[j]] = s[q[j + 1]] /\ (j + 1 < i + 1 <=> j < i)
      BY <1>3, <2>4
    <3>2. s[q[j + 1]] = IF j + 1 < i + 1 THEN s[Rotator] - 1 ELSE s[Rotator]
      BY <1>2, <2>2, <3>1
    <3> QED BY <2>2, <3>1, <3>2
  <2>5. CASE j = n
    <3>1. s[q[1]] = s[Rotator] - 1
      <4>1. 1 < i + 1
        BY <1>1
      <4> QED BY <1>2, <1>5, <2>2, <4>1
    <3>2. ~(j < i)
      BY <1>1, <2>5
    <3> QED BY <1>4, <2>2, <2>3, <2>5, <3>1, <3>2
  <2> QED BY <1>1, <2>4, <2>5
<1>9. InRound(r, s2)
  <2>1. DOMAIN r = 1..n
    OBVIOUS
  <2> QED BY <2>1, <1>6, <1>7, <1>8, Zenon DEF InRound, IsInjective
<1>10. Range(r) = Range(q)
  <2>1. Range(r) = {r[i] : i \in 1..n} /\ Range(q) = {q[i] : i \in 1..n}
    BY RangeIs
  <2>2. ASSUME NEW i \in 1..n PROVE r[i] \in Range(q)
    <3>1. CASE i < n
      <4>1. i + 1 \in 1..n /\ r[i] = q[i + 1]
        BY <1>3, <3>1
      <4> QED BY <2>1, <4>1
    <3>2. CASE i = n
      BY <1>4, <1>5, <2>1, <3>2
    <3> QED BY <1>1, <3>1, <3>2
  <2>3. ASSUME NEW i \in 1..n PROVE q[i] \in Range(r)
    <3>1. CASE i = 1
      BY <1>4, <1>5, <2>1, <3>1
    <3>2. CASE i # 1
      <4>1. i - 1 \in 1..n /\ i - 1 < n /\ (i - 1) + 1 = i
        BY <1>1, <3>2
      <4>2. r[i - 1] = q[(i - 1) + 1]
        BY <1>3, <4>1
      <4> QED BY <2>1, <4>1, <4>2
    <3> QED BY <3>1, <3>2
  <2> QED BY <2>1, <2>2, <2>3
<1> QED BY <1>9, <1>10

LEMMA RotationKeepsRound ==
  ASSUME NEW n, NEW q, NEW s, NEW r, NEW s2, FirstSteps(n, q, s, s2), Rotates(n, q, r),
         n > 1, q[1] = Rotator
  PROVE  InRound(r, s2) /\ Range(r) = Range(q)
<1> USE DEF FirstSteps, Rotates
<1>1. n \in Nat /\ n > 1 /\ (\A i \in 1..n : q[i] \in Coros) /\ 1 \in 1..n /\ 2 \in 1..n /\ n \in 1..n
  OBVIOUS
<1>2. /\ \A i, j \in 1..n : q[i] = q[j] => i = j
      /\ \A j \in 1..n : s[q[j]] = s[Rotator]
  <2>d. DOMAIN q = 1..n
    OBVIOUS
  <2>1. /\ \A i, j \in 1..n : q[i] = q[j] => i = j
        /\ \A i, j \in 1..n : i <= j => s[q[i]] <= s[q[j]] /\ s[q[j]] <= s[q[i]] + 1
        /\ \A i, j \in 1..n : q[i] = Rotator =>
             s[q[j]] = IF j < i THEN s[Rotator] - 1 ELSE s[Rotator]
    BY <2>d, Zenon DEF InRound, IsInjective
  <2> QED BY <1>1, <2>1
<1>3. r[n] = q[1] /\ s2[Rotator] = s[Rotator] + 1 /\ s[Rotator] \in Nat
  <2>1. r[n] = q[1]
    BY <1>1
  <2> QED BY <2>1, OrderIs
<1> DEFINE at(i) == IF i < n - 1 THEN i + 2 ELSE IF i = n - 1 THEN 2 ELSE 1
<1>r. \A i \in 1..n : r[i] = IF i < n - 1 THEN q[i + 2] ELSE IF i = n - 1 THEN q[2] ELSE q[1]
  OBVIOUS
<1> HIDE DEF FirstSteps, Rotates
<1>4. \A i \in 1..n : at(i) \in 1..n /\ r[i] = q[at(i)] /\ (i < n <=> at(i) # 1)
  <2> SUFFICES ASSUME NEW i \in 1..n
               PROVE  at(i) \in 1..n /\ r[i] = q[at(i)] /\ (i < n <=> at(i) # 1)
    OBVIOUS
  <2>1. CASE i < n - 1
    BY <1>1, <1>r, <2>1
  <2>2. CASE i = n - 1
    BY <1>1, <1>r, <2>2
  <2>3. CASE i = n
    BY <1>1, <1>r, <2>3
  <2> QED BY <1>1, <2>1, <2>2, <2>3
<1>5. \A i, j \in 1..n : at(i) = at(j) => i = j
  BY <1>1
<1>6. \A i \in 1..n : \E j \in 1..n : at(j) = i
  <2> SUFFICES ASSUME NEW i \in 1..n PROVE \E j \in 1..n : at(j) = i
    OBVIOUS
  <2>1. CASE i = 1
    <3>1. at(n) = 1
      BY <1>1
    <3> QED BY <1>1, <2>1, <3>1
  <2>2. CASE i = 2
    <3>1. n - 1 \in 1..n /\ at(n - 1) = 2
      BY <1>1
    <3> QED BY <2>2, <3>1
  <2>3. CASE i > 2
    <3>1. i - 2 \in 1..n /\ at(i - 2) = i
      BY <1>1, <2>3
    <3> QED BY <3>1
  <2> QED BY <1>1, <2>1, <2>2, <2>3
<1> HIDE DEF at
<1> USE DEF FirstSteps, Rotates
<1>7. \A i \in 1..n : i < n => s2[r[i]] = s[Rotator] /\ r[i] # Rotator
  <2> SUFFICES ASSUME NEW i \in 1..n, i < n PROVE s2[r[i]] = s[Rotator] /\ r[i] # Rotator
    OBVIOUS
  <2>1. at(i) \in 1..n /\ r[i] = q[at(i)] /\ at(i) # 1
    BY <1>4
  <2>2. r[i] \in Coros /\ r[i] # Rotator /\ s[r[i]] = s[Rotator]
    BY <1>1, <1>2, <2>1
  <2> QED BY <2>2
<1>8. \A i, j \in 1..n : r[i] = r[j] => i = j
  BY <1>2, <1>4, <1>5
<1>9. \A i, j \in 1..n : i <= j => s2[r[i]] <= s2[r[j]] /\ s2[r[j]] <= s2[r[i]] + 1
  <2> SUFFICES ASSUME NEW i \in 1..n, NEW j \in 1..n, i <= j
               PROVE  s2[r[i]] <= s2[r[j]] /\ s2[r[j]] <= s2[r[i]] + 1
    OBVIOUS
  <2>1. CASE j < n
    <3>1. i < n
      BY <1>1, <2>1
    <3>2. s2[r[i]] = s[Rotator] /\ s2[r[j]] = s[Rotator]
      BY <1>7, <2>1, <3>1
    <3> QED BY <1>3, <3>2
  <2>2. CASE j = n /\ i < n
    <3>1. s2[r[i]] = s[Rotator] /\ s2[r[j]] = s[Rotator] + 1
      BY <1>3, <1>7, <2>2
    <3> QED BY <1>3, <3>1
  <2>3. CASE i = n /\ j = n
    <3>1. s2[r[i]] = s[Rotator] + 1 /\ s2[r[j]] = s[Rotator] + 1
      BY <1>3, <2>3
    <3> QED BY <1>3, <3>1
  <2> QED BY <1>1, <2>1, <2>2, <2>3
<1>10. \A i, j \in 1..n : r[i] = Rotator =>
        s2[r[j]] = IF j < i THEN s2[Rotator] - 1 ELSE s2[Rotator]
  BY <1>1, <1>3, <1>7
<1>11. InRound(r, s2)
  <2>1. DOMAIN r = 1..n
    OBVIOUS
  <2> QED BY <2>1, <1>8, <1>9, <1>10, Zenon DEF InRound, IsInjective
<1>12. Range(r) = Range(q)
  <2>1. Range(r) = {r[i] : i \in 1..n} /\ Range(q) = {q[i] : i \in 1..n}
    BY RangeIs
  <2>2. ASSUME NEW i \in 1..n PROVE r[i] \in Range(q)
    BY <1>4, <2>1
  <2>3. ASSUME NEW i \in 1..n PROVE q[i] \in Range(r)
    <3>1. PICK j \in 1..n : at(j) = i
      BY <1>6
    <3>2. r[j] = q[i]
      BY <1>4, <3>1
    <3> QED BY <2>1, <3>2
  <2> QED BY <2>1, <2>2, <2>3
<1> QED BY <1>11, <1>12

--------------------------------------------------------------------------------
(* What a step of Scheduler.run finds at the head of the queue.             *)
LEMMA TheHead ==
  ASSUME SchedInv, GreenletsRun
  PROVE  LET h == Head(ready)  n == Len(ready) IN
         /\ n \in Nat /\ n > 0 /\ ready \in [1..n -> Coros] /\ h = ready[1] /\ h \in Coros
         /\ InRound(ready, steps) /\ Range(ready) = Live
         /\ h \in Live
         /\ \A c \in Live : steps[h] <= steps[c] /\ steps[c] <= steps[h] + 1
         /\ h # Rotator /\ Rotator \in Live => steps[h] + 1 = steps[Rotator]
         /\ h = Rotator => \A c \in Live : steps[c] = steps[h]
<1> DEFINE n == Len(ready)
           h == Head(ready)
<1>1. ready \in Seq(Coros) /\ steps \in [Coros -> Nat] /\ ready # <<>> /\ ~raised
  BY DEF SchedInv, SchedTypeOK, GreenletsRun
<1>2. n \in Nat /\ n > 0 /\ ready \in [1..n -> Coros]
  BY <1>1, Places
<1>3. h = ready[1]
  BY <1>1, Beheaded
<1>4. InRound(ready, steps) /\ Range(ready) = Live
  BY <1>1 DEF SchedInv, RoundInv, GreenletsRun
<1> HIDE DEF n, h
<1>5. Live = {ready[i] : i \in 1..n} /\ 1 \in 1..n
  BY <1>2, <1>4, RangeIs
<1>6. h \in Coros /\ h \in Live
  BY <1>2, <1>3, <1>5
<1>7. /\ \A i, j \in 1..n : ready[i] = ready[j] => i = j
      /\ \A i, j \in 1..n : i <= j =>
           steps[ready[i]] <= steps[ready[j]] /\ steps[ready[j]] <= steps[ready[i]] + 1
      /\ \A i, j \in 1..n : ready[i] = Rotator =>
           steps[ready[j]] = IF j < i THEN steps[Rotator] - 1 ELSE steps[Rotator]
  BY <1>2, <1>4, RoundPlaces, Zenon
<1>8. ASSUME NEW c \in Live PROVE steps[h] <= steps[c] /\ steps[c] <= steps[h] + 1
  <2>1. PICK j \in 1..n : c = ready[j]
    BY <1>5
  <2>2. 1 <= j
    OBVIOUS
  <2> QED BY <1>3, <1>5, <1>7, <2>1, <2>2
<1>9. ASSUME h # Rotator, Rotator \in Live PROVE steps[h] + 1 = steps[Rotator]
  <2>1. PICK i \in 1..n : Rotator = ready[i]
    BY <1>5, <1>9
  <2>2. 1 < i
    BY <1>3, <1>9, <2>1
  <2>3. steps[ready[1]] = steps[Rotator] - 1
    BY <1>5, <1>7, <2>1, <2>2
  <2>4. steps[Rotator] \in Nat
    BY <1>1, OrderIs
  <2> QED BY <1>3, <2>3, <2>4
<1>10. ASSUME h = Rotator, NEW c \in Live PROVE steps[c] = steps[h]
  <2>1. PICK j \in 1..n : c = ready[j]
    BY <1>5
  <2>2. ~(j < 1)
    OBVIOUS
  <2> QED BY <1>3, <1>5, <1>7, <1>10, <2>1, <2>2
<1> QED BY <1>2, <1>3, <1>4, <1>6, <1>8, <1>9, <1>10 DEF n, h

(* A step of the greenlets leaves the fallback alone.                       *)
LEMMA GreenletsLeave ==
  ASSUME SchedInv, GreenletsRun, UNCHANGED <<kind, suspends, threads>>,
         steps' \in [Coros -> Nat], \A c \in Coros : steps'[c] <= suspends[c] + 1,
         ready' \in Seq(Coros), raised' \in BOOLEAN
  PROVE  SchedTypeOK' /\ ThreadInv' /\ kind' = "greenlets" /\ pc' = [c \in Coros |-> "new"]
<1>1. kind = "greenlets" /\ kind' = kind /\ pc' = pc /\ suspends' = suspends /\ main' = main
      /\ resume_q' = resume_q /\ sched_q' = sched_q
  BY DEF GreenletsRun, threads
<1>2. SchedTypeOK'
  BY <1>1 DEF SchedInv, SchedTypeOK
<1>3. pc = [c \in Coros |-> "new"]
  BY <1>1 DEF SchedInv, RoundInv
<1> QED BY <1>1, <1>2, <1>3 DEF ThreadInv

LEMMA LastStepInv == ASSUME SchedInv, LastStep PROVE SchedInv'
<1> DEFINE n == Len(ready)
           h == Head(ready)
<1>1. /\ GreenletsRun /\ steps[h] = suspends[h] /\ ready' = Tail(ready)
      /\ steps' = [steps EXCEPT ![h] = @ + 1] /\ raised' = raised /\ suspends' = suspends
      /\ ~raised /\ UNCHANGED <<kind, suspends, threads>>
  BY DEF LastStep, AtLastStep, MakeStep, GreenletsRun
<1>2. /\ n \in Nat /\ n > 0 /\ ready \in [1..n -> Coros] /\ h = ready[1] /\ h \in Coros
      /\ InRound(ready, steps) /\ Range(ready) = Live
      /\ h \in Live
      /\ \A c \in Live : steps[h] <= steps[c] /\ steps[c] <= steps[h] + 1
      /\ h # Rotator /\ Rotator \in Live => steps[h] + 1 = steps[Rotator]
  BY <1>1, TheHead
<1>3. steps \in [Coros -> Nat] /\ suspends \in [Coros -> Nat] /\ ready \in Seq(Coros) /\ ready # <<>>
  BY <1>1, CoroutinesAssumption DEF SchedInv, SchedTypeOK, GreenletsRun
<1>4. /\ ready' \in Seq(Coros) /\ Len(ready') = n - 1
      /\ \A i \in 1..(n - 1) : ready'[i] = ready[i + 1]
  BY <1>1, <1>3, Beheaded
<1>5. ready' \in [1..(n - 1) -> Coros]
  BY <1>4, Places
<1> HIDE DEF n, h
<1>6. /\ steps' \in [Coros -> Nat] /\ steps'[h] = steps[h] + 1
      /\ \A c \in Coros : c # h => steps'[c] = steps[c]
  BY <1>1, <1>2, <1>3
<1>7. InRound(ready', steps') /\ Range(ready') = Range(ready) \ {h}
  <2>1. FirstSteps(n, ready, steps, steps')
    BY <1>2, <1>3, <1>6, Zenon DEF FirstSteps
  <2>2. Leaves(n, ready, ready')
    BY <1>4, <1>5, Zenon DEF Leaves
  <2> QED BY <1>2, <2>1, <2>2, LastKeepsRound, Zenon
<1>8. Live' = Live \ {h}
  BY <1>1, <1>2, <1>3, <1>6 DEF Live
<1>9. /\ SchedTypeOK' /\ ThreadInv' /\ kind' = "greenlets" /\ pc' = [c \in Coros |-> "new"]
  <2>1. \A c \in Coros : steps[c] <= suspends[c] + 1
    BY DEF SchedInv, SchedTypeOK
  <2>2. \A c \in Coros : steps'[c] <= suspends[c] + 1
    BY <1>1, <1>2, <1>3, <1>6, <2>1
  <2> QED BY <1>1, <1>4, <1>6, <2>2, GreenletsLeave DEF SchedInv, SchedTypeOK
<1>10. RoundInv'
  BY <1>1, <1>2, <1>7, <1>8, <1>9 DEF RoundInv
<1>11. AheadInv'
  <2>1. /\ \A c \in Live, d \in Coros : steps[d] <= steps[c] + 1
        /\ Rotator \in Live => \A d \in Coros \ {Rotator} : steps[d] <= steps[Rotator]
        /\ \E d \in Coros \ {Rotator} :
             steps[Rotator] <= suspends[d] + 1 \/ suspends[Rotator] <= suspends[d] + 1
    BY <1>1 DEF SchedInv, AheadInv, GreenletsRun
  <2>2. ASSUME NEW c \in Live', NEW d \in Coros PROVE steps'[d] <= steps'[c] + 1
    <3>1. c \in Coros /\ c \in Live /\ c # h /\ steps'[c] = steps[c]
      BY <1>6, <1>8 DEF Live
    <3>2. CASE d = h
      BY <1>2, <1>3, <1>6, <3>1, <3>2
    <3>3. CASE d # h
      BY <1>6, <2>1, <3>1, <3>3
    <3> QED BY <3>2, <3>3
  <2>3. ASSUME Rotator \in Live', NEW d \in Coros \ {Rotator} PROVE steps'[d] <= steps'[Rotator]
    <3>1. Rotator \in Live /\ h # Rotator /\ steps'[Rotator] = steps[Rotator]
      BY <1>6, <1>8, <2>3, OrderIs
    <3>2. CASE d = h
      BY <1>2, <1>3, <1>6, <3>1, <3>2, OrderIs
    <3>3. CASE d # h
      BY <1>6, <2>1, <3>1, <3>3
    <3> QED BY <3>2, <3>3
  <2>4. PICK d \in Coros \ {Rotator} :
          steps[Rotator] <= suspends[d] + 1 \/ suspends[Rotator] <= suspends[d] + 1
    BY <2>1
  <2>5. steps'[Rotator] <= suspends[d] + 1 \/ suspends[Rotator] <= suspends[d] + 1
    BY <1>1, <1>6, <2>4, OrderIs
  <2> QED BY <1>1, <1>9, <2>2, <2>3, <2>5 DEF AheadInv
<1> QED BY <1>9, <1>10, <1>11 DEF SchedInv

LEMMA StepAndSwitchInv == ASSUME SchedInv, StepAndSwitch PROVE SchedInv'
<1> DEFINE n == Len(ready)
           h == Head(ready)
<1>1. /\ GreenletsRun /\ steps[h] # suspends[h] /\ ready' = Append(Tail(ready), h) /\ h # Rotator
      /\ steps' = [steps EXCEPT ![h] = @ + 1] /\ raised' = raised /\ suspends' = suspends
      /\ ~raised /\ UNCHANGED <<kind, suspends, threads>>
  BY DEF StepAndSwitch, AtLastStep, MakeStep, GreenletsRun, Requeue
<1>2. /\ n \in Nat /\ n > 0 /\ ready \in [1..n -> Coros] /\ h = ready[1] /\ h \in Coros
      /\ InRound(ready, steps) /\ Range(ready) = Live
      /\ h \in Live
      /\ \A c \in Live : steps[h] <= steps[c] /\ steps[c] <= steps[h] + 1
      /\ Rotator \in Live => steps[h] + 1 = steps[Rotator]
  BY <1>1, TheHead
<1>3. steps \in [Coros -> Nat] /\ suspends \in [Coros -> Nat] /\ ready \in Seq(Coros) /\ ready # <<>>
  BY <1>1, CoroutinesAssumption DEF SchedInv, SchedTypeOK, GreenletsRun
<1>4. /\ ready' \in Seq(Coros) /\ Len(ready') = n
      /\ \A i \in 1..n : ready'[i] = IF i < n THEN ready[i + 1] ELSE ready[1]
  BY <1>1, <1>3, Turned
<1>5. ready' \in [1..n -> Coros]
  BY <1>4, Places
<1> HIDE DEF n, h
<1>6. /\ steps' \in [Coros -> Nat] /\ steps'[h] = steps[h] + 1
      /\ \A c \in Coros : c # h => steps'[c] = steps[c]
  BY <1>1, <1>2, <1>3
<1>7. InRound(ready', steps') /\ Range(ready') = Range(ready)
  <2>1. FirstSteps(n, ready, steps, steps')
    BY <1>2, <1>3, <1>6, Zenon DEF FirstSteps
  <2>2. Turns(n, ready, ready')
    BY <1>4, <1>5, Zenon DEF Turns
  <2>3. ready[1] # Rotator
    BY <1>1, <1>2, Zenon
  <2> QED BY <2>1, <2>2, <2>3, TurnKeepsRound, Zenon
<1>8. Live' = Live /\ steps[h] < suspends[h]
  BY <1>1, <1>2, <1>3, <1>6 DEF Live
<1>9. /\ SchedTypeOK' /\ ThreadInv' /\ kind' = "greenlets" /\ pc' = [c \in Coros |-> "new"]
  <2>1. \A c \in Coros : steps[c] <= suspends[c] + 1
    BY DEF SchedInv, SchedTypeOK
  <2>2. \A c \in Coros : steps'[c] <= suspends[c] + 1
    BY <1>1, <1>2, <1>3, <1>6, <1>8, <2>1
  <2> QED BY <1>1, <1>4, <1>6, <2>2, GreenletsLeave DEF SchedInv, SchedTypeOK
<1>10. RoundInv'
  BY <1>1, <1>2, <1>7, <1>8, <1>9 DEF RoundInv
<1>11. AheadInv'
  <2>1. /\ \A c \in Live, d \in Coros : steps[d] <= steps[c] + 1
        /\ Rotator \in Live => \A d \in Coros \ {Rotator} : steps[d] <= steps[Rotator]
        /\ \E d \in Coros \ {Rotator} :
             steps[Rotator] <= suspends[d] + 1 \/ suspends[Rotator] <= suspends[d] + 1
    BY <1>1 DEF SchedInv, AheadInv, GreenletsRun
  <2>2. ASSUME NEW c \in Live', NEW d \in Coros PROVE steps'[d] <= steps'[c] + 1
    <3>0. c \in Coros /\ c \in Live
      BY <1>8 DEF Live
    <3>1. steps[c] <= steps'[c] /\ steps[c] \in Nat /\ steps'[c] \in Nat
      <4>1. steps[c] \in Nat /\ (steps'[c] = steps[c] \/ steps'[c] = steps[c] + 1)
        <5>1. CASE c = h
          BY <1>3, <1>6, <3>0, <5>1
        <5>2. CASE c # h
          BY <1>3, <1>6, <3>0, <5>2
        <5> QED BY <5>1, <5>2
      <4> QED BY <4>1
    <3>2. CASE d = h
      BY <1>2, <1>3, <1>6, <3>0, <3>1, <3>2
    <3>3. CASE d # h
      BY <1>3, <1>6, <2>1, <3>0, <3>1, <3>3
    <3> QED BY <3>2, <3>3
  <2>3. ASSUME Rotator \in Live', NEW d \in Coros \ {Rotator} PROVE steps'[d] <= steps'[Rotator]
    <3>1. Rotator \in Live /\ steps'[Rotator] = steps[Rotator]
      BY <1>1, <1>6, <1>8, <2>3, OrderIs
    <3>2. CASE d = h
      BY <1>2, <1>3, <1>6, <3>1, <3>2, OrderIs
    <3>3. CASE d # h
      BY <1>6, <2>1, <3>1, <3>3
    <3> QED BY <3>2, <3>3
  <2>4. steps'[Rotator] = steps[Rotator]
    BY <1>1, <1>6, OrderIs
  <2> QED BY <1>1, <1>9, <2>1, <2>2, <2>3, <2>4 DEF AheadInv
<1> QED BY <1>9, <1>10, <1>11 DEF SchedInv

LEMMA RotateAndSwitchInv == ASSUME SchedInv, RotateAndSwitch PROVE SchedInv'
<1> DEFINE n == Len(ready)
           others == Tail(ready)
<1>1. /\ GreenletsRun /\ steps[Rotator] # suspends[Rotator] /\ Head(ready) = Rotator
      /\ steps' = [steps EXCEPT ![Rotator] = @ + 1] /\ suspends' = suspends
      /\ raised' = (others = <<>>)
      /\ ready' = IF others = <<>> THEN others
                  ELSE Append(Append(Tail(others), Head(others)), Rotator)
      /\ ~raised /\ UNCHANGED <<kind, suspends, threads>>
  BY DEF RotateAndSwitch, AtLastStep, MakeStep, GreenletsRun, Requeue
<1>2. /\ n \in Nat /\ n > 0 /\ ready \in [1..n -> Coros] /\ ready[1] = Rotator
      /\ InRound(ready, steps) /\ Range(ready) = Live
      /\ Rotator \in Live /\ Rotator \in Coros
      /\ \A c \in Live : steps[c] = steps[Rotator]
  BY <1>1, TheHead
<1>3. steps \in [Coros -> Nat] /\ suspends \in [Coros -> Nat] /\ ready \in Seq(Coros) /\ ready # <<>>
  BY <1>1, CoroutinesAssumption DEF SchedInv, SchedTypeOK, GreenletsRun
<1>4. others \in Seq(Coros) /\ Len(others) = n - 1
  BY <1>3, Beheaded
<1> HIDE DEF others, n
<1>5. /\ steps' \in [Coros -> Nat] /\ steps'[Rotator] = steps[Rotator] + 1
      /\ \A c \in Coros : c # Rotator => steps'[c] = steps[c]
  BY <1>1, <1>2, <1>3
<1>6. Live' = Live /\ steps[Rotator] < suspends[Rotator] /\ Live \subseteq Coros
  BY <1>1, <1>2, <1>3, <1>5 DEF Live
<1>7. \A c \in Coros : steps'[c] <= suspends[c] + 1
  <2>1. \A c \in Coros : steps[c] <= suspends[c] + 1
    BY DEF SchedInv, SchedTypeOK
  <2>2. ASSUME NEW c \in Coros PROVE steps'[c] <= suspends[c] + 1
    <3>1. CASE c = Rotator
      BY <1>2, <1>3, <1>5, <1>6, <3>1
    <3>2. CASE c # Rotator
      BY <1>5, <2>1, <3>2
    <3> QED BY <3>1, <3>2
  <2> QED BY <2>2
<1>8. /\ \A c \in Live, d \in Coros : steps[d] <= steps[c] + 1
      /\ \A d \in Coros \ {Rotator} : steps[d] <= steps[Rotator]
  BY <1>1, <1>2 DEF SchedInv, AheadInv, GreenletsRun
<1>9. ASSUME NEW c \in Live', NEW d \in Coros PROVE steps'[d] <= steps'[c] + 1
  <2>0. c \in Coros /\ c \in Live /\ steps[c] = steps[Rotator]
    BY <1>2, <1>6
  <2>1. steps[c] <= steps'[c] /\ steps[c] \in Nat /\ steps'[c] \in Nat
    <3>1. steps[c] \in Nat /\ (steps'[c] = steps[c] \/ steps'[c] = steps[c] + 1)
      <4>1. CASE c = Rotator
        BY <1>3, <1>5, <2>0, <4>1
      <4>2. CASE c # Rotator
        BY <1>3, <1>5, <2>0, <4>2
      <4> QED BY <4>1, <4>2
    <3> QED BY <3>1
  <2>2. CASE d = Rotator
    BY <1>3, <1>5, <2>0, <2>1, <2>2
  <2>3. CASE d # Rotator
    BY <1>3, <1>5, <1>8, <2>0, <2>1, <2>3
  <2> QED BY <2>2, <2>3
<1>10. \A d \in Coros \ {Rotator} : steps'[d] <= steps'[Rotator] - 1
  BY <1>3, <1>5, <1>8, OrderIs
<1>11. CASE others = <<>>
  <2>a. raised'
    BY <1>1, <1>11, Zenon
  <2>b. ready' = <<>>
    BY <1>1, <1>11
  <2>c. n = 1
    BY <1>2, <1>4, <1>11
  <2>1. raised' /\ ready' = <<>> /\ n = 1
    BY <2>a, <2>b, <2>c
  <2>2. Live = {Rotator}
    <3>1. Live = {ready[i] : i \in 1..n}
      BY <1>2, RangeIs
    <3>2. 1..n = {1}
      BY <2>1
    <3> QED BY <1>2, <3>1, <3>2
  <2>3. InRound(ready', steps') /\ Range(ready') = {}
    BY <2>1 DEF InRound, IsInjective, Range
  <2>4. SchedTypeOK' /\ ThreadInv' /\ kind' = "greenlets" /\ pc' = [c \in Coros |-> "new"]
    <3>1. ready' \in Seq(Coros) /\ raised' \in BOOLEAN
      BY <2>1
    <3> QED BY <1>1, <1>5, <1>7, <3>1, GreenletsLeave
  <2>5. RoundInv'
    BY <1>6, <2>1, <2>2, <2>3, <2>4 DEF RoundInv
  <2>6. AheadInv'
    BY <1>9, <1>10, <2>1 DEF AheadInv
  <2> QED BY <2>4, <2>5, <2>6 DEF SchedInv
<1>12. CASE others # <<>>
  <2>a. raised' = FALSE
    BY <1>1, <1>12, Zenon
  <2>b. n > 1
    BY <1>2, <1>4, <1>12
  <2>1. n > 1 /\ raised' = FALSE
    BY <2>a, <2>b
  <2>2. /\ ready' \in Seq(Coros) /\ Len(ready') = n
        /\ \A i \in 1..n : ready'[i] = IF i < n - 1 THEN ready[i + 2]
                                       ELSE IF i = n - 1 THEN ready[2] ELSE ready[1]
    BY <1>1, <1>3, <1>12, <2>1, Rotated DEF others, n
  <2>3. ready' \in [1..n -> Coros]
    BY <2>2, Places
  <2>4. InRound(ready', steps') /\ Range(ready') = Range(ready)
    <3>1. FirstSteps(n, ready, steps, steps')
      BY <1>2, <1>3, <1>5, Zenon DEF FirstSteps
    <3>2. Rotates(n, ready, ready')
      BY <2>2, <2>3, Zenon DEF Rotates
    <3> QED BY <1>2, <2>1, <3>1, <3>2, RotationKeepsRound, Zenon
  <2>5. SchedTypeOK' /\ ThreadInv' /\ kind' = "greenlets" /\ pc' = [c \in Coros |-> "new"]
    BY <1>1, <1>5, <1>7, <2>1, <2>2, GreenletsLeave
  <2>6. RoundInv'
    BY <1>2, <1>6, <2>1, <2>4, <2>5 DEF RoundInv
  <2>7. PICK d \in Coros \ {Rotator} : d \in Live
    <3>1. ready[2] \in Range(ready) /\ ready[2] # ready[1]
      <4>1. 1 \in 1..n /\ 2 \in 1..n /\ DOMAIN ready = 1..n
        BY <1>2, <2>1
      <4>2. \A i, j \in 1..n : ready[i] = ready[j] => i = j
        BY <1>2, <4>1, Zenon DEF InRound, IsInjective
      <4> QED BY <1>2, <4>1, <4>2, RangeIs
    <3> QED BY <1>2, <1>6, <3>1
  <2>8. steps'[Rotator] <= suspends[d] + 1
    BY <1>2, <1>3, <1>5, <2>7 DEF Live
  <2>9. \A e \in Coros \ {Rotator} : steps'[e] <= steps'[Rotator]
    BY <1>5, <1>10, OrderIs
  <2>10. AheadInv'
    BY <1>1, <1>9, <2>1, <2>8, <2>9 DEF AheadInv
  <2> QED BY <2>5, <2>6, <2>10 DEF SchedInv
<1> QED BY <1>11, <1>12

--------------------------------------------------------------------------------
(* The fallback: no greenlet runs, so of the invariant only the types and   *)
(* the place of each token and message are left to show.                    *)
LEMMA ThreadsOnly ==
  ASSUME SchedTypeOK', kind' = "threads", \A i \in 1..Count : ThreadAt(i)'
  PROVE  SchedInv'
<1>1. ThreadInv'
  BY DEF ThreadInv
<1>2. RoundInv' /\ AheadInv'
  BY DEF RoundInv, AheadInv
<1> QED BY <1>1, <1>2 DEF SchedInv

LEMMA FallbackTypes ==
  ASSUME SchedInv, kind = "threads"
  PROVE  /\ suspends \in [Coros -> Nat] /\ steps \in [Coros -> Nat]
         /\ resume_q \in [Coros -> Nat] /\ sched_q \in [Coros -> Nat]
         /\ pc \in [Coros -> {"new", "run", "suspended", "returned", "ended"}]
         /\ main \in [does : {"start", "put", "get", "join", "done"}, at : 1..Count]
         /\ main.does \in {"start", "put", "get", "join", "done"} /\ main.at \in 1..Count
         /\ \A i \in 1..Count : ThreadAt(i)
BY CoroutinesAssumption DEF SchedInv, SchedTypeOK, ThreadInv

LEMMA StartThreadInv == ASSUME SchedInv, StartThread PROVE SchedInv'
<1>1. /\ kind = "threads" /\ kind' = kind /\ suspends' = suspends /\ steps' = steps
      /\ ready' = ready /\ raised' = raised /\ resume_q' = resume_q /\ sched_q' = sched_q
      /\ main.does = "start" /\ pc' = [pc EXCEPT ![Order[main.at]] = "run"]
      /\ main' = [main EXCEPT !.does = "put"]
  BY DEF StartThread, Does, Current
<1>2. /\ main \in [does : {"start", "put", "get", "join", "done"}, at : 1..Count]
      /\ main.at \in 1..Count /\ pc \in [Coros -> {"new", "run", "suspended", "returned", "ended"}]
      /\ \A i \in 1..Count : ThreadAt(i)
  BY <1>1, FallbackTypes
<1>3. main'.does = "put" /\ main'.at = main.at /\ Count \in Nat
  BY <1>1, <1>2, OrderIs
<1>4. SchedTypeOK'
  BY <1>1, <1>2, OrderIs DEF SchedInv, SchedTypeOK
<1>5. ASSUME NEW i \in 1..Count PROVE ThreadAt(i)'
  <2>1. ThreadAt(i) /\ Order[i] \in Coros /\ (i # main.at => Order[i] # Order[main.at])
    BY <1>2, OrderIs
  <2>2. pc'[Order[i]] = IF i = main.at THEN "run" ELSE pc[Order[i]]
    BY <1>1, <1>2, <2>1
  <2>3. CASE i = main.at
    BY <1>1, <1>2, <1>3, <2>1, <2>2, <2>3 DEF ThreadAt, Passed, Now, Taken
  <2>4. CASE i # main.at
    BY <1>1, <1>2, <1>3, <2>1, <2>2, <2>4 DEF ThreadAt, Passed, Now, Taken
  <2> QED BY <2>3, <2>4
<1> QED BY <1>1, <1>4, <1>5, ThreadsOnly

LEMMA PutTokenInv == ASSUME SchedInv, PutToken PROVE SchedInv'
<1>1. /\ kind = "threads" /\ kind' = kind /\ suspends' = suspends /\ steps' = steps
      /\ ready' = ready /\ raised' = raised /\ pc' = pc /\ sched_q' = sched_q
      /\ main.does = "put" /\ resume_q' = [resume_q EXCEPT ![Order[main.at]] = @ + 1]
      /\ main' = [main EXCEPT !.does = "get"]
  BY DEF PutToken, Does, Current
<1>2. /\ main \in [does : {"start", "put", "get", "join", "done"}, at : 1..Count]
      /\ main.at \in 1..Count /\ resume_q \in [Coros -> Nat] /\ steps \in [Coros -> Nat]
      /\ \A i \in 1..Count : ThreadAt(i)
  BY <1>1, FallbackTypes
<1>3. main'.does = "get" /\ main'.at = main.at /\ Count \in Nat
  BY <1>1, <1>2, OrderIs
<1>4. SchedTypeOK'
  <2>1. resume_q' \in [Coros -> Nat]
    BY <1>1, <1>2, OrderIs
  <2>2. main' \in [does : {"start", "put", "get", "join", "done"}, at : 1..Count]
    BY <1>1, <1>2
  <2> QED BY <1>1, <2>1, <2>2 DEF SchedInv, SchedTypeOK
<1>5. ASSUME NEW i \in 1..Count PROVE ThreadAt(i)'
  <2>1. ThreadAt(i) /\ Order[i] \in Coros /\ (i # main.at => Order[i] # Order[main.at])
    BY <1>2, OrderIs
  <2>2. /\ resume_q'[Order[i]] = IF i = main.at THEN resume_q[Order[i]] + 1 ELSE resume_q[Order[i]]
        /\ resume_q[Order[i]] \in Nat /\ steps[Order[i]] \in Nat
    BY <1>1, <1>2, <2>1
  <2>3. CASE i = main.at
    BY <1>1, <1>2, <1>3, <2>1, <2>2, <2>3 DEF ThreadAt, Passed, Now, Taken
  <2>4. CASE i # main.at
    BY <1>1, <1>2, <1>3, <2>1, <2>2, <2>4 DEF ThreadAt, Passed, Now, Taken
  <2> QED BY <2>3, <2>4
<1> QED BY <1>1, <1>4, <1>5, ThreadsOnly

LEMMA GetMessageInv == ASSUME SchedInv, GetMessage PROVE SchedInv'
<1>1. /\ kind = "threads" /\ kind' = kind /\ suspends' = suspends /\ steps' = steps
      /\ ready' = ready /\ raised' = raised /\ pc' = pc /\ resume_q' = resume_q
      /\ main.does = "get" /\ sched_q[Order[main.at]] > 0
      /\ sched_q' = [sched_q EXCEPT ![Order[main.at]] = @ - 1]
      /\ main' = IF main.at < Count THEN [does |-> "start", at |-> main.at + 1]
                 ELSE [does |-> "join", at |-> 1]
  BY DEF GetMessage, Does, Current, NextOr
<1>2. /\ main.at \in 1..Count /\ sched_q \in [Coros -> Nat] /\ steps \in [Coros -> Nat]
      /\ \A i \in 1..Count : ThreadAt(i)
  BY <1>1, FallbackTypes
<1>3. /\ Count \in Nat
      /\ main'.does = IF main.at < Count THEN "start" ELSE "join"
      /\ main'.at = IF main.at < Count THEN main.at + 1 ELSE 1
      /\ main' \in [does : {"start", "put", "get", "join", "done"}, at : 1..Count]
  BY <1>1, <1>2, OrderIs
<1>4. SchedTypeOK'
  <2>1. sched_q' \in [Coros -> Nat]
    BY <1>1, <1>2, OrderIs
  <2> QED BY <1>1, <1>3, <2>1 DEF SchedInv, SchedTypeOK
<1>5. ASSUME NEW i \in 1..Count PROVE ThreadAt(i)'
  <2>1. ThreadAt(i) /\ Order[i] \in Coros /\ (i # main.at => Order[i] # Order[main.at])
    BY <1>2, OrderIs
  <2>2. /\ sched_q'[Order[i]] = IF i = main.at THEN sched_q[Order[i]] - 1 ELSE sched_q[Order[i]]
        /\ sched_q[Order[i]] \in Nat /\ steps[Order[i]] \in Nat
    BY <1>1, <1>2, <2>1
  <2>3. Passed(i)' <=> Passed(i) \/ i = main.at
    BY <1>1, <1>2, <1>3 DEF Passed
  <2>4. main'.does \in {"start", "join"} /\ ~(main'.does = "join" /\ i < main'.at)
    BY <1>1, <1>2, <1>3
  <2>5. ~Now(i, "put")' /\ ~Now(i, "get")' /\ (Now(i, "get") <=> i = main.at) /\ ~Now(i, "put")
    BY <1>1, <2>4 DEF Now
  <2>6. Passed(i) => i # main.at
    BY <1>1, <1>2 DEF Passed
  <2> QED BY <1>1, <2>1, <2>2, <2>3, <2>4, <2>5, <2>6 DEF ThreadAt, Taken
<1> QED BY <1>1, <1>4, <1>5, ThreadsOnly

LEMMA JoinInv == ASSUME SchedInv, Join PROVE SchedInv'
<1>1. /\ kind = "threads" /\ kind' = kind /\ suspends' = suspends /\ steps' = steps
      /\ ready' = ready /\ raised' = raised /\ pc' = pc /\ resume_q' = resume_q /\ sched_q' = sched_q
      /\ main.does = "join" /\ pc[Order[main.at]] = "ended"
      /\ main' = IF main.at < Count THEN [does |-> "join", at |-> main.at + 1]
                 ELSE [does |-> "done", at |-> 1]
  BY DEF Join, Does, Current, NextOr
<1>2. main.at \in 1..Count /\ \A i \in 1..Count : ThreadAt(i)
  BY <1>1, FallbackTypes
<1>3. /\ Count \in Nat
      /\ main'.does = IF main.at < Count THEN "join" ELSE "done"
      /\ main'.at = IF main.at < Count THEN main.at + 1 ELSE 1
      /\ main' \in [does : {"start", "put", "get", "join", "done"}, at : 1..Count]
  BY <1>1, <1>2, OrderIs
<1>4. SchedTypeOK'
  BY <1>1, <1>3 DEF SchedInv, SchedTypeOK
<1>5. ASSUME NEW i \in 1..Count PROVE ThreadAt(i)'
  <2>1. ThreadAt(i)
    BY <1>2
  <2>2. Passed(i) /\ Passed(i)'
    BY <1>1, <1>3 DEF Passed
  <2>3. ~Now(i, "put")' /\ ~Now(i, "get")' /\ ~Now(i, "get") /\ ~Now(i, "put")
    BY <1>1, <1>3 DEF Now
  <2>4. main'.does = "done" \/ (main'.does = "join" /\ i < main'.at) => i <= main.at
    BY <1>1, <1>2, <1>3
  <2>5. i <= main.at => pc[Order[i]] = "ended"
    <3>1. i < main.at => pc[Order[i]] = "ended"
      BY <1>1, <2>1 DEF ThreadAt
    <3> QED BY <1>1, <1>2, <3>1
  <2> QED BY <1>1, <2>1, <2>2, <2>3, <2>4, <2>5 DEF ThreadAt, Taken
<1> QED BY <1>1, <1>4, <1>5, ThreadsOnly

LEMMA ThreadStepInv == ASSUME SchedInv, NEW c \in Coros, ThreadStep(c) PROVE SchedInv'
<1>1. /\ kind' = kind /\ suspends' = suspends /\ main' = main /\ resume_q' = resume_q
      /\ ready' = ready /\ raised' = raised /\ pc[c] = "run"
      /\ steps' = [steps EXCEPT ![c] = @ + 1] /\ sched_q' = [sched_q EXCEPT ![c] = @ + 1]
      /\ pc' = [pc EXCEPT ![c] = IF steps[c] = suspends[c] THEN "returned" ELSE "suspended"]
  BY DEF ThreadStep, MakeStep, Tell, AtLastStep
<1>0. kind = "threads"
  <2>1. pc # [d \in Coros |-> "new"]
    BY <1>1
  <2> QED BY <2>1, CoroutinesAssumption DEF SchedInv, SchedTypeOK, RoundInv
<1>2. /\ suspends \in [Coros -> Nat] /\ steps \in [Coros -> Nat] /\ sched_q \in [Coros -> Nat]
      /\ pc \in [Coros -> {"new", "run", "suspended", "returned", "ended"}]
      /\ resume_q \in [Coros -> Nat] /\ \A i \in 1..Count : ThreadAt(i)
  BY <1>0, FallbackTypes
<1>3. PICK k \in 1..Count : Order[k] = c
  BY OrderIs
<1>4. steps[c] <= suspends[c] /\ steps[c] \in Nat /\ suspends[c] \in Nat
  <2>1. ThreadAt(k)
    BY <1>2
  <2>2. ~(steps[c] > suspends[c])
    BY <1>1, <1>3, <2>1 DEF ThreadAt
  <2> QED BY <1>2, <2>2
<1>5. SchedTypeOK'
  <2>1. steps' \in [Coros -> Nat] /\ sched_q' \in [Coros -> Nat]
        /\ pc' \in [Coros -> {"new", "run", "suspended", "returned", "ended"}]
    BY <1>1, <1>2
  <2>2. \A d \in Coros : steps'[d] <= suspends[d] + 1
    <3>1. ASSUME NEW d \in Coros, d # c PROVE steps'[d] <= suspends[d] + 1
      BY <1>1, <1>2, <3>1 DEF SchedInv, SchedTypeOK
    <3>2. steps'[c] <= suspends[c] + 1
      BY <1>1, <1>2, <1>4
    <3> QED BY <3>1, <3>2
  <2> QED BY <1>1, <2>1, <2>2 DEF SchedInv, SchedTypeOK
<1>6. ASSUME NEW i \in 1..Count PROVE ThreadAt(i)'
  <2>1. ThreadAt(i) /\ Order[i] \in Coros /\ (Passed(i)' <=> Passed(i))
        /\ (\A what : Now(i, what)' <=> Now(i, what))
    BY <1>1, <1>2, OrderIs DEF Passed, Now
  <2>2. CASE Order[i] = c
    <3>1. /\ steps'[c] = steps[c] + 1 /\ sched_q'[c] = sched_q[c] + 1 /\ sched_q[c] \in Nat
          /\ pc'[c] = IF steps[c] = suspends[c] THEN "returned" ELSE "suspended"
      BY <1>1, <1>2
    <3>2. Taken(c)' = Taken(c)
      BY <1>1, <1>4, <3>1 DEF Taken
    <3>3. steps'[c] > suspends[c] <=> pc'[c] = "returned"
      BY <1>4, <3>1
    <3>4. /\ pc'[c] # "new" /\ pc'[c] # "ended" /\ pc'[c] # "run" /\ steps'[c] > 0
      BY <1>4, <3>1
    <3>5. main.does = "done" \/ (main.does = "join" /\ i < main.at) => pc[c] = "ended"
      BY <2>1, <2>2 DEF ThreadAt
    <3> QED BY <1>1, <1>4, <2>1, <2>2, <3>1, <3>2, <3>3, <3>4, <3>5 DEF ThreadAt
  <2>3. CASE Order[i] # c
    <3>1. steps'[Order[i]] = steps[Order[i]] /\ sched_q'[Order[i]] = sched_q[Order[i]]
          /\ pc'[Order[i]] = pc[Order[i]]
      BY <1>1, <1>2, <2>1, <2>3
    <3> QED BY <1>1, <2>1, <3>1 DEF ThreadAt, Taken
  <2> QED BY <2>2, <2>3
<1> QED BY <1>0, <1>1, <1>5, <1>6, ThreadsOnly

LEMMA ResumedInv == ASSUME SchedInv, NEW c \in Coros, Resumed(c) PROVE SchedInv'
<1>1. /\ kind' = kind /\ suspends' = suspends /\ main' = main /\ steps' = steps
      /\ ready' = ready /\ raised' = raised /\ sched_q' = sched_q
      /\ pc[c] = "suspended" /\ resume_q[c] > 0
      /\ resume_q' = [resume_q EXCEPT ![c] = resume_q[c] - 1]
      /\ pc' = [pc EXCEPT ![c] = "run"]
  BY DEF Resumed, TokensLeft
<1>0. kind = "threads"
  <2>1. pc # [d \in Coros |-> "new"]
    BY <1>1
  <2> QED BY <2>1, CoroutinesAssumption DEF SchedInv, SchedTypeOK, RoundInv
<1>2. /\ suspends \in [Coros -> Nat] /\ steps \in [Coros -> Nat] /\ resume_q \in [Coros -> Nat]
      /\ pc \in [Coros -> {"new", "run", "suspended", "returned", "ended"}]
      /\ \A i \in 1..Count : ThreadAt(i)
  BY <1>0, FallbackTypes
<1>3. SchedTypeOK'
  <2>1. resume_q' \in [Coros -> Nat]
    BY <1>1, <1>2
  <2>2. pc' \in [Coros -> {"new", "run", "suspended", "returned", "ended"}]
    BY <1>1, <1>2
  <2> QED BY <1>1, <2>1, <2>2 DEF SchedInv, SchedTypeOK
<1>4. ASSUME NEW i \in 1..Count PROVE ThreadAt(i)'
  <2>1. ThreadAt(i) /\ Order[i] \in Coros /\ (Passed(i)' <=> Passed(i))
        /\ (\A what : Now(i, what)' <=> Now(i, what))
    BY <1>1, <1>2, OrderIs DEF Passed, Now
  <2>2. CASE Order[i] = c
    <3>1. /\ resume_q'[c] = resume_q[c] - 1 /\ pc'[c] = "run"
          /\ resume_q[c] \in Nat /\ steps[c] \in Nat
      BY <1>1, <1>2
    <3> QED BY <1>1, <2>1, <2>2, <3>1 DEF ThreadAt, Taken
  <2>3. CASE Order[i] # c
    <3>1. resume_q'[Order[i]] = resume_q[Order[i]] /\ pc'[Order[i]] = pc[Order[i]]
      BY <1>1, <1>2, <2>1, <2>3
    <3> QED BY <1>1, <2>1, <3>1 DEF ThreadAt, Taken
  <2> QED BY <2>2, <2>3
<1> QED BY <1>0, <1>1, <1>3, <1>4, ThreadsOnly

LEMMA ThreadEndsInv == ASSUME SchedInv, NEW c \in Coros, ThreadEnds(c) PROVE SchedInv'
<1>1. /\ kind' = kind /\ suspends' = suspends /\ main' = main /\ steps' = steps
      /\ ready' = ready /\ raised' = raised /\ resume_q' = resume_q
      /\ pc[c] = "returned" /\ sched_q' = [sched_q EXCEPT ![c] = @ + 1]
      /\ pc' = [pc EXCEPT ![c] = "ended"]
  BY DEF ThreadEnds, Tell
<1>0. kind = "threads"
  <2>1. pc # [d \in Coros |-> "new"]
    BY <1>1
  <2> QED BY <2>1, CoroutinesAssumption DEF SchedInv, SchedTypeOK, RoundInv
<1>2. /\ suspends \in [Coros -> Nat] /\ steps \in [Coros -> Nat] /\ sched_q \in [Coros -> Nat]
      /\ pc \in [Coros -> {"new", "run", "suspended", "returned", "ended"}]
      /\ \A i \in 1..Count : ThreadAt(i)
  BY <1>0, FallbackTypes
<1>3. SchedTypeOK'
  <2>1. sched_q' \in [Coros -> Nat]
    BY <1>1, <1>2
  <2>2. pc' \in [Coros -> {"new", "run", "suspended", "returned", "ended"}]
    BY <1>1, <1>2
  <2> QED BY <1>1, <2>1, <2>2 DEF SchedInv, SchedTypeOK
<1>4. ASSUME NEW i \in 1..Count PROVE ThreadAt(i)'
  <2>1. ThreadAt(i) /\ Order[i] \in Coros /\ (Passed(i)' <=> Passed(i))
        /\ (\A what : Now(i, what)' <=> Now(i, what))
    BY <1>1, <1>2, OrderIs DEF Passed, Now
  <2>2. CASE Order[i] = c
    <3>1. /\ sched_q'[c] = sched_q[c] + 1 /\ pc'[c] = "ended"
          /\ sched_q[c] \in Nat /\ steps[c] \in Nat
      BY <1>1, <1>2
    <3> QED BY <1>1, <2>1, <2>2, <3>1 DEF ThreadAt, Taken
  <2>3. CASE Order[i] # c
    <3>1. sched_q'[Order[i]] = sched_q[Order[i]] /\ pc'[Order[i]] = pc[Order[i]]
      BY <1>1, <1>2, <2>1, <2>3
    <3> QED BY <1>1, <2>1, <3>1 DEF ThreadAt, Taken
  <2> QED BY <2>2, <2>3
<1> QED BY <1>0, <1>1, <1>3, <1>4, ThreadsOnly

--------------------------------------------------------------------------------
LEMMA SchedInitInv == ASSUME SchedInit PROVE SchedInv
<1>1. /\ kind \in Kinds /\ suspends \in [Coros -> Nat] /\ suspends \in Suspensions
      /\ steps = [c \in Coros |-> 0] /\ ready = Order /\ raised = FALSE
      /\ main = [does |-> "start", at |-> 1] /\ pc = [c \in Coros |-> "new"]
      /\ resume_q = [c \in Coros |-> 0] /\ sched_q = [c \in Coros |-> 0]
  BY CoroutinesAssumption DEF SchedInit
<1>2. SchedTypeOK
  <2>1. \A c \in Coros : steps[c] <= suspends[c] + 1
    BY <1>1
  <2>2. main \in [does : {"start", "put", "get", "join", "done"}, at : 1..Count]
    BY <1>1, OrderIs
  <2> QED BY <1>1, <2>1, <2>2, OrderIs DEF SchedTypeOK
<1>3. Live = Coros
  BY <1>1 DEF Live
<1>4. \A c \in Coros : steps[c] = 0
  BY <1>1
<1>5. RoundInv
  <2>1. InRound(ready, steps)
    <3>1. \A i, j \in 1..Count : Order[i] = Rotator => ~(j < i)
      BY OrderIs
    <3>2. \A i, j \in DOMAIN Order :
            /\ steps[Order[i]] <= steps[Order[j]] /\ steps[Order[j]] <= steps[Order[i]] + 1
            /\ Order[i] = Rotator => steps[Order[j]] = IF j < i THEN steps[Rotator] - 1
                                                       ELSE steps[Rotator]
      BY <1>4, <3>1, OrderIs
    <3> QED BY <1>1, <3>2, CoroutinesAssumption, Zenon DEF InRound
  <2>2. Range(ready) = Coros
    BY <1>1 DEF Coros
  <2> QED BY <1>1, <1>3, <2>1, <2>2 DEF RoundInv
<1>6. AheadInv
  <2>1. Order[2] \in Coros \ {Rotator}
    BY OrderIs
  <2>2. steps[Rotator] <= suspends[Order[2]] + 1
    BY <1>1, <1>4, <2>1, OrderIs
  <2> QED BY <1>1, <1>3, <1>4, <2>1, <2>2, OrderIs DEF AheadInv
<1>7. ASSUME NEW i \in 1..Count PROVE ThreadAt(i)
  <2>1. Order[i] \in Coros /\ main.does = "start" /\ main.at = 1 /\ ~(i < 1)
    BY <1>1, OrderIs
  <2>2. pc[Order[i]] = "new" /\ resume_q[Order[i]] = 0 /\ sched_q[Order[i]] = 0
        /\ steps[Order[i]] = 0 /\ suspends[Order[i]] \in Nat
    BY <1>1, <2>1
  <2> QED BY <2>1, <2>2 DEF ThreadAt, Passed, Now, Taken
<1> QED BY <1>2, <1>5, <1>6, <1>7 DEF SchedInv, ThreadInv

LEMMA SchedNextInv == ASSUME SchedInv, [SchedNext]_schedVars PROVE SchedInv'
<1>1. CASE Greenlets
  BY <1>1, LastStepInv, StepAndSwitchInv, RotateAndSwitchInv DEF Greenlets
<1>2. CASE MainThread
  BY <1>2, StartThreadInv, PutTokenInv, GetMessageInv, JoinInv DEF MainThread
<1>3. ASSUME NEW c \in Coros, Thread(c) PROVE SchedInv'
  BY <1>3, ThreadStepInv, ResumedInv, ThreadEndsInv DEF Thread
<1>4. CASE UNCHANGED schedVars
  <2>1. /\ kind' = kind /\ suspends' = suspends /\ steps' = steps /\ ready' = ready
        /\ raised' = raised /\ main' = main /\ pc' = pc /\ resume_q' = resume_q /\ sched_q' = sched_q
    BY <1>4 DEF schedVars, threads
  <2>2. \A i : ThreadAt(i)' <=> ThreadAt(i)
    BY <2>1 DEF ThreadAt, Passed, Now, Taken
  <2>3. SchedTypeOK' /\ RoundInv' /\ AheadInv'
    BY <2>1 DEF SchedInv, SchedTypeOK, RoundInv, AheadInv, Live
  <2>4. ThreadInv'
    BY <2>1, <2>2 DEF SchedInv, ThreadInv
  <2> QED BY <2>3, <2>4 DEF SchedInv
<1> QED BY <1>1, <1>2, <1>3, <1>4 DEF SchedNext

(* The inductive invariant of Coroutines: the types, the round of the       *)
(* queue, who is ahead of whom, and where each token and message is.        *)
THEOREM SchedInvariance == SchedSpec => []SchedInv
<1>1. SchedInit => SchedInv
  BY SchedInitInv
<1>2. SchedInv /\ [SchedNext]_schedVars => SchedInv'
  BY SchedNextInv
<1> QED BY <1>1, <1>2, PTL DEF SchedSpec

(* Scheduler is round robin, for any number of coroutines: nobody is more   *)
(* than one step ahead of one that has not ended, though a coroutine        *)
(* changes the queue under the scheduler, and the queue holds each once.    *)
THEOREM RoundRobin == SchedSpec => []LockStep
<1>1. SchedInv => LockStep
  <2> SUFFICES ASSUME SchedInv, kind = "greenlets" PROVE LockStep
    BY DEF LockStep
  <2>1. steps \in [Coros -> Nat] /\ suspends \in [Coros -> Nat]
    BY CoroutinesAssumption DEF SchedInv, SchedTypeOK
  <2>2. \A c \in Coros : ~Ended(c) <=> c \in Live
    BY <2>1 DEF Ended, Live
  <2>3. Live = {c \in Coros : ~Ended(c)}
    BY <2>2 DEF Live
  <2>4. \A c \in Coros, d \in Coros : ~Ended(c) => steps[d] <= steps[c] + 1
    BY <2>2 DEF SchedInv, AheadInv
  <2>5. IsInjective(ready)
    BY DEF SchedInv, RoundInv, InRound
  <2>6. ~raised => Range(ready) = Live
    BY DEF SchedInv, RoundInv
  <2> QED BY <2>3, <2>4, <2>5, <2>6 DEF LockStep
<1> QED BY <1>1, SchedInvariance, PTL

(* Who ends, for any number of coroutines and of suspensions: only those    *)
(* that may; and a scheduler that has returned has left nobody behind that  *)
(* should have ended.                                                       *)
THEOREM WhoEnds == SchedSpec => []OnlyTheyEnd
<1>1. SchedInv => OnlyTheyEnd
  <2> SUFFICES ASSUME SchedInv PROVE OnlyTheyEnd
    OBVIOUS
  <2>1. /\ steps \in [Coros -> Nat] /\ suspends \in [Coros -> Nat] /\ raised \in BOOLEAN
        /\ resume_q \in [Coros -> Nat]
        /\ pc \in [Coros -> {"new", "run", "suspended", "returned", "ended"}]
        /\ \A c \in Coros : steps[c] <= suspends[c] + 1
    BY CoroutinesAssumption DEF SchedInv, SchedTypeOK
  <2>2. kind \in {"greenlets", "threads"}
    BY CoroutinesAssumption DEF SchedInv, SchedTypeOK
  <2>3. CASE kind = "greenlets"
    <3>1. /\ Range(ready) = IF raised THEN {} ELSE Live
          /\ raised => Live = {Rotator}
          /\ Rotator \in Live => \A d \in Coros \ {Rotator} :
               steps[d] <= IF raised THEN steps[Rotator] - 1 ELSE steps[Rotator]
          /\ ~raised => \E d \in Coros \ {Rotator} :
               steps[Rotator] <= suspends[d] + 1 \/ suspends[Rotator] <= suspends[d] + 1
      BY <2>3 DEF SchedInv, RoundInv, AheadInv
    <3>2. \A c \in Coros : Ended(c) <=> c \notin Live
      BY <2>1, <2>3 DEF Ended, Live
    <3>3. ASSUME NEW c \in Coros, Ended(c) PROVE MayEnd(c)
      <4>1. CASE c = Rotator
        <5>1. ~raised /\ steps[Rotator] > suspends[Rotator]
          BY <3>1, <3>2, <3>3, <4>1 DEF Ended
        <5>2. PICK d \in Coros \ {Rotator} :
                steps[Rotator] <= suspends[d] + 1 \/ suspends[Rotator] <= suspends[d] + 1
          BY <3>1, <5>1
        <5>3. suspends[Rotator] <= suspends[d] + 1
          <6>1. suspends[Rotator] \in Nat /\ steps[Rotator] \in Nat /\ suspends[d] \in Nat
            BY <2>1, OrderIs
          <6> QED BY <5>1, <5>2, <6>1
        <5> QED BY <2>3, <4>1, <5>3 DEF MayEnd
      <4>2. CASE c # Rotator
        BY <2>3, <4>2 DEF MayEnd
      <4> QED BY <4>1, <4>2
    <3>4. ASSUME ready = <<>>, NEW c \in Coros, MayEnd(c) PROVE Ended(c)
      <4>1. Range(ready) = {}
        BY <3>4 DEF Range
      <4>2. CASE ~raised
        BY <3>1, <3>2, <4>1, <4>2
      <4>3. CASE raised
        <5>1. SUFFICES ASSUME c = Rotator PROVE FALSE
          BY <3>1, <3>2, <4>3
        <5>2. PICK d \in Coros \ {Rotator} : suspends[Rotator] <= suspends[d] + 1
          BY <2>3, <3>4, <5>1 DEF MayEnd
        <5>3. steps[d] <= steps[Rotator] - 1 /\ Rotator \in Live /\ d \notin Live
          BY <3>1, <4>3
        <5>4. steps[Rotator] <= suspends[Rotator] /\ suspends[d] + 1 <= steps[d]
          <6>1. steps[Rotator] <= suspends[Rotator]
            BY <5>3 DEF Live
          <6>2. ~(steps[d] <= suspends[d]) /\ steps[d] \in Nat /\ suspends[d] \in Nat
            BY <2>1, <5>3 DEF Live
          <6> QED BY <6>1, <6>2
        <5>5. /\ steps[d] \in Nat /\ steps[Rotator] \in Nat
              /\ suspends[d] \in Nat /\ suspends[Rotator] \in Nat
          BY <2>1, OrderIs
        <5> QED BY <5>2, <5>3, <5>4, <5>5
      <4> QED BY <2>1, <4>2, <4>3
    <3> QED BY <2>3, <3>3, <3>4 DEF OnlyTheyEnd
  <2>4. CASE kind = "threads"
    <3>1. \A i \in 1..Count : ThreadAt(i)
      BY <2>4 DEF SchedInv, ThreadInv
    <3>2. ASSUME NEW c \in Coros, Ended(c) PROVE MayEnd(c)
      <4>1. PICK i \in 1..Count : Order[i] = c
        BY OrderIs
      <4>2. steps[c] > suspends[c] /\ pc[c] = "ended" /\ ThreadAt(i)
        BY <2>4, <3>1, <3>2 DEF Ended
      <4>3. steps[c] - 1 + resume_q[c] <= 1 /\ steps[c] \in Nat /\ resume_q[c] \in Nat
            /\ suspends[c] \in Nat
        BY <2>1, <4>1, <4>2 DEF ThreadAt, Taken
      <4> QED BY <2>4, <4>2, <4>3 DEF MayEnd
    <3>3. ASSUME main.does = "done", NEW c \in Coros PROVE Ended(c)
      <4>1. PICK i \in 1..Count : Order[i] = c
        BY OrderIs
      <4> QED BY <3>1, <3>3, <4>1 DEF ThreadAt, Ended
    <3> QED BY <2>4, <3>2, <3>3 DEF OnlyTheyEnd
  <2> QED BY <2>2, <2>3, <2>4
<1> QED BY <1>1, SchedInvariance, PTL

--------------------------------------------------------------------------------
(* Recursion over the numbers: the functions that the programs compute.     *)
LEMMA Counting ==
  ASSUME NEW P, P \subseteq Nat, 0 \in P, \A n \in P : n + 1 \in P
  PROVE  P = Nat
<1> DEFINE Out == Nat \ P
<1> SUFFICES ASSUME Out # {} PROVE FALSE
  OBVIOUS
<1>1. \E k \in Out : \A m \in Out : ~ (<<m, k>> \in OpToRel(<, Nat))
  <2>1. Out \subseteq Nat
    OBVIOUS
  <2> HIDE DEF Out
  <2> QED BY <2>1, NatLessThanWellFounded, WFMin, Zenon
<1>2. PICK k \in Out : \A m \in Out : ~ (<<m, k>> \in OpToRel(<, Nat))
  BY <1>1
<1>3. k - 1 \in Nat /\ k - 1 < k /\ (k - 1) + 1 = k
  OBVIOUS
<1>4. <<k - 1, k>> \in OpToRel(<, Nat)
  BY <1>3 DEF OpToRel
<1>5. k - 1 \in P
  BY <1>2, <1>3, <1>4
<1> QED BY <1>3, <1>5

Step(S, c, g) == c \in S /\ g \in [Nat \X S -> S]
Iterates(f, S, c, g) == f \in [Nat -> S] /\ f[0] = c /\ \A n \in Nat : f[n + 1] = g[<<n, f[n]>>]
LEMMA Recursion ==
  ASSUME NEW S, NEW c, NEW g, Step(S, c, g)
  PROVE  \E f : Iterates(f, S, c, g)
<1>0. c \in S /\ g \in [Nat \X S -> S]
  BY DEF Step
<1> DEFINE Upto(f, k) == /\ f \in [0..k -> S] /\ f[0] = c
                         /\ \A n \in 0..(k - 1) : f[n + 1] = g[<<n, f[n]>>]
<1>1. \A k \in Nat : \E f : Upto(f, k)
  <2> DEFINE P == {k \in Nat : \E f : Upto(f, k)}
  <2>1. 0 \in P
    <3>1. Upto([n \in 0..0 |-> c], 0)
      BY <1>0
    <3> QED BY <3>1
  <2>2. ASSUME NEW k \in P PROVE k + 1 \in P
    <3>1. k \in Nat /\ \E f : Upto(f, k)
      OBVIOUS
    <3>2. PICK f : Upto(f, k)
      BY <3>1
    <3> DEFINE h == [n \in 0..(k + 1) |-> IF n = k + 1 THEN g[<<k, f[k]>>] ELSE f[n]]
    <3>3. f[k] \in S /\ g[<<k, f[k]>>] \in S
      BY <1>0, <3>1, <3>2
    <3>4. h \in [0..(k + 1) -> S] /\ h[0] = c
      BY <1>0, <3>1, <3>2, <3>3
    <3>5. ASSUME NEW n \in 0..k PROVE h[n + 1] = g[<<n, h[n]>>]
      <4>1. CASE n = k
        <5>1. k + 1 \in 0..(k + 1) /\ k \in 0..(k + 1) /\ k # k + 1
          BY <3>1
        <5>2. h[k + 1] = g[<<k, f[k]>>] /\ h[k] = f[k]
          BY <5>1
        <5> QED BY <4>1, <5>2
      <4>2. CASE n # k
        <5>1. n \in 0..(k - 1) /\ n + 1 \in 0..(k + 1) /\ n \in 0..(k + 1) /\ n + 1 # k + 1 /\ n # k + 1
          BY <3>1, <4>2
        <5>2. f[n + 1] = g[<<n, f[n]>>]
          BY <3>2, <5>1
        <5> QED BY <5>1, <5>2
      <4> QED BY <4>1, <4>2
    <3>6. (k + 1) - 1 = k /\ k + 1 \in Nat
      BY <3>1
    <3> HIDE DEF h
    <3>7. Upto(h, k + 1)
      BY <3>4, <3>5, <3>6
    <3> QED BY <3>6, <3>7
  <2>3. P = Nat
    <3>1. P \subseteq Nat
      OBVIOUS
    <3> HIDE DEF P
    <3> QED BY <2>1, <2>2, <3>1, Counting
  <2> QED BY <2>3
<1> DEFINE Same(n) == \A f, h : \A k, m \in Nat :
                        n <= k /\ n <= m /\ Upto(f, k) /\ Upto(h, m) => f[n] = h[n]
<1>2. \A n \in Nat : Same(n)
  <2> DEFINE P == {n \in Nat : Same(n)}
  <2>1. 0 \in P
    OBVIOUS
  <2>2. ASSUME NEW n \in Nat, Same(n) PROVE Same(n + 1)
    <3> SUFFICES ASSUME NEW f, NEW h, NEW k \in Nat, NEW m \in Nat,
                        n + 1 <= k, n + 1 <= m, Upto(f, k), Upto(h, m)
                 PROVE  f[n + 1] = h[n + 1]
      OBVIOUS
    <3>1. n \in 0..(k - 1) /\ n \in 0..(m - 1) /\ n <= k /\ n <= m
      OBVIOUS
    <3>2. f[n] = h[n]
      <4> HIDE DEF Upto
      <4> QED BY <2>2, <3>1, Zenon
    <3>3. f[n + 1] = g[<<n, f[n]>>]
      BY <3>1, Zenon
    <3>4. h[n + 1] = g[<<n, h[n]>>]
      BY <3>1, Zenon
    <3> HIDE DEF Upto
    <3> QED BY <3>2, <3>3, <3>4
  <2> HIDE DEF Same
  <2>3. P = Nat
    <3>1. P \subseteq Nat /\ \A n \in P : n + 1 \in P
      BY <2>2
    <3> HIDE DEF P
    <3> QED BY <2>1, <3>1, Counting
  <2> QED BY <2>3
<1> DEFINE a(k) == CHOOSE f : Upto(f, k)
           F == [n \in Nat |-> a(n)[n]]
<1>3. \A k \in Nat : Upto(a(k), k)
  BY <1>1
<1> HIDE DEF a
<1>4. F \in [Nat -> S]
  <2>1. \A n \in Nat : a(n)[n] \in S
    BY <1>3
  <2> QED BY <2>1
<1>5. F[0] = c
  BY <1>3
<1>6. ASSUME NEW n \in Nat PROVE F[n + 1] = g[<<n, F[n]>>]
  <2>1. n + 1 \in Nat /\ n \in 0..((n + 1) - 1) /\ n <= n + 1 /\ n <= n
    OBVIOUS
  <2>2. a(n + 1)[n + 1] = g[<<n, a(n + 1)[n]>>]
    BY <1>3, <2>1
  <2>3. a(n + 1)[n] = a(n)[n]
    <3>1. Upto(a(n + 1), n + 1) /\ Upto(a(n), n)
      BY <1>3, <2>1
    <3> HIDE DEF Upto
    <3> QED BY <1>2, <2>1, <3>1, Zenon DEF Same
  <2> QED BY <2>1, <2>2, <2>3
<1> QED BY <1>4, <1>5, <1>6 DEF Iterates

LEMMA fact_direct_def ==
  /\ fact_direct \in [Nat -> Nat] /\ fact_direct[0] = 1
  /\ \A n \in Nat : fact_direct[n + 1] = (n + 1) * fact_direct[n]
<1> DEFINE g == [p \in Nat \X Nat |-> (p[1] + 1) * p[2]]
<1>1. g \in [Nat \X Nat -> Nat]
  <2>1. \A a, b \in Nat : (a + 1) * b \in Nat
    OBVIOUS
  <2> QED BY <2>1
<1>2. \A n, v \in Nat : g[<<n, v>>] = (n + 1) * v
  OBVIOUS
<1> HIDE DEF g
<1>3. PICK f \in [Nat -> Nat] : f[0] = 1 /\ \A n \in Nat : f[n + 1] = g[<<n, f[n]>>]
  <2>1. Step(Nat, 1, g)
    BY <1>1 DEF Step
  <2>2. \E f : Iterates(f, Nat, 1, g)
    BY <2>1, Recursion, Zenon
  <2> QED BY <2>2 DEF Iterates
<1>4. f = [n \in Nat |-> IF n = 0 THEN 1 ELSE n * f[n - 1]]
  <2>1. ASSUME NEW n \in Nat, n # 0 PROVE f[n] = n * f[n - 1]
    <3>1. n - 1 \in Nat /\ (n - 1) + 1 = n
      BY <2>1
    <3>2. f[(n - 1) + 1] = g[<<n - 1, f[n - 1]>>] /\ f[n - 1] \in Nat
      BY <1>3, <3>1
    <3>3. f[(n - 1) + 1] = ((n - 1) + 1) * f[n - 1]
      BY <1>2, <3>1, <3>2
    <3> QED BY <3>1, <3>3
  <2> QED BY <1>3, <2>1
<1>5. fact_direct = [n \in Nat |-> IF n = 0 THEN 1 ELSE n * fact_direct[n - 1]]
  BY <1>4, Zenon DEF fact_direct
<1>6. fact_direct[0] = 1 /\ \A n \in Nat : fact_direct[n + 1] = (n + 1) * fact_direct[n]
  <2>1. fact_direct[0] = 1
    BY <1>5
  <2>2. ASSUME NEW n \in Nat PROVE fact_direct[n + 1] = (n + 1) * fact_direct[n]
    <3>1. n + 1 \in Nat /\ n + 1 # 0 /\ (n + 1) - 1 = n
      OBVIOUS
    <3> QED BY <1>5, <3>1
  <2> QED BY <2>1, <2>2
<1>7. fact_direct \in [Nat -> Nat]
  <2> DEFINE P == {n \in Nat : fact_direct[n] \in Nat}
  <2>1. 0 \in P
    BY <1>6
  <2>2. ASSUME NEW n \in P PROVE n + 1 \in P
    <3>1. n \in Nat /\ fact_direct[n] \in Nat /\ fact_direct[n + 1] = (n + 1) * fact_direct[n]
      BY <1>6
    <3>2. (n + 1) * fact_direct[n] \in Nat
      BY <3>1
    <3> QED BY <3>1, <3>2
  <2>3. P = Nat
    <3>1. P \subseteq Nat
      OBVIOUS
    <3> HIDE DEF P
    <3> QED BY <2>1, <2>2, <3>1, Counting
  <2>4. \A n \in Nat : fact_direct[n] \in Nat
    BY <2>3
  <2>5. fact_direct = [n \in Nat |-> fact_direct[n]]
    BY <1>5
  <2> QED BY <2>4, <2>5
<1> QED BY <1>6, <1>7

(* A sequence in which each number is the sum of the two before it, and p.  *)
Sums(F, b0, b1, p) == /\ F \in [Nat -> Nat] /\ F[0] = b0 /\ F[1] = b1
                      /\ \A n \in Nat : n > 1 => F[n] = p + F[n - 1] + F[n - 2]
LEMMA TwoBack ==
  ASSUME NEW b0 \in Nat, NEW b1 \in Nat, NEW p \in Nat
  PROVE  \E F : Sums(F, b0, b1, p)
<1> DEFINE S == Nat \X Nat
           g == [q \in Nat \X S |-> <<q[2][2], p + q[2][2] + q[2][1]>>]
<1>1. Step(S, <<b0, b1>>, g)
  <2>1. \A u, v \in Nat : p + v + u \in Nat
    OBVIOUS
  <2>2. g \in [Nat \X S -> S]
    BY <2>1
  <2> QED BY <2>2 DEF Step
<1>2. \A n \in Nat, s \in S : g[<<n, s>>] = <<s[2], p + s[2] + s[1]>>
  OBVIOUS
<1> HIDE DEF g
<1>3. PICK f : Iterates(f, S, <<b0, b1>>, g)
  BY <1>1, Recursion, Zenon
<1>4. f \in [Nat -> S] /\ f[0] = <<b0, b1>> /\ \A n \in Nat : f[n + 1] = <<f[n][2], p + f[n][2] + f[n][1]>>
  BY <1>2, <1>3 DEF Iterates
<1> DEFINE F == [n \in Nat |-> f[n][1]]
<1>5. F \in [Nat -> Nat] /\ F[0] = b0
  BY <1>4
<1>6. \A n \in Nat : F[n + 1] = f[n][2]
  BY <1>4
<1>7. F[1] = b1
  <2>1. F[0 + 1] = f[0][2]
    BY <1>6
  <2> QED BY <1>4, <2>1
<1>8. ASSUME NEW n \in Nat, n > 1 PROVE F[n] = p + F[n - 1] + F[n - 2]
  <2>1. n - 1 \in Nat /\ n - 2 \in Nat /\ (n - 1) + 1 = n /\ (n - 2) + 1 = n - 1
    BY <1>8
  <2>2. F[n] = f[n - 1][2] /\ F[n - 1] = f[n - 2][2] /\ F[n - 2] = f[n - 2][1]
    BY <1>6, <2>1
  <2>3. f[n - 1] = <<f[n - 2][2], p + f[n - 2][2] + f[n - 2][1]>>
    BY <1>4, <2>1
  <2> QED BY <2>2, <2>3
<1> HIDE DEF F
<1> QED BY <1>5, <1>7, <1>8 DEF Sums

LEMMA AllNumbers ==
  ASSUME NEW F, F[0] \in Nat, F[1] \in Nat, NEW p \in Nat,
         \A n \in Nat : n > 1 => F[n] = p + F[n - 1] + F[n - 2]
  PROVE  \A n \in Nat : F[n] \in Nat
<1> DEFINE P == {n \in Nat : F[n] \in Nat /\ F[n + 1] \in Nat}
<1>1. 0 \in P
  OBVIOUS
<1>2. ASSUME NEW n \in P PROVE n + 1 \in P
  <2>1. n \in Nat /\ F[n] \in Nat /\ F[n + 1] \in Nat
    OBVIOUS
  <2>2. n + 2 \in Nat /\ n + 2 > 1 /\ (n + 2) - 1 = n + 1 /\ (n + 2) - 2 = n /\ (n + 1) + 1 = n + 2
    BY <2>1
  <2>3. F[n + 2] = p + F[n + 1] + F[n]
    BY <2>2
  <2> QED BY <2>1, <2>2, <2>3
<1>3. P = Nat
  <2>1. P \subseteq Nat
    OBVIOUS
  <2> HIDE DEF P
  <2> QED BY <1>1, <1>2, <2>1, Counting
<1> QED BY <1>3

LEMMA fib_direct_def ==
  /\ fib_direct[0] = 0 /\ fib_direct[1] = 1
  /\ \A n \in Nat : fib_direct[n] \in Nat
  /\ \A n \in Nat : n > 1 => fib_direct[n] = fib_direct[n - 1] + fib_direct[n - 2]
<1>1. PICK F \in [Nat -> Nat] : /\ F[0] = 0 /\ F[1] = 1
                                /\ \A n \in Nat : n > 1 => F[n] = 0 + F[n - 1] + F[n - 2]
  <2>1. \E F : Sums(F, 0, 1, 0)
    BY TwoBack
  <2> QED BY <2>1, Zenon DEF Sums
<1>2. F = [n \in Nat |-> IF n <= 1 THEN n ELSE F[n - 1] + F[n - 2]]
  <2>1. ASSUME NEW n \in Nat PROVE F[n] = IF n <= 1 THEN n ELSE F[n - 1] + F[n - 2]
    <3>1. CASE n <= 1
      <4>1. n = 0 \/ n = 1
        BY <3>1
      <4> QED BY <1>1, <4>1
    <3>2. CASE n > 1
      <4>1. n - 1 \in Nat /\ n - 2 \in Nat
        BY <3>2
      <4>2. F[n - 1] \in Nat /\ F[n - 2] \in Nat
        BY <4>1
      <4> QED BY <1>1, <3>2, <4>2
    <3> QED BY <3>1, <3>2
  <2> QED BY <2>1
<1>3. fib_direct = [n \in Nat |-> IF n <= 1 THEN n ELSE fib_direct[n - 1] + fib_direct[n - 2]]
  BY <1>2, Zenon DEF fib_direct
<1>4. /\ fib_direct[0] = 0 /\ fib_direct[1] = 1
      /\ \A n \in Nat : n > 1 => fib_direct[n] = fib_direct[n - 1] + fib_direct[n - 2]
  BY <1>3
<1>5. fib_direct[0] \in Nat /\ fib_direct[1] \in Nat
  BY <1>4
<1>6. \A n \in Nat : fib_direct[n] \in Nat
  <2> DEFINE P == {n \in Nat : fib_direct[n] \in Nat /\ fib_direct[n + 1] \in Nat}
  <2>1. 0 \in P
    BY <1>5
  <2>2. ASSUME NEW n \in P PROVE n + 1 \in P
    <3>1. n \in Nat /\ fib_direct[n] \in Nat /\ fib_direct[n + 1] \in Nat
      OBVIOUS
    <3>2. n + 2 \in Nat /\ n + 2 > 1 /\ (n + 2) - 1 = n + 1 /\ (n + 2) - 2 = n /\ (n + 1) + 1 = n + 2
      BY <3>1
    <3>3. fib_direct[n + 2] = fib_direct[n + 1] + fib_direct[n]
      BY <1>4, <3>2
    <3> QED BY <3>1, <3>2, <3>3
  <2>3. P = Nat
    <3>1. P \subseteq Nat
      OBVIOUS
    <3> HIDE DEF P
    <3> QED BY <2>1, <2>2, <3>1, Counting
  <2> QED BY <2>3
<1> QED BY <1>4, <1>6

LEMMA calls_def ==
  /\ \A n \in Nat : n <= 1 => calls[n] = 1
  /\ \A n \in Nat : calls[n] \in Nat /\ calls[n] >= 1
  /\ \A n \in Nat : n > 1 => calls[n] = 1 + calls[n - 1] + calls[n - 2]
<1>1. PICK F \in [Nat -> Nat] : /\ F[0] = 1 /\ F[1] = 1
                                /\ \A n \in Nat : n > 1 => F[n] = 1 + F[n - 1] + F[n - 2]
  <2>1. \E F : Sums(F, 1, 1, 1)
    BY TwoBack
  <2> QED BY <2>1, Zenon DEF Sums
<1>2. F = [n \in Nat |-> IF n <= 1 THEN 1 ELSE 1 + F[n - 1] + F[n - 2]]
  <2>1. ASSUME NEW n \in Nat PROVE F[n] = IF n <= 1 THEN 1 ELSE 1 + F[n - 1] + F[n - 2]
    <3>1. CASE n <= 1
      <4>1. n = 0 \/ n = 1
        BY <3>1
      <4> QED BY <1>1, <4>1
    <3>2. CASE n > 1
      BY <1>1, <3>2
    <3> QED BY <3>1, <3>2
  <2> QED BY <2>1
<1>3. calls = [n \in Nat |-> IF n <= 1 THEN 1 ELSE 1 + calls[n - 1] + calls[n - 2]]
  BY <1>2, Zenon DEF calls
<1>4. /\ \A n \in Nat : n <= 1 => calls[n] = 1
      /\ \A n \in Nat : n > 1 => calls[n] = 1 + calls[n - 1] + calls[n - 2]
  BY <1>3
<1>5. calls[0] = 1 /\ calls[1] = 1
  BY <1>4
<1>6. \A n \in Nat : calls[n] \in Nat
  BY <1>4, <1>5, AllNumbers
<1>7. ASSUME NEW n \in Nat PROVE calls[n] >= 1
  <2>1. CASE n <= 1
    BY <1>4, <2>1
  <2>2. CASE n > 1
    <3>1. n - 1 \in Nat /\ n - 2 \in Nat
      BY <2>2
    <3>2. calls[n - 1] \in Nat /\ calls[n - 2] \in Nat /\ calls[n] = 1 + calls[n - 1] + calls[n - 2]
      BY <1>4, <1>6, <2>2, <3>1
    <3> QED BY <3>2
  <2> QED BY <2>1, <2>2
<1> QED BY <1>4, <1>6, <1>7

--------------------------------------------------------------------------------
(* The stack of frames, and the programs one by one.                        *)
LEMMA Pushing ==
  ASSUME NEW S, NEW q \in Seq(S), NEW e \in S
  PROVE  /\ Append(q, e) \in Seq(S) /\ Len(Append(q, e)) = Len(q) + 1 /\ Len(q) \in Nat
         /\ \A i \in 1..Len(q) : Append(q, e)[i] = q[i]
         /\ Append(q, e)[Len(q) + 1] = e
OBVIOUS

LEMMA Popping ==
  ASSUME NEW S, NEW q \in Seq(S), q # <<>>
  PROVE  /\ Front(q) \in Seq(S) /\ Len(Front(q)) = Len(q) - 1 /\ Len(q) \in Nat /\ Len(q) > 0
         /\ \A i \in 1..(Len(q) - 1) : Front(q)[i] = q[i]
         /\ Last(q) = q[Len(q)] /\ Last(q) \in S
<1>1. Len(q) \in Nat /\ Len(q) > 0 /\ Len(q) - 1 \in Nat /\ q \in [1..Len(q) -> S]
  BY EmptySeq, LenProperties
<1>2. Front(q) \in Seq(S) /\ Len(Front(q)) = Len(q) - 1
      /\ \A i \in 1..(Len(q) - 1) : Front(q)[i] = q[i]
  <2>1. Front(q) = SubSeq(q, 1, Len(q) - 1)
    BY DEF Front
  <2>2. \A i \in 1..(Len(q) - 1) : i \in 1..Len(q) /\ 1 + i - 1 = i
    BY <1>1
  <2> QED BY <1>1, <2>1, <2>2
<1>3. Last(q) = q[Len(q)] /\ Last(q) \in S
  BY <1>1 DEF Last
<1> QED BY <1>1, <1>2, <1>3

LEMMA ProgramKinds ==
  ASSUME TypeOK
  PROVE  Factorial \/ Fibonacci \/ Tree \/ Search \/ Stackful \/ Generator \/ T9
BY ContinuationsAssumption DEF TypeOK, Factorial, Fibonacci, Tree, Search, Stackful, Generator, T9,
   Numeric

LEMMA Arguments ==
  ASSUME TypeOK
  PROVE  /\ limit \in Nat /\ limit >= 4 /\ depth \in 1..limit /\ prog \in Programs
         /\ Factorial \/ Fibonacci \/ Stackful => arg \in Nat
         /\ prog \in {"fibonacci_yield", "fibonacci_yield_from"} => arg \in Nat
         /\ Search => arg \in Seq(Int)
         /\ prog = "fibonacci_with_send" => /\ arg \in Seq({<<>>} \cup Int \X Int)
                                            /\ arg # <<>> => arg[1] = <<>>
         /\ T9 => arg \in Seq(2..9)
BY ContinuationsAssumption DEF TypeOK, Factorial, Fibonacci, Stackful, Search, T9, Numeric

(* A program's own kind of call or step, and nobody else's.                 *)
LEMMA OnlyFactorial ==
  ASSUME Factorial
  PROVE  /\ CPS /\ ~Fibonacci /\ ~Tree /\ ~Search /\ ~Stackful /\ ~Generator /\ ~T9
         /\ prog # "fib_cps" /\ (Trampolined <=> prog # "fact_cps")
         /\ ~Trampolined <=> prog = "fact_cps"
BY DEF Factorial, CPS, Fibonacci, Tree, Search, Stackful, Generator, T9, Keypad, Trampolined

Unchanged == prog' = prog /\ arg' = arg /\ limit' = limit
OutOfStack(n) == /\ depth + n > limit /\ does' = "RecursionError"
                 /\ x' = x /\ kont' = kont /\ depth' = depth
Goes(n, what, value, frames) == /\ depth + n <= limit /\ does' = what /\ depth' = depth + n
                                /\ x' = value /\ kont' = frames
Bounces(n, value, frames) == /\ depth + n <= limit /\ does' = "bounce" /\ depth' = 1
                             /\ x' = value /\ kont' = frames

LEMMA DeeperIs ==
  ASSUME TypeOK, NEW n \in Nat, NEW what, NEW value, NEW frames, Deeper(n, what, value, frames)
  PROVE  OutOfStack(n) \/ Goes(n, what, value, frames)
<1>1. CASE depth + n <= limit
  BY <1>1 DEF Deeper, Goes
<1>2. CASE ~(depth + n <= limit)
  <2>1. depth + n > limit
    BY <1>2, Arguments
  <2> QED BY <1>2, <2>1 DEF Deeper, OutOfStack
<1> QED BY <1>1, <1>2

LEMMA CallAgainIs ==
  ASSUME TypeOK, NEW n \in Nat, NEW value, NEW frames, CallAgain(n, value, frames)
  PROVE  \/ OutOfStack(n)
         \/ ~Trampolined /\ Goes(n, "call", value, frames)
         \/ Trampolined /\ Bounces(n, value, frames)
<1>1. CASE Trampolined
  <2>1. Bounce(n, value, frames)
    BY <1>1, Zenon DEF CallAgain
  <2>2. CASE depth + n <= limit
    BY <1>1, <2>1, <2>2 DEF Bounce, Bounces
  <2>3. CASE ~(depth + n <= limit)
    <3>1. depth + n > limit
      BY <2>3, Arguments
    <3> QED BY <2>1, <2>3, <3>1 DEF Bounce, OutOfStack
  <2> QED BY <2>2, <2>3
<1>2. CASE ~Trampolined
  <2>1. Deeper(n, "call", value, frames)
    BY <1>2, Zenon DEF CallAgain, Direct
  <2> QED BY <1>2, <2>1, DeeperIs, Zenon
<1> QED BY <1>1, <1>2

LEMMA FactorialSteps ==
  ASSUME Factorial, TypeOK, FactorialInv, Next
  PROVE  /\ Unchanged
         /\ \/ /\ does = "call" /\ x = 0 /\ does' = "apply" /\ x' = 1
               /\ kont' = kont /\ depth' = depth
            \/ /\ does = "call" /\ x # 0
               /\ \/ OutOfStack(1)
                  \/ ~Trampolined /\ Goes(1, "call", x - 1, Append(kont, [times |-> x]))
                  \/ Trampolined /\ Bounces(1, x - 1, Append(kont, [times |-> x]))
            \/ does = "bounce" /\ (OutOfStack(2) \/ Goes(2, "call", x, kont))
            \/ /\ does = "apply" /\ kont # <<>>
               /\ OutOfStack(1) \/ Goes(1, "apply", Last(kont).times * x, Front(kont))
            \/ /\ does = "apply" /\ kont = <<>>
               /\ LET n == IF Trampolined THEN 2 ELSE 1 IN
                  OutOfStack(n) \/ Goes(n, Done, x, kont)
<1> USE OnlyFactorial
<1>1. CASE CallBase
  BY <1>1 DEF CallBase, Base, BaseValue, input, Unchanged
<1>2. CASE CallRecursive
  <2>1. does = "call" /\ x # 0 /\ Unchanged /\ CallAgain(1, x - 1, Append(kont, [times |-> x]))
    BY <1>2 DEF CallRecursive, Base, input, Unchanged, Pushed
  <2> QED BY <2>1, CallAgainIs
<1>3. CASE Thunk
  <2>1. does = "bounce" /\ Unchanged /\ Deeper(2, "call", x, kont)
    BY <1>3 DEF Thunk, input, Unchanged
  <2> QED BY <2>1, DeeperIs
<1>4. CASE Apply
  <2>1. does = "apply" /\ kont # <<>> /\ Unchanged
    BY <1>4 DEF Apply, input, Unchanged
  <2>2. Last(kont) \in [times : Nat]
    BY <2>1, Popping DEF FactorialInv
  <2>3. DOMAIN Last(kont) = {"times"}
    BY <2>2
  <2>4. Deeper(1, "apply", Last(kont).times * x, Front(kont))
    BY <1>4, <2>3 DEF Apply, Popped
  <2> QED BY <2>1, <2>4, DeeperIs
<1>5. CASE ApplyFirst
  <2>1. does = "apply" /\ kont = <<>> /\ Unchanged
        /\ Deeper(IF Trampolined THEN 2 ELSE 1, Done, x, kont)
    BY <1>5 DEF ApplyFirst, input, Unchanged
  <2> QED BY <2>1, DeeperIs
<1>6. CASE Leave
  BY <1>6 DEF Leave, FactorialInv, DoesOneOf, Done
<1> QED BY <1>1, <1>2, <1>3, <1>4, <1>5, <1>6
     DEF Next, SearchEnds, SearchFinds, SearchGoesOn, StepLeaf, StepEnter, StepAfterChild, StepExit,
         StepEmpty, InPhase, Resume, GeneratorEnds, NoDigits, Descend, Leaf, Return, Combining

(* The step changes the state of the program that runs, and of that only.   *)
LEMMA SameProgram ==
  ASSUME Unchanged
  PROVE  /\ Factorial' = Factorial /\ Fibonacci' = Fibonacci /\ Tree' = Tree /\ Search' = Search
         /\ Stackful' = Stackful /\ Generator' = Generator /\ T9' = T9 /\ CPS' = CPS
         /\ Trampolined' = Trampolined
BY DEF Unchanged, Factorial, Fibonacci, Tree, Search, Stackful, Generator, T9, CPS, Trampolined

LEMMA NeededBy ==
  /\ Trampolined => Needed = IF arg = 0 THEN 3 ELSE arg + 5
  /\ prog = "fact_cps" => Needed = 2 * (arg + 1)
  /\ prog = "fib_cps" => Needed = 2 * calls[arg]
BY DEF Needed, Trampolined

LEMMA NeededStays ==
  ASSUME Unchanged
  PROVE  /\ Trampolined => Needed' = Needed
         /\ prog \in {"fact_cps", "fib_cps"} => Needed' = Needed
BY DEF Unchanged, Needed, Trampolined

FactorialFrames ==
  /\ kont \in Seq([times : Nat]) /\ Len(kont) <= arg
  /\ \A i \in DOMAIN kont : kont[i].times = arg - (i - 1)

LEMMA FactorialFramesStep ==
  ASSUME Factorial, TypeOK, FactorialInv, Next
  PROVE  FactorialInv'
<1>1. Unchanged /\ Factorial' /\ arg \in Nat /\ arg' = arg
  BY FactorialSteps, SameProgram, Arguments DEF Unchanged
<1>2. FactorialFrames /\ Len(kont) \in Nat /\ DOMAIN kont = 1..Len(kont)
  BY DEF FactorialInv, FactorialFrames
<1>3. CASE /\ does = "call" /\ x = 0 /\ does' = "apply" /\ x' = 1 /\ kont' = kont
  <2>1. x = arg - Len(kont) /\ fact_direct[arg - Len(kont)] = 1
    BY <1>1, <1>2, <1>3, fact_direct_def DEF FactorialInv
  <2> QED BY <1>1, <1>3, <2>1 DEF FactorialInv, DoesOneOf, Done
<1>4. CASE /\ does = "call" /\ x # 0 /\ does' \in {"call", "bounce"} /\ x' = x - 1
           /\ kont' = Append(kont, [times |-> x])
  <2>1. x = arg - Len(kont) /\ Len(kont) < arg /\ x \in Nat
    <3>1. x = arg - Len(kont)
      BY <1>4 DEF FactorialInv
    <3>2. Len(kont) <= arg
      BY <1>2, Zenon DEF FactorialFrames
    <3>3. x # 0
      BY <1>4
    <3>4. arg \in Nat /\ Len(kont) \in Nat
      BY <1>1, <1>2
    <3> QED BY <3>1, <3>2, <3>3, <3>4
  <2>2. [times |-> x] \in [times : Nat]
    BY <2>1
  <2>3. /\ kont' \in Seq([times : Nat]) /\ Len(kont') = Len(kont) + 1
        /\ \A i \in 1..Len(kont) : kont'[i] = kont[i]
        /\ kont'[Len(kont) + 1] = [times |-> x]
    BY <1>2, <1>4, <2>2, Pushing DEF FactorialFrames
  <2>4. \A i \in DOMAIN kont' : kont'[i].times = arg - (i - 1)
    <3> SUFFICES ASSUME NEW i \in 1..Len(kont') PROVE kont'[i].times = arg - (i - 1)
      BY <2>3
    <3>1. CASE i \in 1..Len(kont)
      BY <1>2, <2>3, <3>1 DEF FactorialFrames
    <3>2. CASE i = Len(kont) + 1
      BY <1>1, <1>2, <2>1, <2>3, <3>2
    <3> QED BY <1>2, <2>3, <3>1, <3>2
  <2>5. x' = arg - Len(kont') /\ Len(kont') <= arg
    <3>1. x' = x - 1 /\ Len(kont') = Len(kont) + 1
      BY <1>4, <2>3
    <3> HIDE <1>4
    <3> QED BY <1>1, <1>2, <2>1, <3>1
  <2> QED BY <1>1, <1>4, <2>3, <2>4, <2>5 DEF FactorialInv, DoesOneOf
<1>5. CASE does = "bounce" /\ does' = "call" /\ x' = x /\ kont' = kont
  BY <1>1, <1>5 DEF FactorialInv, DoesOneOf
<1>6. CASE does = "apply" /\ kont # <<>> /\ does' = "apply" /\ x' = Last(kont).times * x /\ kont' = Front(kont)
  <2>1. /\ kont' \in Seq([times : Nat]) /\ Len(kont') = Len(kont) - 1 /\ Len(kont) > 0
        /\ \A i \in 1..(Len(kont) - 1) : kont'[i] = kont[i]
        /\ Last(kont) = kont[Len(kont)]
    BY <1>2, <1>6, Popping DEF FactorialFrames
  <2>2. Last(kont).times = arg - (Len(kont) - 1) /\ \A i \in DOMAIN kont' : kont'[i].times = arg - (i - 1)
    <3>1. DOMAIN kont' = 1..(Len(kont) - 1) /\ Len(kont) \in DOMAIN kont
          /\ \A i \in 1..(Len(kont) - 1) : i \in DOMAIN kont
      BY <1>2, <2>1
    <3> QED BY <1>2, <2>1, <3>1 DEF FactorialFrames
  <2>3. arg - Len(kont) \in Nat /\ arg - Len(kont') = (arg - Len(kont)) + 1
    BY <1>1, <1>2, <2>1 DEF FactorialFrames
  <2>4. fact_direct[arg - Len(kont')] = ((arg - Len(kont)) + 1) * fact_direct[arg - Len(kont)]
    BY <2>3, fact_direct_def
  <2>5. Last(kont).times = (arg - Len(kont)) + 1
    BY <1>1, <1>2, <2>2
  <2>6. x = fact_direct[arg - Len(kont)]
    BY <1>6 DEF FactorialInv
  <2>7. x' = fact_direct[arg - Len(kont')]
    BY <1>6, <2>4, <2>5, <2>6
  <2> QED BY <1>1, <1>2, <1>6, <2>1, <2>2, <2>7 DEF FactorialInv, FactorialFrames, DoesOneOf
<1>7. CASE does' \in {Done, "RecursionError"} /\ kont' = kont
  BY <1>1, <1>7 DEF FactorialInv, DoesOneOf, Done
<1> QED BY FactorialSteps, <1>3, <1>4, <1>5, <1>6, <1>7 DEF OutOfStack, Goes, Bounces

LEMMA FactorialDepthStep ==
  ASSUME Factorial, TypeOK, FactorialInv, DepthInv, StackUse, Next
  PROVE  TypeOK' /\ DepthInv' /\ StackUse'
<1>1. Unchanged /\ (prog = "fact_cps" <=> ~Trampolined) /\ prog # "fib_cps" /\ ~Search /\ ~Tree /\ CPS
      /\ Factorial' /\ Trampolined' = Trampolined /\ CPS' /\ ~Search'
  BY FactorialSteps, OnlyFactorial, SameProgram DEF Unchanged
<1>2. /\ arg \in Nat /\ limit \in Nat /\ limit >= 4 /\ depth \in Nat /\ depth >= 1 /\ depth <= limit
      /\ Len(kont) \in Nat /\ Len(kont) <= arg
      /\ arg' = arg /\ limit' = limit /\ prog' = prog
  BY Arguments, <1>1 DEF FactorialInv, Unchanged
<1>3. /\ does = "call" => x = arg - Len(kont)
      /\ kont \in Seq([times : Nat])
      /\ kont # <<>> <=> Len(kont) > 0
  BY <1>2, EmptySeq DEF FactorialInv
<1>4. Needed' = Needed /\ Needed = IF Trampolined THEN IF arg = 0 THEN 3 ELSE arg + 5 ELSE 2 * (arg + 1)
  BY <1>1, NeededBy, NeededStays
<1>5. does = "bounce" => Trampolined /\ depth = 1 /\ kont # <<>>
  BY DEF DepthInv
<1>6. CASE ~Trampolined
  <2>1. /\ does = "call" => depth = 1 + Len(kont)
        /\ does = "apply" => depth = 1 + 2 * arg - Len(kont)
    BY <1>1, <1>6 DEF DepthInv
  <2>2. /\ does' \in {"call", "apply", Done, "RecursionError"} /\ depth' \in 1..limit
        /\ does' = "call" => depth' = 1 + Len(kont')
        /\ does' = "apply" => depth' = 1 + 2 * arg - Len(kont')
        /\ does' = "RecursionError" => 2 * (arg + 1) > limit
        /\ does' = Done => 2 * (arg + 1) <= limit
    <3>1. CASE /\ does = "call" /\ x = 0 /\ does' = "apply" /\ kont' = kont /\ depth' = depth
      BY <1>2, <1>3, <2>1, <3>1 DEF Done
    <3>2. CASE does = "call" /\ x # 0 /\ OutOfStack(1)
      BY <1>2, <1>3, <2>1, <3>2 DEF OutOfStack, Done
    <3>3. CASE does = "call" /\ Goes(1, "call", x - 1, Append(kont, [times |-> x]))
      <4>1. Len(kont') = Len(kont) + 1
        BY <1>3, <3>3 DEF Goes
      <4> QED BY <1>2, <2>1, <3>3, <4>1 DEF Goes, Done
    <3>4. CASE does = "apply" /\ OutOfStack(1)
      BY <1>2, <2>1, <3>4 DEF OutOfStack, Done
    <3>5. CASE does = "apply" /\ kont # <<>> /\ Goes(1, "apply", Last(kont).times * x, Front(kont))
      <4>1. Len(kont') = Len(kont) - 1
        BY <1>3, <3>5, Popping DEF Goes
      <4> QED BY <1>2, <2>1, <3>5, <4>1 DEF Goes, Done
    <3>6. CASE does = "apply" /\ kont = <<>> /\ Goes(1, Done, x, kont)
      BY <1>2, <1>3, <2>1, <3>6 DEF Goes, Done
    <3> QED BY FactorialSteps, <1>5, <1>6, <3>1, <3>2, <3>3, <3>4, <3>5, <3>6
  <2>3. TypeOK'
    BY <1>1, <1>2, <2>2 DEF TypeOK, Done, Unchanged
  <2>4. DepthInv'
    BY <1>1, <1>2, <1>6, <2>2 DEF DepthInv, Done
  <2>5. StackUse'
    BY <1>1, <1>2, <1>4, <1>6, <2>2 DEF StackUse, Done
  <2> QED BY <2>3, <2>4, <2>5
<1>7. CASE Trampolined
  <2> DEFINE top == IF arg = 0 THEN 1 ELSE 3 + arg
  <2>1. /\ does = "call" => depth = IF kont = <<>> THEN 1 ELSE 3
        /\ does = "apply" => depth + Len(kont) = top
    BY <1>7, Zenon DEF DepthInv
  <2>2. /\ does' \in {"call", "bounce", "apply", Done, "RecursionError"} /\ depth' \in 1..limit
        /\ does' = "call" => depth' = IF kont' = <<>> THEN 1 ELSE 3
        /\ does' = "bounce" => depth' = 1 /\ kont' # <<>>
        /\ does' = "apply" => depth' + Len(kont') = top
        /\ does' = "RecursionError" => Needed > limit
        /\ does' = Done => Needed <= limit
    <3>0. Needed = IF arg = 0 THEN 3 ELSE arg + 5
      BY <1>4, <1>7
    <3>1. CASE /\ does = "call" /\ x = 0 /\ does' = "apply" /\ kont' = kont /\ depth' = depth
      BY <1>2, <1>3, <2>1, <3>1 DEF Done
    <3>2. CASE does = "call" /\ OutOfStack(1)
      BY <1>2, <1>3, <2>1, <3>2 DEF OutOfStack
    <3>3. CASE does = "call" /\ Bounces(1, x - 1, Append(kont, [times |-> x]))
      <4>1. Len(kont') = Len(kont) + 1 /\ kont' # <<>>
        BY <1>3, <3>3 DEF Bounces
      <4> QED BY <1>2, <3>3, <4>1 DEF Bounces, Done
    <3>4. CASE does = "bounce" /\ OutOfStack(2)
      BY <1>2, <1>5, <3>4 DEF OutOfStack
    <3>5. CASE does = "bounce" /\ Goes(2, "call", x, kont)
      BY <1>2, <1>5, <3>5 DEF Goes, Done
    <3>6. CASE does = "apply" /\ kont # <<>> /\ OutOfStack(1)
      BY <1>2, <1>3, <2>1, <3>0, <3>6 DEF OutOfStack, Done
    <3>7. CASE does = "apply" /\ kont # <<>> /\ Goes(1, "apply", Last(kont).times * x, Front(kont))
      <4>1. Len(kont') = Len(kont) - 1
        BY <1>3, <3>7, Popping DEF Goes
      <4> QED BY <1>2, <2>1, <3>7, <4>1 DEF Goes, Done
    <3>8. CASE does = "apply" /\ kont = <<>> /\ OutOfStack(2)
      BY <1>2, <1>3, <2>1, <3>0, <3>8 DEF OutOfStack, Done
    <3>9. CASE does = "apply" /\ kont = <<>> /\ Goes(2, Done, x, kont)
      BY <1>2, <1>3, <2>1, <3>0, <3>9 DEF Goes, Done
    <3> QED BY FactorialSteps, <1>7, <3>1, <3>2, <3>3, <3>4, <3>5, <3>6, <3>7, <3>8, <3>9
  <2>3. TypeOK'
    BY <1>1, <1>2, <2>2 DEF TypeOK, Done, Unchanged
  <2>4. DepthInv'
    <3>1. prog' # "fact_cps" /\ Trampolined' /\ top' = top
      BY <1>1, <1>2, <1>7
    <3> HIDE DEF top
    <3>2. does' = "apply" => depth' + Len(kont') <= top'
      <4>1. top \in Nat
        BY <1>2 DEF top
      <4> QED BY <2>2, <3>1, <4>1
    <3>3. does' = "apply" => depth' + Len(kont') = top'
      BY <2>2, <3>1
    <3> QED BY <2>2, <3>1, <3>2, <3>3, Zenon DEF DepthInv, top
  <2>5. StackUse'
    <3>1. does' = "call" => depth' <= 3
      BY <2>2
    <3>2. depth' <= limit' /\ (does' = "RecursionError" => Needed' > limit') /\ (does' = Done => Needed' <= limit')
      BY <1>2, <1>4, <2>2
    <3> QED BY <1>1, <1>2, <3>1, <3>2, Zenon DEF StackUse, Done
  <2> QED BY <2>3, <2>4, <2>5
<1> QED BY <1>6, <1>7

--------------------------------------------------------------------------------
(* The search.                                                              *)
LEMMA OnlySearch ==
  ASSUME Search
  PROVE  /\ ~CPS /\ ~Factorial /\ ~Fibonacci /\ ~Tree /\ ~Stackful /\ ~Generator /\ ~T9
         /\ prog \notin {"fact_cps", "fib_cps"} /\ ~Trampolined
BY DEF Factorial, CPS, Fibonacci, Tree, Search, Stackful, Generator, T9, Keypad, Trampolined

LEMMA SearchSteps ==
  ASSUME Search, TypeOK, SearchInv, DepthInv, Next
  PROVE  /\ Unchanged
         /\ \/ /\ does = "call" /\ x = Len(arg) /\ does' = "return" /\ x' = -1 /\ depth' = depth
            \/ /\ does = "call" /\ x < Len(arg) /\ Even(arg[x + 1])
               /\ OutOfStack(3) \/ Goes(3, "jump", arg[x + 1], kont)
            \/ /\ does = "call" /\ x < Len(arg) /\ ~Even(arg[x + 1])
               /\ OutOfStack(1) \/ Goes(1, "call", x + 1, kont)
            \/ /\ does \in {"return", "jump"} /\ does' = Done /\ x' = x /\ depth' = 1
<1> USE OnlySearch
<1>0. does # "bounce"
  BY DEF DepthInv
<1>1. CASE SearchEnds
  <2>1. x \in 0..Len(arg) /\ arg \in Seq(Int)
    BY <1>1, Arguments DEF SearchEnds, SearchInv
  <2>2. Len(arg) \in Nat
    BY <2>1
  <2>3. x >= Len(arg)
    BY <1>1 DEF SearchEnds
  <2>4. x = Len(arg)
    BY <2>1, <2>2, <2>3
  <2> QED BY <1>1, <2>4 DEF SearchEnds, input, Unchanged
<1>2. CASE SearchFinds
  <2>1. does = "call" /\ x < Len(arg) /\ Even(arg[x + 1]) /\ Unchanged /\ Deeper(3, "jump", arg[x + 1], kont)
    BY <1>2 DEF SearchFinds, Num, input, Unchanged
  <2> QED BY <2>1, DeeperIs
<1>3. CASE SearchGoesOn
  <2>1. does = "call" /\ x < Len(arg) /\ ~Even(arg[x + 1]) /\ Unchanged /\ Deeper(1, "call", x + 1, kont)
    BY <1>3 DEF SearchGoesOn, Num, input, Unchanged
  <2> QED BY <2>1, DeeperIs
<1>4. CASE Leave
  BY <1>4 DEF Leave, input, Unchanged
<1>5. CASE Thunk
  BY <1>0, <1>5 DEF Thunk
<1> QED BY <1>1, <1>2, <1>3, <1>4, <1>5
     DEF Next, CallBase, CallRecursive, Apply, ApplyFirst, StepLeaf, StepEnter, StepAfterChild, StepExit,
         StepEmpty, InPhase, Resume, GeneratorEnds, NoDigits, Descend, Leaf, Return, Combining

LEMMA OddSoFar ==
  ASSUME Unchanged
  PROVE  \A k : AllOdd(k)' = AllOdd(k)
BY DEF Unchanged, AllOdd

(* There is one first even number, and none if all are odd.                 *)
FirstEven(i) == Even(arg[i]) /\ AllOdd(i - 1)
LEMMA OneFirst ==
  ASSUME Len(arg) \in Nat, NEW i \in 1..Len(arg), FirstEven(i)
  PROVE  ~AllOdd(Len(arg)) /\ \A j \in 1..Len(arg) : FirstEven(j) => j = i
<1>1. ~AllOdd(Len(arg))
  BY DEF FirstEven, AllOdd
<1>2. ASSUME NEW j \in 1..Len(arg), FirstEven(j), j # i PROVE FALSE
  <2>1. j \in 1..(i - 1) \/ i \in 1..(j - 1)
    BY <1>2
  <2> QED BY <1>2, <2>1 DEF FirstEven, AllOdd
<1> QED BY <1>1, <1>2

(* RaisesBelow(n) after a step: what it says of does' and limit.            *)
Limited(what, n) == (what = "RecursionError" => limit < n) /\ (what = Done => limit >= n)
SearchLimited(what) == /\ AllOdd(Len(arg)) => Limited(what, Len(arg) + 4)
                       /\ \A i \in 1..Len(arg) : FirstEven(i) => Limited(what, i + 6)
LEMMA SearchStackPrimed ==
  ASSUME Unchanged, SearchLimited(does')
  PROVE  SearchStack'
<1>1. arg' = arg /\ limit' = limit
  BY DEF Unchanged
<1>2. AllOdd(Len(arg))' <=> AllOdd(Len(arg))
  BY <1>1, Zenon DEF AllOdd
<1>3. RaisesBelow(Len(arg) + 4)' <=> Limited(does', Len(arg) + 4)
  BY <1>1, Zenon DEF RaisesBelow, Limited
<1>4. \A i : (Even(arg[i]) /\ AllOdd(i - 1))' <=> FirstEven(i)
  BY <1>1, Zenon DEF FirstEven, AllOdd, Even
<1>5. \A i : RaisesBelow(i + 6)' <=> Limited(does', i + 6)
  BY <1>1, Zenon DEF RaisesBelow, Limited
<1> QED BY <1>1, <1>2, <1>3, <1>4, <1>5, Zenon DEF SearchStack, SearchLimited

FoundFirst == \E i \in 1..Len(arg) : x = arg[i] /\ Even(x) /\ AllOdd(i - 1)
LEMMA SearchStep ==
  ASSUME Search, TypeOK, SearchInv, DepthInv, StackUse, Results, Next
  PROVE  TypeOK' /\ DepthInv' /\ StackUse' /\ SearchInv' /\ Results'
<1>1. /\ prog' = prog /\ arg' = arg /\ limit' = limit /\ Search' /\ prog = "search"
      /\ ~CPS' /\ ~Factorial' /\ ~Fibonacci' /\ ~Tree' /\ ~Stackful' /\ ~Generator' /\ ~T9' /\ ~Trampolined'
      /\ prog' \notin {"fact_cps", "fib_cps"}
  BY SearchSteps, SameProgram, OnlySearch DEF Unchanged, Search
<1>2. /\ arg \in Seq(Int) /\ Len(arg) \in Nat /\ limit \in Nat /\ limit >= 4
      /\ depth \in Nat /\ depth >= 1 /\ depth <= limit
  BY Arguments
<1>3. does = "call" => x \in 0..Len(arg) /\ AllOdd(x) /\ depth = 4 + x
  BY DEF SearchInv
<1>4. /\ does = "return" => x = -1 /\ AllOdd(Len(arg)) /\ depth = 4 + Len(arg)
      /\ does = "jump" => \E i \in 1..Len(arg) : /\ x = arg[i] /\ Even(x) /\ AllOdd(i - 1)
                                                 /\ depth = i + 6
  BY Zenon DEF SearchInv
<1>5. (\A k : AllOdd(k)' = AllOdd(k)) /\ (AllOdd(Len(arg))' <=> AllOdd(Len(arg)))
  <2>1. \A k : AllOdd(k)' = AllOdd(k)
    BY SearchSteps, OddSoFar, Zenon
  <2>2. AllOdd(Len(arg))' <=> AllOdd(Len(arg))
    BY <1>1, Zenon DEF AllOdd
  <2> QED BY <2>1, <2>2
<1>6. does = "call" /\ x < Len(arg) => x + 1 \in 1..Len(arg) /\ x + 1 \in Nat /\ arg[x + 1] \in Int /\ (x + 1) - 1 = x
  BY <1>2, <1>3
<1>7. FoundFirst' = \E i \in 1..Len(arg) : x' = arg[i] /\ Even(x') /\ AllOdd(i - 1)
  BY <1>1, <1>5, Zenon DEF FoundFirst, Even
<1>8. /\ does' \in {"call", "return", "jump", Done, "RecursionError"} /\ depth' \in 1..limit
      /\ does' = "call" => x' \in 0..Len(arg) /\ AllOdd(x') /\ depth' = 4 + x'
      /\ does' = "return" => x' = -1 /\ AllOdd(Len(arg)) /\ depth' = 4 + Len(arg)
      /\ does' = "jump" => \E i \in 1..Len(arg) : /\ x' = arg[i] /\ Even(x') /\ AllOdd(i - 1)
                                                  /\ depth' = i + 6
      /\ does' = Done => (x' = -1 /\ AllOdd(Len(arg))) \/ FoundFirst'
  <2>1. CASE does = "call" /\ x = Len(arg) /\ does' = "return" /\ x' = -1 /\ depth' = depth
    BY <1>2, <1>3, <2>1 DEF Done
  <2>2. CASE does = "call" /\ x < Len(arg) /\ Even(arg[x + 1]) /\ (OutOfStack(3) \/ Goes(3, "jump", arg[x + 1], kont))
    <3>1. CASE OutOfStack(3)
      BY <1>2, <1>3, <2>2, <3>1 DEF OutOfStack, Done
    <3>2. CASE Goes(3, "jump", arg[x + 1], kont)
      <4>1. does' = "jump" /\ x' = arg[x + 1] /\ depth' = depth + 3 /\ depth + 3 <= limit
        BY <3>2 DEF Goes
      <4>2. depth' = (x + 1) + 6 /\ depth' \in 1..limit
        BY <1>2, <1>3, <1>6, <2>2, <4>1
      <4>3. x' = arg[x + 1] /\ Even(x') /\ AllOdd((x + 1) - 1)
        BY <1>3, <1>6, <2>2, <4>1
      <4> QED BY <1>6, <2>2, <4>1, <4>2, <4>3 DEF Done
    <3> QED BY <2>2, <3>1, <3>2
  <2>3. CASE does = "call" /\ x < Len(arg) /\ ~Even(arg[x + 1]) /\ (OutOfStack(1) \/ Goes(1, "call", x + 1, kont))
    <3>1. CASE OutOfStack(1)
      BY <1>2, <1>3, <2>3, <3>1 DEF OutOfStack, Done
    <3>2. CASE Goes(1, "call", x + 1, kont)
      <4>1. does' = "call" /\ x' = x + 1 /\ depth' = depth + 1 /\ depth + 1 <= limit
        BY <3>2 DEF Goes
      <4>2. AllOdd(x + 1)
        <5>1. \A i \in 1..(x + 1) : i = x + 1 \/ i \in 1..x
          BY <1>6, <2>3
        <5> QED BY <1>3, <2>3, <5>1 DEF AllOdd
      <4>3. x + 1 \in 0..Len(arg) /\ depth + 1 = 4 + (x + 1)
        BY <1>2, <1>3, <1>6, <2>3
      <4>4. depth + 1 \in 1..limit
        BY <1>2, <4>1
      <4> QED BY <4>1, <4>2, <4>3, <4>4 DEF Done
    <3> QED BY <2>3, <3>1, <3>2
  <2>4. CASE does \in {"return", "jump"} /\ does' = Done /\ x' = x /\ depth' = 1
    <3>1. does = "jump" => FoundFirst
      BY <1>4, Zenon DEF FoundFirst
    <3>2. FoundFirst => FoundFirst'
      BY <1>7, <2>4, Zenon DEF FoundFirst
    <3> QED BY <1>2, <1>4, <2>4, <3>1, <3>2 DEF Done
  <2> QED BY SearchSteps, <2>1, <2>2, <2>3, <2>4
<1>9. TypeOK'
  BY <1>1, <1>8 DEF TypeOK, Done
<1>10. DepthInv'
  BY <1>1, <1>8 DEF DepthInv, Done
<1>11. StackUse'
  <2>1. SearchLimited(does')
    <3>1. CASE does = "call" /\ x < Len(arg) /\ Even(arg[x + 1]) /\ OutOfStack(3)
      <4>1. FirstEven(x + 1) /\ x + 1 \in 1..Len(arg) /\ limit < (x + 1) + 6
        BY <1>2, <1>3, <1>6, <3>1 DEF FirstEven, OutOfStack
      <4>2. ~AllOdd(Len(arg)) /\ \A j \in 1..Len(arg) : FirstEven(j) => j = x + 1
        BY <1>2, <4>1, OneFirst
      <4> QED BY <3>1, <4>1, <4>2 DEF SearchLimited, Limited, OutOfStack, Done
    <3>2. CASE does = "call" /\ x < Len(arg) /\ ~Even(arg[x + 1]) /\ OutOfStack(1)
      <4>1. limit < x + 5 /\ limit < Len(arg) + 4 /\ x \in Nat
        BY <1>2, <1>3, <3>2 DEF OutOfStack
      <4>2. ASSUME NEW i \in 1..Len(arg), FirstEven(i) PROVE limit < i + 6
        <5>1. i # x + 1 /\ ~(i \in 1..x)
          BY <1>3, <3>2, <4>2 DEF FirstEven, AllOdd
        <5> QED BY <1>2, <4>1, <5>1
      <4> QED BY <3>2, <4>1, <4>2 DEF SearchLimited, Limited, OutOfStack, Done
    <3>3. CASE does = "return" /\ does' = Done
      <4>1. AllOdd(Len(arg)) /\ limit >= Len(arg) + 4
        BY <1>2, <1>4, <3>3
      <4>2. \A i \in 1..Len(arg) : ~FirstEven(i)
        BY <1>2, <4>1, OneFirst
      <4> QED BY <3>3, <4>1, <4>2 DEF SearchLimited, Limited, Done
    <3>4. CASE does = "jump" /\ does' = Done
      <4>1. PICK i \in 1..Len(arg) : FirstEven(i) /\ depth = i + 6
        BY <1>4, <3>4 DEF FirstEven
      <4>2. ~AllOdd(Len(arg)) /\ \A j \in 1..Len(arg) : FirstEven(j) => j = i
        BY <1>2, <4>1, OneFirst
      <4>3. limit >= i + 6
        BY <1>2, <4>1
      <4> QED BY <3>4, <4>2, <4>3 DEF SearchLimited, Limited, Done
    <3>5. CASE does' \in {"call", "return", "jump"}
      BY <3>5 DEF SearchLimited, Limited, Done
    <3> QED BY SearchSteps, <3>1, <3>2, <3>3, <3>4, <3>5 DEF Goes
  <2>2. SearchStack'
    BY SearchSteps, <2>1, SearchStackPrimed
  <2>3. depth' <= limit'
    BY <1>1, <1>2, <1>8
  <2> QED BY <1>1, <2>2, <2>3, Zenon DEF StackUse
<1>12. SearchInv'
  <2>1. does' = "jump" => (\E i \in 1..Len(arg) : /\ x = arg[i] /\ Even(x) /\ AllOdd(i - 1)
                                                  /\ depth = i + 6)'
    BY <1>1, <1>5, <1>8, Zenon DEF Even
  <2>2. does' = "return" => x' = -1 /\ AllOdd(Len(arg))' /\ depth' = 4 + Len(arg')
    BY <1>1, <1>5, <1>8
  <2>3. does' = "call" => x' \in 0..Len(arg') /\ AllOdd(x)' /\ depth' = 4 + x'
    BY <1>1, <1>8 DEF AllOdd
  <2> QED BY <1>8, <2>1, <2>2, <2>3 DEF SearchInv, DoesOneOf
<1>13. Results'
  <2>1. does' = Done => IF AllOdd(Len(arg))' THEN x' = -1 ELSE FoundFirst'
    <3>1. CASE does' = Done /\ AllOdd(Len(arg))
      <4>1. ~FoundFirst'
        <5> SUFFICES ASSUME NEW i \in 1..Len(arg), x' = arg[i], Even(x') PROVE FALSE
          BY <1>7, Zenon
        <5> QED BY <3>1 DEF AllOdd
      <4> QED BY <1>5, <1>8, <3>1, <4>1
    <3>2. CASE does' = Done /\ ~AllOdd(Len(arg))
      BY <1>5, <1>8, <3>2
    <3> QED BY <1>5, <3>1, <3>2
  <2> QED BY <1>1, <2>1, Zenon DEF Results, FoundFirst
<1> QED BY <1>9, <1>10, <1>11, <1>12, <1>13

--------------------------------------------------------------------------------
(* The explicit stack.                                                      *)
LEMMA OnlyStackful ==
  ASSUME Stackful
  PROVE  /\ ~CPS /\ ~Factorial /\ ~Fibonacci /\ ~Tree /\ ~Search /\ ~Generator /\ ~T9
         /\ prog \notin {"fact_cps", "fib_cps"} /\ ~Trampolined
BY DEF Factorial, CPS, Fibonacci, Tree, Search, Stackful, Generator, T9, Keypad, Trampolined

LEMMA StackfulSteps ==
  ASSUME Stackful, StackfulInv, DepthInv, Next
  PROVE  /\ Unchanged /\ does = "run" /\ depth' = depth
         /\ \/ StepLeaf \/ StepEnter \/ StepAfterChild \/ StepExit \/ StepEmpty
<1> USE OnlyStackful
<1>1. CASE Leave
  BY <1>1 DEF Leave, StackfulInv, Done
<1>2. CASE Thunk
  BY <1>2 DEF Thunk, DepthInv
<1>3. CASE \/ StepLeaf \/ StepEnter \/ StepAfterChild \/ StepExit \/ StepEmpty
  BY <1>3 DEF StepLeaf, StepEnter, StepAfterChild, StepExit, StepEmpty, InPhase, input, Unchanged
<1> QED BY <1>1, <1>2, <1>3
     DEF Next, CallBase, CallRecursive, Apply, ApplyFirst, SearchEnds, SearchFinds, SearchGoesOn,
         Resume, GeneratorEnds, NoDigits, Descend, Leaf, Return, Combining

Phases == {"enter", "after_child", "exit"}
Frames == [n : Nat, depth : Nat, phase : Phases]
Yields == ({"leaf"} \X Nat) \cup ({"enter", "exit"} \X Nat \X Nat)

(* The frames of a well-formed stack, and what has been yielded with one.   *)
Levels(k) == /\ k \in Seq(Frames) /\ Len(k) <= arg + 1
             /\ \A i \in 1..Len(k) : /\ k[i].depth = i - 1 /\ k[i].n = arg - (i - 1)
                                     /\ i < Len(k) => k[i].phase = "after_child"
OutLength(k) == IF k # <<>> /\ Last(k).phase = "enter" THEN Len(k) - 1 ELSE 2 * arg + 3 - Len(k)
Events(o) == o \in Seq(Yields) /\ \A k \in 1..Len(o) : o[k] = Event(k)

StackfulFacts == Stackful =>
  /\ does \in {"run", Done} /\ (does = Done => kont = <<>>)
  /\ Levels(kont) /\ Events(out) /\ Len(out) = OutLength(kont)
LEMMA StackfulInvIs == StackfulInv <=> StackfulFacts
<1>1. /\ \A s \in Seq(Frames) : DOMAIN s = 1..Len(s)
      /\ \A s \in Seq(Yields) : DOMAIN s = 1..Len(s)
  OBVIOUS
<1> QED BY <1>1 DEF StackfulInv, StackfulFacts, Levels, OutLength, Events, Frames, Phases, Yields

LEMMA TopLevel ==
  ASSUME NEW k, Levels(k), k # <<>>, arg \in Nat
  PROVE  /\ Len(k) \in 1..(arg + 1) /\ Last(k) = k[Len(k)] /\ Last(k) \in Frames
         /\ Last(k).depth = Len(k) - 1 /\ Last(k).n = arg - (Len(k) - 1)
         /\ Levels(Front(k)) /\ Len(Front(k)) = Len(k) - 1
         /\ Front(k) # <<>> => Last(Front(k)).phase = "after_child"
<1>1. k \in Seq(Frames) /\ Len(k) <= arg + 1 /\ Len(k) \in Nat /\ Len(k) > 0
  BY EmptySeq DEF Levels
<1>2. /\ Front(k) \in Seq(Frames) /\ Len(Front(k)) = Len(k) - 1
      /\ \A i \in 1..(Len(k) - 1) : Front(k)[i] = k[i]
      /\ Last(k) = k[Len(k)] /\ Last(k) \in Frames
  BY <1>1, Popping
<1>3. Len(k) \in 1..Len(k)
  BY <1>1
<1>4. Last(k).depth = Len(k) - 1 /\ Last(k).n = arg - (Len(k) - 1)
  BY <1>2, <1>3 DEF Levels
<1>5. \A i \in 1..(Len(k) - 1) : i \in 1..Len(k) /\ i < Len(k)
  BY <1>1
<1>6. Levels(Front(k))
  <2>1. \A i \in 1..(Len(k) - 1) : /\ Front(k)[i].depth = i - 1 /\ Front(k)[i].n = arg - (i - 1)
                                   /\ Front(k)[i].phase = "after_child"
    BY <1>2, <1>5 DEF Levels
  <2>2. Len(k) - 1 <= arg + 1
    BY <1>1
  <2> QED BY <1>2, <2>1, <2>2 DEF Levels
<1>7. Front(k) # <<>> => Last(Front(k)).phase = "after_child"
  <2> SUFFICES ASSUME Front(k) # <<>> PROVE Last(Front(k)).phase = "after_child"
    OBVIOUS
  <2>1. Len(k) - 1 > 0 /\ Last(Front(k)) = Front(k)[Len(k) - 1]
    BY <1>2, Popping
  <2>2. Len(k) - 1 \in 1..(Len(k) - 1)
    BY <1>1, <2>1
  <2> QED BY <1>2, <1>5, <2>1, <2>2 DEF Levels
<1> QED BY <1>1, <1>2, <1>3, <1>4, <1>6, <1>7

(* A frame put where the last one was, and one more.                        *)
LEMMA PutLevel ==
  ASSUME NEW k, Levels(k), arg \in Nat, NEW f \in Frames, Len(k) < arg + 1,
         k # <<>> => Last(k).phase = "after_child",
         f.depth = Len(k), f.n = arg - Len(k)
  PROVE  /\ Levels(Append(k, f)) /\ Len(Append(k, f)) = Len(k) + 1
         /\ Append(k, f) # <<>> /\ Last(Append(k, f)) = f
<1> DEFINE q == Append(k, f)
<1>1. k \in Seq(Frames) /\ Len(k) \in Nat
  BY DEF Levels
<1>2. /\ q \in Seq(Frames) /\ Len(q) = Len(k) + 1
      /\ \A i \in 1..Len(k) : q[i] = k[i]
      /\ q[Len(k) + 1] = f
  BY <1>1, Pushing
<1> HIDE DEF q
<1>3. q # <<>> /\ Last(q) = f
  BY <1>1, <1>2 DEF Last
<1>4. ASSUME NEW i \in 1..Len(q)
      PROVE  q[i].depth = i - 1 /\ q[i].n = arg - (i - 1) /\ (i < Len(q) => q[i].phase = "after_child")
  <2>1. CASE i \in 1..Len(k)
    <3>1. CASE i < Len(k)
      BY <1>2, <2>1, <3>1 DEF Levels
    <3>2. CASE i = Len(k)
      <4>1. k # <<>> /\ Last(k) = k[i]
        BY <1>1, <2>1, <3>2 DEF Last
      <4> QED BY <1>2, <2>1, <4>1 DEF Levels
    <3> QED BY <1>1, <2>1, <3>1, <3>2
  <2>2. CASE i = Len(k) + 1
    BY <1>1, <1>2, <2>2
  <2> QED BY <1>1, <1>2, <2>1, <2>2
<1>5. Len(q) <= arg + 1
  BY <1>1, <1>2
<1>6. Levels(q)
  BY <1>2, <1>4, <1>5 DEF Levels
<1> QED BY <1>2, <1>3, <1>6 DEF q

LEMMA OneMore ==
  ASSUME NEW o, Events(o), NEW e \in Yields, e = Event(Len(o) + 1)
  PROVE  Events(Append(o, e)) /\ Len(Append(o, e)) = Len(o) + 1 /\ Len(o) \in Nat
<1> DEFINE q == Append(o, e)
<1>1. o \in Seq(Yields) /\ Len(o) \in Nat
  BY DEF Events
<1>2. /\ q \in Seq(Yields) /\ Len(q) = Len(o) + 1
      /\ \A i \in 1..Len(o) : q[i] = o[i]
      /\ q[Len(o) + 1] = e
  BY <1>1, Pushing
<1> HIDE DEF q
<1>3. \A i \in 1..Len(q) : q[i] = Event(i)
  <2>1. \A i \in 1..Len(q) : i \in 1..Len(o) \/ i = Len(o) + 1
    BY <1>1, <1>2
  <2> QED BY <1>2, <2>1 DEF Events
<1> QED BY <1>1, <1>2, <1>3 DEF q, Events

LEMMA PrimedLevels ==
  ASSUME Unchanged
  PROVE  /\ \A k : Event(k)' = Event(k)
         /\ Levels(kont') => Levels(kont)'
         /\ OutLength(kont)' = OutLength(kont')
         /\ Events(out') => Events(out)'
<1>1. \A k : Event(k)' = Event(k)
  BY DEF Unchanged, Event
<1>2. Levels(kont') => Levels(kont)'
  BY DEF Unchanged, Levels
<1>3. OutLength(kont)' = OutLength(kont')
  BY DEF Unchanged, OutLength
<1>4. Events(out') => Events(out)'
  BY <1>1 DEF Events
<1> QED BY <1>1, <1>2, <1>3, <1>4

(* Frames by their fields, and moved to another phase.                      *)
LEMMA FrameFields ==
  ASSUME NEW f \in Frames, NEW p \in Phases
  PROVE  /\ [f EXCEPT !.phase = p] \in Frames
         /\ [f EXCEPT !.phase = p].depth = f.depth /\ [f EXCEPT !.phase = p].n = f.n
         /\ [f EXCEPT !.phase = p].phase = p
         /\ f.n \in Nat /\ f.depth \in Nat
BY DEF Frames, Phases

LEMMA MovedLevel ==
  ASSUME NEW p \in Phases, Stackful, Levels(kont), kont # <<>>, arg \in Nat
  PROVE  /\ Levels(MovedTo(p)) /\ Len(MovedTo(p)) = Len(kont)
         /\ MovedTo(p) # <<>> /\ Last(MovedTo(p)).phase = p
<1>1. /\ Len(kont) \in 1..(arg + 1) /\ Last(kont) \in Frames
      /\ Last(kont).depth = Len(kont) - 1 /\ Last(kont).n = arg - (Len(kont) - 1)
      /\ Levels(Front(kont)) /\ Len(Front(kont)) = Len(kont) - 1
      /\ Front(kont) # <<>> => Last(Front(kont)).phase = "after_child"
  BY TopLevel
<1> DEFINE f == [Last(kont) EXCEPT !.phase = p]
<1>2. f \in Frames /\ f.depth = Len(kont) - 1 /\ f.n = arg - (Len(kont) - 1) /\ f.phase = p
  BY <1>1, FrameFields
<1>3. MovedTo(p) = Append(Front(kont), f)
  BY DEF MovedTo, Popped, Frame
<1> HIDE DEF f
<1>4. Len(Front(kont)) < arg + 1 /\ f.depth = Len(Front(kont)) /\ f.n = arg - Len(Front(kont))
      /\ Len(Front(kont)) + 1 = Len(kont)
  BY <1>1, <1>2
<1>5. /\ Levels(Append(Front(kont), f)) /\ Len(Append(Front(kont), f)) = Len(Front(kont)) + 1
      /\ Append(Front(kont), f) # <<>> /\ Last(Append(Front(kont), f)) = f
  BY <1>1, <1>2, <1>4, PutLevel
<1> QED BY <1>2, <1>3, <1>4, <1>5

LEMMA EventAt ==
  ASSUME arg \in Nat
  PROVE  /\ \A k \in 1..(arg + 1) : Event(k) = <<"enter", arg - (k - 1), k - 1>>
         /\ Event(arg + 2) = <<"leaf", arg>>
         /\ \A k \in Nat : k >= arg + 3 => Event(k) = <<"exit", k - (arg + 3), arg - (k - (arg + 3))>>
BY DEF Event

LEMMA StackfulStep ==
  ASSUME Stackful, TypeOK, StackfulInv, DepthInv, Next
  PROVE  StackfulInv'
<1>1. /\ arg \in Nat /\ Levels(kont) /\ Events(out) /\ Len(out) = OutLength(kont)
      /\ does = Done => kont = <<>>
  BY StackfulInvIs, Arguments DEF StackfulFacts
<1>2. Unchanged /\ Stackful' /\ does = "run" /\ arg' = arg
  BY StackfulSteps, SameProgram DEF Unchanged
<1>3. /\ does' \in {"run", Done} /\ (does' = Done => kont' = <<>>)
      /\ Levels(kont') /\ Events(out') /\ Len(out') = OutLength(kont')
  <2>1. CASE StepLeaf
    <3>1. /\ kont # <<>> /\ Last(kont).phase = "enter" /\ Last(kont).n = 0 /\ does' = does
          /\ out' = out \o <<<<"enter", 0, Last(kont).depth>>, <<"leaf", Last(kont).depth>>>>
          /\ kont' = MovedTo("exit")
      BY <2>1 DEF StepLeaf, InPhase, Frame
    <3>2. /\ Levels(kont') /\ Len(kont') = Len(kont) /\ kont' # <<>> /\ Last(kont').phase = "exit"
      BY <1>1, <3>1, MovedLevel DEF Phases
    <3>3. Len(kont) = arg + 1 /\ Last(kont).depth = arg /\ Len(out) = arg /\ OutLength(kont') = arg + 2
      <4>1. Len(kont) \in 1..(arg + 1) /\ Last(kont).n = arg - (Len(kont) - 1) /\ Last(kont).depth = Len(kont) - 1
        BY <1>1, <3>1, TopLevel
      <4>2. Len(kont) = arg + 1
        BY <1>1, <3>1, <4>1
      <4>3. Len(out) = Len(kont) - 1
        BY <1>1, <3>1 DEF OutLength
      <4>4. OutLength(kont') = 2 * arg + 3 - Len(kont')
        BY <3>2 DEF OutLength
      <4> HIDE <3>1
      <4> QED BY <1>1, <3>2, <4>1, <4>2, <4>3, <4>4
    <3> DEFINE e1 == <<"enter", 0, arg>>
               e2 == <<"leaf", arg>>
    <3>4. e1 \in Yields /\ e2 \in Yields
      BY <1>1 DEF Yields
    <3>5. e1 = Event(Len(out) + 1)
      <4>1. arg + 1 \in 1..(arg + 1) /\ arg - ((arg + 1) - 1) = 0 /\ (arg + 1) - 1 = arg
        BY <1>1
      <4> QED BY <1>1, <3>3, <4>1, EventAt
    <3>6. Events(Append(out, e1)) /\ Len(Append(out, e1)) = arg + 1
      <4> HIDE DEF e1
      <4> QED BY <1>1, <3>3, <3>4, <3>5, OneMore
    <3>7. e2 = Event(Len(Append(out, e1)) + 1)
      <4>1. (arg + 1) + 1 = arg + 2
        BY <1>1
      <4> QED BY <1>1, <3>6, <4>1, EventAt
    <3>8. out' = Append(Append(out, e1), e2)
      <4>1. out \in Seq(Yields)
        BY <1>1 DEF Events
      <4>2. \A u, v \in Yields : out \o <<u, v>> = Append(Append(out, u), v)
        BY <4>1
      <4> QED BY <3>1, <3>3, <3>4, <4>2
    <3>9. Events(out') /\ Len(out') = arg + 2
      <4> HIDE DEF e1, e2
      <4>1. Events(out') /\ Len(out') = (arg + 1) + 1
        BY <3>4, <3>6, <3>7, <3>8, OneMore
      <4> QED BY <1>1, <4>1
    <3> QED BY <1>2, <3>1, <3>2, <3>3, <3>9 DEF Done
  <2>2. CASE StepEnter
    <3> DEFINE f == [n |-> Last(kont).n - 1, depth |-> Last(kont).depth + 1, phase |-> "enter"]
    <3>1. /\ kont # <<>> /\ Last(kont).phase = "enter" /\ Last(kont).n # 0 /\ does' = does
          /\ out' = Append(out, <<"enter", Last(kont).n, Last(kont).depth>>)
          /\ kont' = Append(MovedTo("after_child"), f)
      BY <2>2 DEF StepEnter, InPhase, Frame
    <3>2. /\ Levels(MovedTo("after_child")) /\ Len(MovedTo("after_child")) = Len(kont)
          /\ MovedTo("after_child") # <<>> /\ Last(MovedTo("after_child")).phase = "after_child"
      BY <1>1, <3>1, MovedLevel DEF Phases
    <3>3. /\ Len(kont) \in 1..(arg + 1) /\ Last(kont).n = arg - (Len(kont) - 1)
          /\ Last(kont).depth = Len(kont) - 1 /\ Last(kont).n \in Nat /\ Last(kont).depth \in Nat
      BY <1>1, <3>1, TopLevel DEF Frames
    <3>4. Last(kont).n # 0
      BY <3>1
    <3>5. Len(kont) < arg + 1
      BY <1>1, <3>3, <3>4
    <3>6. f \in Frames /\ f.depth = Len(kont) /\ f.n = arg - Len(kont) /\ f.phase = "enter"
      BY <1>1, <3>3, <3>5 DEF Frames, Phases
    <3> HIDE DEF f
    <3>7. /\ Levels(kont') /\ Len(kont') = Len(kont) + 1 /\ kont' # <<>> /\ Last(kont') = f
      BY <1>1, <3>1, <3>2, <3>5, <3>6, PutLevel
    <3>8. Len(out) = Len(kont) - 1 /\ OutLength(kont') = Len(kont)
      <4>1. Len(out) = Len(kont) - 1
        BY <1>1, <3>1 DEF OutLength
      <4>2. OutLength(kont') = Len(kont') - 1
        BY <3>6, <3>7 DEF OutLength
      <4> QED BY <1>1, <3>3, <3>7, <4>1, <4>2
    <3> DEFINE e == <<"enter", Last(kont).n, Last(kont).depth>>
    <3>9. e \in Yields
      BY <3>3 DEF Yields
    <3>10. e = Event(Len(out) + 1)
      <4>1. Len(out) + 1 = Len(kont)
        BY <3>3, <3>8
      <4> QED BY <1>1, <3>3, <4>1, EventAt
    <3>11. Events(out') /\ Len(out') = Len(out) + 1
      <4>1. out' = Append(out, e)
        BY <3>1
      <4> HIDE DEF e
      <4> QED BY <1>1, <3>9, <3>10, <4>1, OneMore
    <3>12. Len(out') = OutLength(kont')
      BY <3>3, <3>8, <3>11
    <3> QED BY <1>2, <3>1, <3>7, <3>11, <3>12 DEF Done
  <2>3. CASE StepAfterChild
    <3>1. /\ kont # <<>> /\ Last(kont).phase = "after_child" /\ does' = does /\ out' = out
          /\ kont' = MovedTo("exit")
      BY <2>3 DEF StepAfterChild, InPhase, Frame, AfterChild
    <3>2. /\ Levels(kont') /\ Len(kont') = Len(kont) /\ kont' # <<>> /\ Last(kont').phase = "exit"
      BY <1>1, <3>1, MovedLevel DEF Phases
    <3>3. OutLength(kont') = OutLength(kont)
      BY <3>1, <3>2 DEF OutLength
    <3> QED BY <1>1, <1>2, <3>1, <3>2, <3>3 DEF Done
  <2>4. CASE StepExit
    <3>1. /\ kont # <<>> /\ Last(kont).phase = "exit" /\ does' = does
          /\ out' = Append(out, <<"exit", Last(kont).n, Last(kont).depth>>)
          /\ kont' = Front(kont)
      BY <2>4 DEF StepExit, InPhase, Frame, Popped
    <3>2. /\ Len(kont) \in 1..(arg + 1) /\ Last(kont).n = arg - (Len(kont) - 1)
          /\ Last(kont).depth = Len(kont) - 1 /\ Last(kont).n \in Nat /\ Last(kont).depth \in Nat
          /\ Levels(kont') /\ Len(kont') = Len(kont) - 1
          /\ kont' # <<>> => Last(kont').phase = "after_child"
      BY <1>1, <3>1, TopLevel DEF Frames
    <3>3. Len(out) = 2 * arg + 3 - Len(kont) /\ OutLength(kont') = 2 * arg + 3 - Len(kont')
      BY <1>1, <3>1, <3>2 DEF OutLength
    <3> DEFINE e == <<"exit", Last(kont).n, Last(kont).depth>>
    <3>4. e \in Yields
      BY <3>2 DEF Yields
    <3>5. e = Event(Len(out) + 1)
      <4>1. /\ Len(out) + 1 \in Nat /\ Len(out) + 1 >= arg + 3
            /\ (Len(out) + 1) - (arg + 3) = Last(kont).n
            /\ arg - ((Len(out) + 1) - (arg + 3)) = Last(kont).depth
        BY <1>1, <3>2, <3>3
      <4> QED BY <1>1, <4>1, EventAt
    <3>6. Events(out') /\ Len(out') = Len(out) + 1
      <4>1. out' = Append(out, e)
        BY <3>1
      <4> HIDE DEF e
      <4> QED BY <1>1, <3>4, <3>5, <4>1, OneMore
    <3>7. Len(out') = OutLength(kont')
      <4>1. Len(kont') = Len(kont) - 1 /\ Len(out') = Len(out) + 1
        BY <3>2, <3>6
      <4> QED BY <1>1, <3>2, <3>3, <4>1
    <3> QED BY <1>2, <3>1, <3>2, <3>6, <3>7 DEF Done
  <2>5. CASE StepEmpty
    BY <1>1, <2>5 DEF StepEmpty
  <2> QED BY StackfulSteps, <2>1, <2>2, <2>3, <2>4, <2>5
<1>4. Levels(kont)' /\ Events(out)' /\ Len(out') = OutLength(kont)'
  BY <1>2, <1>3, PrimedLevels
<1>5. StackfulFacts'
  BY <1>3, <1>4, Zenon DEF StackfulFacts, Done
<1>6. StackfulInv' <=> StackfulFacts'
  BY StackfulInvIs, PTL
<1> QED BY <1>5, <1>6

(* What holds of the programs that leave the interpreter's stack alone.     *)
FlatStack == ~CPS /\ ~Search /\ ~Trampolined /\ ~Factorial /\ prog \notin {"fact_cps", "fib_cps"}
LEMMA FlatStep ==
  ASSUME TypeOK, FlatStack, Unchanged, depth' = depth, does' \in {"run", Done}
  PROVE  TypeOK' /\ DepthInv' /\ StackUse'
<1>1. FlatStack' /\ depth \in 1..limit /\ limit \in Nat /\ prog' = prog /\ arg' = arg /\ limit' = limit
  BY SameProgram, Arguments DEF FlatStack, Unchanged
<1>2. TypeOK'
  BY <1>1 DEF TypeOK, Done
<1>3. DepthInv'
  BY <1>1 DEF DepthInv, Done, FlatStack
<1>4. StackUse'
  <2>1. depth' <= limit' /\ does' \notin {"call", "RecursionError"}
    BY <1>1 DEF Done
  <2> QED BY <1>1, <2>1, Zenon DEF StackUse, FlatStack
<1> QED BY <1>2, <1>3, <1>4

--------------------------------------------------------------------------------
(* The generators.                                                          *)
LEMMA OnlyGenerator ==
  ASSUME Generator
  PROVE  /\ ~CPS /\ ~Factorial /\ ~Fibonacci /\ ~Tree /\ ~Search /\ ~Stackful /\ ~T9
         /\ prog \notin {"fact_cps", "fib_cps"} /\ ~Trampolined
BY DEF Factorial, CPS, Fibonacci, Tree, Search, Stackful, Generator, T9, Keypad, Trampolined

Ints == Int \X Int
LEMMA Terms ==
  ASSUME NEW pair \in Ints
  PROVE  /\ \A n \in Nat : TermFrom(pair, n) \in Int
         /\ TermFrom(pair, 0) = pair[1] /\ TermFrom(pair, 1) = pair[2]
         /\ \A n \in Nat : TermFrom(pair, n) + TermFrom(pair, n + 1) = TermFrom(pair, n + 2)
<1> DEFINE a == pair[1]
           b == pair[2]
           F(n) == fib_direct[n]
           G(n) == fib_direct[n + 1] - fib_direct[n]
<1>1. a \in Int /\ b \in Int
  BY DEF Ints
<1>2. \A n \in Nat : F(n) \in Int /\ G(n) \in Int
  <2> SUFFICES ASSUME NEW n \in Nat PROVE F(n) \in Int /\ G(n) \in Int
    OBVIOUS
  <2>1. fib_direct[n] \in Nat /\ fib_direct[n + 1] \in Nat
    BY fib_direct_def
  <2> QED BY <2>1
<1>3. F(0) = 0 /\ F(1) = 1 /\ G(0) = 1 /\ G(1) = 0
  <2>1. fib_direct[2] = fib_direct[2 - 1] + fib_direct[2 - 2]
    BY fib_direct_def
  <2> QED BY <2>1, fib_direct_def
<1>4. \A n \in Nat : F(n + 2) = F(n) + F(n + 1) /\ G(n + 2) = G(n) + G(n + 1)
  <2> SUFFICES ASSUME NEW n \in Nat PROVE F(n + 2) = F(n) + F(n + 1) /\ G(n + 2) = G(n) + G(n + 1)
    OBVIOUS
  <2>1. /\ n + 2 \in Nat /\ n + 2 > 1 /\ (n + 2) - 1 = n + 1 /\ (n + 2) - 2 = n
        /\ n + 3 \in Nat /\ n + 3 > 1 /\ (n + 3) - 1 = n + 2 /\ (n + 3) - 2 = n + 1
        /\ (n + 2) + 1 = n + 3 /\ (n + 1) + 1 = n + 2 /\ n + 1 \in Nat
    OBVIOUS
  <2>2. fib_direct[n + 2] = fib_direct[n + 1] + fib_direct[n] /\ fib_direct[n + 3] = fib_direct[n + 2] + fib_direct[n + 1]
    BY <2>1, fib_direct_def
  <2>3. fib_direct[n] \in Nat /\ fib_direct[n + 1] \in Nat /\ fib_direct[n + 2] \in Nat /\ fib_direct[n + 3] \in Nat
    BY <2>1, fib_direct_def
  <2> QED BY <2>1, <2>2, <2>3
<1>5. \A n \in Nat : TermFrom(pair, n) = a * G(n) + b * F(n)
  <2>1. ASSUME NEW n \in Nat, n # 0 PROVE TermFrom(pair, n) = a * G(n) + b * F(n)
    BY <2>1 DEF TermFrom
  <2>2. TermFrom(pair, 0) = a
    BY DEF TermFrom
  <2>3. a * G(0) + b * F(0) = a
    <3>1. a * 1 + b * 0 = a
      BY <1>1
    <3> QED BY <1>3, <3>1
  <2> QED BY <2>1, <2>2, <2>3
<1> HIDE DEF a, b, F, G
<1>6. TermFrom(pair, 0) = a /\ TermFrom(pair, 1) = b
  <2>1. a * 1 + b * 0 = a /\ a * 0 + b * 1 = b
    BY <1>1
  <2> QED BY <1>3, <1>5, <2>1
<1>7. \A u, v, w, z \in Int : (a * u + b * v) + (a * w + b * z) = a * (u + w) + b * (v + z)
  BY <1>1
<1>8. \A n \in Nat : TermFrom(pair, n) + TermFrom(pair, n + 1) = TermFrom(pair, n + 2)
  <2> SUFFICES ASSUME NEW n \in Nat
               PROVE  TermFrom(pair, n) + TermFrom(pair, n + 1) = TermFrom(pair, n + 2)
    OBVIOUS
  <2>1. n + 1 \in Nat /\ n + 2 \in Nat
    OBVIOUS
  <2>2. /\ TermFrom(pair, n) = a * G(n) + b * F(n)
        /\ TermFrom(pair, n + 1) = a * G(n + 1) + b * F(n + 1)
        /\ TermFrom(pair, n + 2) = a * (G(n) + G(n + 1)) + b * (F(n) + F(n + 1))
    BY <1>4, <1>5, <2>1
  <2>3. G(n) \in Int /\ G(n + 1) \in Int /\ F(n) \in Int /\ F(n + 1) \in Int
    BY <1>2, <2>1
  <2> QED BY <1>7, <2>2, <2>3
<1>9. \A n \in Nat : TermFrom(pair, n) \in Int
  <2>1. \A u, v \in Int : a * u + b * v \in Int
    BY <1>1
  <2> QED BY <1>2, <1>5, <2>1
<1> QED BY <1>6, <1>8, <1>9 DEF a, b

LEMMA RequestsMade ==
  ASSUME Generator, TypeOK
  PROVE  /\ Requests \in Nat
         /\ ~Sent(1) \/ Requests = 0
         /\ \A k \in 1..Requests : PairSent(k) \in Ints
<1>1. CASE prog = "fibonacci_with_send"
  <2>1. arg \in Seq({<<>>} \cup Int \X Int) /\ (arg # <<>> => arg[1] = <<>>) /\ Requests = Len(arg)
    BY <1>1, Arguments DEF Requests
  <2>2. Len(arg) \in Nat /\ \A k \in 1..Len(arg) : arg[k] \in {<<>>} \cup Int \X Int
    BY <2>1
  <2>3. ~Sent(1) \/ Requests = 0
    <3>1. CASE arg = <<>>
      BY <2>1, <3>1
    <3>2. CASE arg # <<>>
      BY <2>1, <3>2 DEF Sent
    <3> QED BY <3>1, <3>2
  <2>4. \A k \in 1..Len(arg) : PairSent(k) \in Ints
    BY <2>2 DEF PairSent, Sent, Ints
  <2> QED BY <2>1, <2>2, <2>3, <2>4
<1>2. CASE prog # "fibonacci_with_send"
  <2>1. arg \in Nat /\ Requests = arg
    BY <1>2, Arguments DEF Requests, Generator
  <2> QED BY <1>2, <2>1 DEF Sent, PairSent, Ints
<1> QED BY <1>1, <1>2

LEMMA GeneratorSteps ==
  ASSUME Generator, TypeOK, GeneratorInv, DepthInv, Next
  PROVE  /\ Unchanged /\ does = "run" /\ depth' = depth
         /\ \/ does' = "run" /\ Resume
            \/ does' = Done /\ x' = x /\ out' = out /\ Len(out) = Requests
<1> USE OnlyGenerator
<1>1. CASE Leave
  BY <1>1 DEF Leave, GeneratorInv, Done
<1>2. CASE Thunk
  BY <1>2 DEF Thunk, DepthInv
<1>3. CASE Resume
  BY <1>3 DEF Resume, input, Unchanged
<1>4. CASE GeneratorEnds
  BY <1>4 DEF GeneratorEnds, input, Unchanged
<1> QED BY <1>1, <1>2, <1>3, <1>4
     DEF Next, CallBase, CallRecursive, Apply, ApplyFirst, SearchEnds, SearchFinds, SearchGoesOn,
         StepLeaf, StepEnter, StepAfterChild, StepExit, StepEmpty, InPhase, NoDigits, Descend, Leaf,
         Return, Combining

(* The generator between two of its yields: the pair that follows from the  *)
(* last one sent.                                                           *)
From(p, s, k) == /\ s \in 1..k /\ LastSent(s, k) /\ p[1] = TermFrom(PairSent(s), k - s)
                 /\ p[2] = TermFrom(PairSent(s), k - s + 1) /\ p \in Ints
Shown(p) == IF prog = "fibonacci_yield_from" THEN p ELSE p[1]
YieldedAs(k, v) == \E s \in 1..k : LET pair == PairSent(s) IN
  /\ LastSent(s, k)
  /\ v = IF prog = "fibonacci_yield_from"
         THEN <<TermFrom(pair, k - s), TermFrom(pair, k - s + 1)>> ELSE TermFrom(pair, k - s)
LEMMA ShownFrom ==
  ASSUME NEW p, NEW s, NEW k, From(p, s, k)
  PROVE  YieldedAs(k, Shown(p))
<1>1. p = <<TermFrom(PairSent(s), k - s), TermFrom(PairSent(s), k - s + 1)>>
  BY DEF From, Ints
<1> QED BY <1>1 DEF From, Shown, YieldedAs

LEMMA NextResumed ==
  ASSUME Generator, TypeOK, GeneratorInv, Resume
  PROVE  /\ \E s : From(x', s, Len(out) + 1)
         /\ out' = Append(out, Shown(x')) /\ Len(out) < Requests
<1>1. /\ Len(out) \in Nat /\ Requests \in Nat /\ Len(out) < Requests /\ x \in Ints
      /\ out = <<>> => x = <<0, 1>>
      /\ out # <<>> => \E s \in 1..Len(out) :
            LastSent(s, Len(out)) /\ x = <<TermFrom(PairSent(s), Len(out) - s), TermFrom(PairSent(s), Len(out) - s + 1)>>
      /\ out = <<>> <=> Len(out) = 0
  <2>1. \A S : out \in Seq(S) => Len(out) \in Nat /\ (out = <<>> <=> Len(out) = 0)
    BY EmptySeq
  <2>2. out \in Seq(IF prog = "fibonacci_yield_from" THEN Int \X Int ELSE Int)
    BY DEF GeneratorInv
  <2>3. Requests \in Nat /\ Len(out) < Requests
    BY RequestsMade DEF Resume
  <2> QED BY <2>1, <2>2, <2>3 DEF GeneratorInv, Ints
<1>2. out' = Append(out, Shown(x'))
  BY DEF Resume, Term, Shown
<1>3. x' = CASE out = <<>> -> x
             [] out # <<>> /\ Received = <<>> -> NextPair
             [] OTHER -> Received
  BY DEF Resume
<1>4. CASE out = <<>>
  <2>1. x' = <<0, 1>> /\ Len(out) + 1 = 1
    BY <1>1, <1>3, <1>4
  <2>2. ~Sent(1)
    BY <1>1, RequestsMade
  <2>3. PairSent(1) = <<0, 1>> /\ <<0, 1>> \in Ints
    BY <2>2 DEF PairSent, Ints
  <2>4. TermFrom(PairSent(1), 0) = 0 /\ TermFrom(PairSent(1), 1) = 1
    BY <2>3, Terms
  <2>5. LastSent(1, 1)
    BY DEF LastSent
  <2>6. From(x', 1, 1)
    BY <2>1, <2>3, <2>4, <2>5 DEF From
  <2> QED BY <1>1, <1>2, <2>1, <2>6
<1>5. CASE out # <<>> /\ Received = <<>>
  <2>1. PICK s \in 1..Len(out) :
           LastSent(s, Len(out)) /\ x = <<TermFrom(PairSent(s), Len(out) - s), TermFrom(PairSent(s), Len(out) - s + 1)>>
    BY <1>1, <1>5
  <2>2. x' = <<x[2], x[1] + x[2]>>
    BY <1>3, <1>5 DEF NextPair
  <2>3. s \in 1..Requests /\ s \in 1..(Len(out) + 1) /\ Len(out) - s \in Nat
        /\ (Len(out) + 1) - s = (Len(out) - s) + 1 /\ (Len(out) - s + 1) + 1 = (Len(out) - s) + 2
    BY <1>1
  <2>4. PairSent(s) \in Ints
    BY <2>3, RequestsMade
  <2>5. TermFrom(PairSent(s), Len(out) - s) + TermFrom(PairSent(s), Len(out) - s + 1)
          = TermFrom(PairSent(s), (Len(out) - s) + 2)
    BY <2>3, <2>4, Terms
  <2>6. ~Sent(Len(out) + 1)
    BY <1>5 DEF Sent, Received
  <2>7. LastSent(s, Len(out) + 1)
    <3>1. \A i \in (s + 1)..(Len(out) + 1) : i \in (s + 1)..Len(out) \/ i = Len(out) + 1
      BY <1>1
    <3> QED BY <2>1, <2>6, <3>1 DEF LastSent
  <2>8. x' \in Ints
    BY <1>1, <2>2 DEF Ints
  <2>9. x'[1] = TermFrom(PairSent(s), (Len(out) + 1) - s) /\ x'[2] = TermFrom(PairSent(s), (Len(out) + 1) - s + 1)
    <3>1. x'[1] = TermFrom(PairSent(s), Len(out) - s + 1)
      BY <2>1, <2>2
    <3>2. x'[2] = TermFrom(PairSent(s), (Len(out) - s) + 2)
      BY <2>1, <2>2, <2>5
    <3>3. (Len(out) + 1) - s + 1 = (Len(out) - s) + 2
      BY <1>1
    <3> QED BY <2>3, <3>1, <3>2, <3>3
  <2>10. From(x', s, Len(out) + 1)
    BY <2>3, <2>7, <2>8, <2>9 DEF From
  <2> QED BY <1>1, <1>2, <2>10
<1>6. CASE out # <<>> /\ Received # <<>>
  <2>1. x' = Received
    BY <1>3, <1>6
  <2> DEFINE k == Len(out) + 1
  <2>2. Sent(k) /\ PairSent(k) = x'
    BY <1>6, <2>1 DEF Sent, PairSent, Received
  <2>3. k \in 1..Requests /\ k \in 1..k /\ k - k = 0 /\ k - k + 1 = 1
    BY <1>1
  <2>4. x' \in Ints
    BY <2>2, <2>3, RequestsMade
  <2>5. TermFrom(PairSent(k), 0) = x'[1] /\ TermFrom(PairSent(k), 1) = x'[2]
    BY <2>2, <2>4, Terms
  <2>6. LastSent(k, k)
    <3>1. \A i \in (k + 1)..k : FALSE
      BY <1>1
    <3> QED BY <2>2, <3>1 DEF LastSent
  <2> HIDE DEF k
  <2>7. From(x', k, k)
    BY <2>3, <2>4, <2>5, <2>6 DEF From
  <2> QED BY <1>1, <1>2, <2>7 DEF k
<1> QED BY <1>4, <1>5, <1>6

TermKinds == IF prog = "fibonacci_yield_from" THEN Int \X Int ELSE Int
Position(p, n) == IF n = 0 THEN p = <<0, 1>> ELSE \E s : From(p, s, n)

GeneratorFacts == Generator =>
  /\ does \in {"run", Done} /\ (does = Done => Len(out) = Requests)
  /\ out \in Seq(TermKinds) /\ x \in Ints /\ Len(out) <= Requests
  /\ \A k \in 1..Len(out) : YieldedAs(k, out[k])
  /\ Position(x, Len(out))
LEMMA GeneratorInvIs == GeneratorInv <=> GeneratorFacts
<1>1. \A S : \A s \in Seq(S) : DOMAIN s = 1..Len(s) /\ (s = <<>> <=> Len(s) = 0)
  BY EmptySeq
<1>2. \A k : Yielded(k) <=> YieldedAs(k, out[k])
  BY DEF Yielded, YieldedAs
<1>3. x \in Ints => (Position(x, Len(out)) <=>
         IF Len(out) = 0 THEN x = <<0, 1>>
         ELSE \E s \in 1..Len(out) : LastSent(s, Len(out)) /\ x = <<TermFrom(PairSent(s), Len(out) - s), TermFrom(PairSent(s), Len(out) - s + 1)>>)
  BY DEF Position, From, Ints
<1> QED BY <1>1, <1>2, <1>3 DEF GeneratorInv, GeneratorFacts, TermKinds, Ints

LEMMA SameRequests ==
  ASSUME Unchanged
  PROVE  /\ Requests' = Requests /\ TermKinds' = TermKinds
         /\ \A k, v : YieldedAs(k, v)' <=> YieldedAs(k, v)
         /\ \A p, n : Position(p, n)' <=> Position(p, n)
<1>1. \A k, v : YieldedAs(k, v)' <=> YieldedAs(k, v)
  BY Zenon DEF Unchanged, YieldedAs, LastSent, Sent, PairSent
<1>2. \A p, n : Position(p, n)' <=> Position(p, n)
  <2>1. \A p, k, n : From(p, k, n)' <=> From(p, k, n)
    <3>1. \A k : PairSent(k)' = PairSent(k) /\ \A n : LastSent(k, n)' <=> LastSent(k, n)
      BY Zenon DEF Unchanged, LastSent, Sent, PairSent
    <3> QED BY <3>1, Zenon DEF From
  <2> QED BY <2>1, Zenon DEF Position
<1> QED BY <1>1, <1>2 DEF Unchanged, Requests, TermKinds

LEMMA GeneratorStep ==
  ASSUME Generator, TypeOK, GeneratorInv, DepthInv, Next
  PROVE  GeneratorInv'
<1>1. /\ out \in Seq(TermKinds) /\ x \in Ints /\ Len(out) <= Requests /\ Len(out) \in Nat /\ Requests \in Nat
      /\ \A k \in 1..Len(out) : YieldedAs(k, out[k])
      /\ Position(x, Len(out))
  BY GeneratorInvIs, RequestsMade DEF GeneratorFacts
<1>2. Unchanged /\ Generator'
  BY GeneratorSteps, SameProgram
<1>3. /\ does' \in {"run", Done} /\ (does' = Done => Len(out') = Requests)
      /\ out' \in Seq(TermKinds) /\ x' \in Ints /\ Len(out') <= Requests /\ Len(out') \in Nat
      /\ \A k \in 1..Len(out') : YieldedAs(k, out'[k])
      /\ Position(x', Len(out'))
  <2>1. CASE does' = "run" /\ Resume
    <3>1. PICK s : From(x', s, Len(out) + 1)
      BY <2>1, NextResumed
    <3> DEFINE v == Shown(x')
    <3>2. out' = Append(out, v) /\ Len(out) < Requests
      BY <2>1, NextResumed
    <3>3. x' \in Ints /\ v \in TermKinds
      <4>1. x' \in Int \X Int
        BY <3>1 DEF From, Ints
      <4> QED BY <4>1 DEF Shown, TermKinds, Ints
    <3>4. YieldedAs(Len(out) + 1, v)
      BY <3>1, ShownFrom, Zenon
    <3> HIDE DEF v
    <3>5. /\ out' \in Seq(TermKinds) /\ Len(out') = Len(out) + 1
          /\ \A i \in 1..Len(out) : out'[i] = out[i]
          /\ out'[Len(out) + 1] = v
      BY <1>1, <3>2, <3>3, Pushing
    <3>6. \A k \in 1..Len(out') : YieldedAs(k, out'[k])
      <4>1. \A k \in 1..Len(out') : k \in 1..Len(out) \/ k = Len(out) + 1
        BY <1>1, <3>5
      <4> QED BY <1>1, <3>4, <3>5, <4>1
    <3>7. Position(x', Len(out'))
      <4>1. Len(out) + 1 # 0
        BY <1>1
      <4> QED BY <3>1, <3>5, <4>1 DEF Position
    <3> QED BY <1>1, <2>1, <3>2, <3>3, <3>5, <3>6, <3>7 DEF Done
  <2>2. CASE does' = Done /\ x' = x /\ out' = out /\ Len(out) = Requests
    BY <1>1, <2>2
  <2> QED BY GeneratorSteps, <2>1, <2>2
<1>4. /\ out' \in Seq(TermKinds') /\ Len(out') <= Requests' /\ (does' = Done => Len(out') = Requests')
  BY <1>2, <1>3, SameRequests
<1>5. (\A k \in 1..Len(out) : YieldedAs(k, out[k]))' /\ Position(x, Len(out))'
  <2>1. (\A k, v : YieldedAs(k, v)' <=> YieldedAs(k, v)) /\ \A p, n : Position(p, n)' <=> Position(p, n)
    BY <1>2, SameRequests, Zenon
  <2>2. (\A k \in 1..Len(out) : YieldedAs(k, out[k]))'
    BY <1>3, <2>1
  <2>3. Position(x, Len(out))'
    BY <1>3, <2>1
  <2> QED BY <2>2, <2>3
<1>6. GeneratorFacts'
  BY <1>2, <1>3, <1>4, <1>5, Zenon DEF GeneratorFacts, Done
<1>7. GeneratorInv' <=> GeneratorFacts'
  BY GeneratorInvIs, PTL
<1> QED BY <1>6, <1>7

--------------------------------------------------------------------------------
(* The Fibonacci functions.                                                 *)
LEMMA OnlyFibonacci ==
  ASSUME Fibonacci
  PROVE  /\ CPS /\ ~Factorial /\ ~Tree /\ ~Search /\ ~Stackful /\ ~Generator /\ ~T9
         /\ prog # "fact_cps" /\ (~Trampolined <=> prog = "fib_cps")
BY DEF Factorial, CPS, Fibonacci, Tree, Search, Stackful, Generator, T9, Keypad, Trampolined

FibFrame == [first : Nat] \cup [plus : Nat]
LEMMA FibonacciSteps ==
  ASSUME Fibonacci, TypeOK, FibonacciInv, Next
  PROVE  /\ Unchanged
         /\ \/ /\ does = "call" /\ x <= 1 /\ does' = "apply" /\ x' = x
               /\ kont' = kont /\ depth' = depth
            \/ /\ does = "call" /\ x >= 2
               /\ \/ OutOfStack(1)
                  \/ ~Trampolined /\ Goes(1, "call", x - 1, Append(kont, [first |-> x]))
                  \/ Trampolined /\ Bounces(1, x - 1, Append(kont, [first |-> x]))
            \/ does = "bounce" /\ (OutOfStack(2) \/ Goes(2, "call", x, kont))
            \/ /\ does = "apply" /\ kont # <<>> /\ Last(kont) \in [first : Nat]
               /\ LET n == Last(kont).first - 2  frames == Append(Front(kont), [plus |-> x]) IN
                  \/ OutOfStack(2)
                  \/ ~Trampolined /\ Goes(2, "call", n, frames)
                  \/ Trampolined /\ Bounces(2, n, frames)
            \/ /\ does = "apply" /\ kont # <<>> /\ Last(kont) \in [plus : Nat]
               /\ OutOfStack(1) \/ Goes(1, "apply", Last(kont).plus + x, Front(kont))
            \/ /\ does = "apply" /\ kont = <<>>
               /\ LET n == IF Trampolined THEN 2 ELSE 1 IN
                  OutOfStack(n) \/ Goes(n, Done, x, kont)
<1> USE OnlyFibonacci
<1>0. x \in Nat /\ kont \in Seq(FibFrame)
  BY DEF FibonacciInv, FibFrame
<1>1. CASE CallBase
  BY <1>1 DEF CallBase, Base, BaseValue, input, Unchanged
<1>2. CASE CallRecursive
  <2>1. does = "call" /\ ~(x <= 1) /\ Unchanged /\ CallAgain(1, x - 1, Append(kont, [first |-> x]))
    BY <1>2 DEF CallRecursive, Base, input, Unchanged, Pushed
  <2>2. x >= 2
    BY <1>0, <2>1
  <2> QED BY <2>1, <2>2, CallAgainIs
<1>3. CASE Thunk
  <2>1. does = "bounce" /\ Unchanged /\ Deeper(2, "call", x, kont)
    BY <1>3 DEF Thunk, input, Unchanged
  <2> QED BY <2>1, DeeperIs
<1>4. CASE Apply
  <2>1. does = "apply" /\ kont # <<>> /\ Unchanged
    BY <1>4 DEF Apply, input, Unchanged
  <2>2. Last(kont) \in FibFrame
    BY <1>0, <2>1, Popping
  <2>3. CASE Last(kont) \in [first : Nat]
    <3>1. DOMAIN Last(kont) = {"first"}
      BY <2>3
    <3>2. CallAgain(2, Last(kont).first - 2, Append(Front(kont), [plus |-> x]))
      BY <1>4, <3>1 DEF Apply, Popped
    <3> QED BY <2>1, <2>3, <3>2, CallAgainIs
  <2>4. CASE Last(kont) \in [plus : Nat]
    <3>1. DOMAIN Last(kont) = {"plus"}
      BY <2>4
    <3>2. Deeper(1, "apply", Last(kont).plus + x, Front(kont))
      BY <1>4, <3>1 DEF Apply, Popped
    <3> QED BY <2>1, <2>4, <3>2, DeeperIs
  <2> QED BY <2>2, <2>3, <2>4 DEF FibFrame
<1>5. CASE ApplyFirst
  <2>1. does = "apply" /\ kont = <<>> /\ Unchanged
        /\ Deeper(IF Trampolined THEN 2 ELSE 1, Done, x, kont)
    BY <1>5 DEF ApplyFirst, input, Unchanged
  <2> QED BY <2>1, DeeperIs
<1>6. CASE Leave
  BY <1>6 DEF Leave, FibonacciInv, DoesOneOf, Done
<1> QED BY <1>1, <1>2, <1>3, <1>4, <1>5, <1>6
     DEF Next, SearchEnds, SearchFinds, SearchGoesOn, StepLeaf, StepEnter, StepAfterChild, StepExit,
         StepEmpty, InPhase, Resume, GeneratorEnds, NoDigits, Descend, Leaf, Return, Combining

(* The calls that are open: the arguments a, the depths w at which plain    *)
(* CPS entered them, and the frames in between.                             *)
Link(f, n, v, u, d) ==
  \/ f = [first |-> n] /\ v = n - 1 /\ d = u + 1
  \/ f = [plus |-> fib_direct[n - 1]] /\ v = n - 2 /\ d = u + 1 + 2 * calls[n - 1]
Chain(a, w, k) ==
  /\ a \in Seq(Nat) /\ w \in Seq(Nat) /\ k \in Seq(FibFrame)
  /\ Len(a) = Len(k) + 1 /\ Len(w) = Len(k) + 1
  /\ a[1] = arg /\ w[1] = 1
  /\ \A i \in 1..Len(k) : a[i] >= 2 /\ Link(k[i], a[i], a[i + 1], w[i], w[i + 1])
  /\ \A i \in 1..(Len(k) + 1) : a[i] + i - 1 <= arg /\ w[i] + 2 * calls[a[i]] - 1 <= 2 * calls[arg]
Inmost(a, w, k, n, d) == n = a[Len(k) + 1] /\ d = w[Len(k) + 1]

LEMMA ChainAppend ==
  ASSUME arg \in Nat, NEW a, NEW w, NEW k, Chain(a, w, k), NEW n, NEW u, Inmost(a, w, k, n, u), n >= 2,
         NEW f, NEW v, NEW d, Link(f, n, v, u, d)
  PROVE  /\ Chain(Append(a, v), Append(w, d), Append(k, f))
         /\ Inmost(Append(a, v), Append(w, d), Append(k, f), v, d)
<1> DEFINE L == Len(k)
<1>1. /\ a \in Seq(Nat) /\ w \in Seq(Nat) /\ k \in Seq(FibFrame) /\ L \in Nat
      /\ Len(a) = L + 1 /\ Len(w) = L + 1 /\ a[1] = arg /\ w[1] = 1
  BY DEF Chain
<1>2. /\ L + 1 \in 1..(L + 1) /\ n = a[L + 1] /\ u = w[L + 1] /\ n \in Nat /\ u \in Nat
  BY <1>1 DEF Inmost
<1>3. n + L <= arg /\ u + 2 * calls[n] - 1 <= 2 * calls[arg]
  <2>1. a[L + 1] + (L + 1) - 1 <= arg /\ w[L + 1] + 2 * calls[a[L + 1]] - 1 <= 2 * calls[arg]
    BY <1>2 DEF Chain
  <2>2. n + (L + 1) - 1 = n + L
    BY <1>1, <1>2
  <2> QED BY <1>2, <2>1, <2>2
<1>4. n - 1 \in Nat /\ n - 2 \in Nat /\ calls[n] = 1 + calls[n - 1] + calls[n - 2]
      /\ calls[n - 1] \in Nat /\ calls[n - 2] \in Nat /\ calls[n] \in Nat /\ calls[arg] \in Nat
      /\ calls[n - 1] >= 1 /\ calls[n - 2] >= 1 /\ fib_direct[n - 1] \in Nat
  <2>1. n - 1 \in Nat /\ n - 2 \in Nat /\ n > 1
    BY <1>2
  <2> QED BY <1>2, <2>1, calls_def, fib_direct_def
<1>5. /\ v \in Nat /\ d \in Nat /\ f \in FibFrame /\ v + L + 1 <= arg /\ d + 2 * calls[v] - 1 <= 2 * calls[arg]
  <2>1. CASE f = [first |-> n] /\ v = n - 1 /\ d = u + 1
    <3>1. f \in FibFrame
      BY <1>2, <2>1 DEF FibFrame
    <3>2. \A c, c1, c2, ca \in Nat : c = 1 + c1 + c2 /\ c1 >= 1 /\ c2 >= 1 /\ u + 2 * c - 1 <= 2 * ca
                                   => (u + 1) + 2 * c1 - 1 <= 2 * ca
      BY <1>2
    <3>3. (u + 1) + 2 * calls[n - 1] - 1 <= 2 * calls[arg]
      BY <1>3, <1>4, <3>2
    <3>4. (n - 1) + L + 1 <= arg /\ u + 1 \in Nat
      BY <1>1, <1>2, <1>3
    <3> QED BY <1>4, <2>1, <3>1, <3>3, <3>4
  <2>2. CASE f = [plus |-> fib_direct[n - 1]] /\ v = n - 2 /\ d = u + 1 + 2 * calls[n - 1]
    <3>1. f \in FibFrame
      BY <1>4, <2>2 DEF FibFrame
    <3>2. PICK c, c1, c2, ca \in Nat : c = calls[n] /\ c1 = calls[n - 1] /\ c2 = calls[n - 2] /\ ca = calls[arg]
      BY <1>4
    <3>3. c = 1 + c1 + c2 /\ u + 2 * c - 1 <= 2 * ca
      BY <1>3, <1>4, <3>2
    <3>4. (u + 1 + 2 * c1) + 2 * c2 - 1 <= 2 * ca /\ u + 1 + 2 * c1 \in Nat
      BY <1>2, <3>3
    <3>5. (n - 2) + L + 1 <= arg
      BY <1>1, <1>2, <1>3
    <3> QED BY <1>4, <2>2, <3>1, <3>2, <3>4, <3>5
  <2> QED BY <2>1, <2>2 DEF Link
<1> DEFINE A == Append(a, v)
           W == Append(w, d)
           K == Append(k, f)
<1>6. /\ A \in Seq(Nat) /\ Len(A) = L + 2 /\ (\A i \in 1..(L + 1) : A[i] = a[i]) /\ A[L + 2] = v
  <2>1. /\ A \in Seq(Nat) /\ Len(A) = Len(a) + 1 /\ (\A i \in 1..Len(a) : A[i] = a[i]) /\ A[Len(a) + 1] = v
    BY <1>1, <1>5, Pushing
  <2> HIDE DEF A
  <2>2. (L + 1) + 1 = L + 2
    BY <1>1
  <2> QED BY <1>1, <2>1, <2>2
<1>7. /\ W \in Seq(Nat) /\ Len(W) = L + 2 /\ (\A i \in 1..(L + 1) : W[i] = w[i]) /\ W[L + 2] = d
  <2>1. /\ W \in Seq(Nat) /\ Len(W) = Len(w) + 1 /\ (\A i \in 1..Len(w) : W[i] = w[i]) /\ W[Len(w) + 1] = d
    BY <1>1, <1>5, Pushing
  <2> HIDE DEF W
  <2>2. (L + 1) + 1 = L + 2
    BY <1>1
  <2> QED BY <1>1, <2>1, <2>2
<1>8. /\ K \in Seq(FibFrame) /\ Len(K) = L + 1 /\ (\A i \in 1..L : K[i] = k[i]) /\ K[L + 1] = f
  BY <1>1, <1>5, Pushing
<1>9. /\ 1 \in 1..(L + 1) /\ Len(K) + 1 = L + 2 /\ Len(A) = Len(K) + 1 /\ Len(W) = Len(K) + 1
  <2> HIDE DEF A, W, K
  <2> QED BY <1>1, <1>6, <1>7, <1>8
<1> HIDE DEF A, W, K
<1>10. ASSUME NEW i \in 1..Len(K) PROVE A[i] >= 2 /\ Link(K[i], A[i], A[i + 1], W[i], W[i + 1])
  <2>1. CASE i \in 1..L
    <3>1. i \in 1..(L + 1) /\ i + 1 \in 1..(L + 1)
      BY <1>1, <2>1
    <3> QED BY <1>6, <1>7, <1>8, <2>1, <3>1 DEF Chain
  <2>2. CASE i = L + 1
    <3>1. i + 1 = L + 2
      BY <1>1, <2>2
    <3> QED BY <1>2, <1>6, <1>7, <1>8, <2>2, <3>1
  <2> QED BY <1>1, <1>8, <2>1, <2>2
<1>11. ASSUME NEW i \in 1..(Len(K) + 1)
       PROVE  A[i] + i - 1 <= arg /\ W[i] + 2 * calls[A[i]] - 1 <= 2 * calls[arg]
  <2>1. CASE i \in 1..(L + 1)
    BY <1>6, <1>7, <2>1 DEF Chain
  <2>2. CASE i = L + 2
    <3>1. v + (L + 2) - 1 = v + L + 1
      BY <1>1, <1>5
    <3> QED BY <1>5, <1>6, <1>7, <2>2, <3>1
  <2> QED BY <1>1, <1>9, <2>1, <2>2
<1>12. Chain(A, W, K)
  BY <1>1, <1>6, <1>7, <1>8, <1>9, <1>10, <1>11 DEF Chain
<1>13. Inmost(A, W, K, v, d)
  BY <1>6, <1>7, <1>9 DEF Inmost
<1> QED BY <1>12, <1>13 DEF A, W, K

LEMMA ChainFront ==
  ASSUME arg \in Nat, NEW a, NEW w, NEW k, Chain(a, w, k), k # <<>>, NEW v, NEW d, Inmost(a, w, k, v, d)
  PROVE  /\ Chain(Front(a), Front(w), Front(k)) /\ Len(k) \in Nat /\ Len(k) > 0 /\ Len(k) <= arg
         /\ Len(Front(k)) = Len(k) - 1
         /\ \E n, u \in Nat : /\ n >= 2 /\ Inmost(Front(a), Front(w), Front(k), n, u) /\ Link(Last(k), n, v, u, d)
                              /\ u + 2 * calls[n] - 1 <= 2 * calls[arg]
<1> DEFINE L == Len(k)
<1>1. /\ a \in Seq(Nat) /\ w \in Seq(Nat) /\ k \in Seq(FibFrame) /\ L \in Nat /\ L > 0
      /\ Len(a) = L + 1 /\ Len(w) = L + 1 /\ a[1] = arg /\ w[1] = 1 /\ v = a[L + 1] /\ d = w[L + 1]
  BY EmptySeq DEF Chain, Inmost
<1>2. L \in 1..L /\ L \in 1..(L + 1) /\ L + 1 \in 1..(L + 1) /\ a # <<>> /\ w # <<>> /\ (L + 1) - 1 = L /\ (L - 1) + 1 = L
      /\ 1 \in 1..L
  BY <1>1
<1>3. /\ Front(a) \in Seq(Nat) /\ Len(Front(a)) = L /\ \A i \in 1..L : Front(a)[i] = a[i]
  <2>1. /\ Front(a) \in Seq(Nat) /\ Len(Front(a)) = Len(a) - 1
        /\ \A i \in 1..(Len(a) - 1) : Front(a)[i] = a[i]
    BY <1>1, <1>2, Popping
  <2>2. Len(a) - 1 = L
    BY <1>1
  <2> HIDE DEF L
  <2> QED BY <2>1, <2>2
<1>4. /\ Front(w) \in Seq(Nat) /\ Len(Front(w)) = L /\ \A i \in 1..L : Front(w)[i] = w[i]
  <2>1. /\ Front(w) \in Seq(Nat) /\ Len(Front(w)) = Len(w) - 1
        /\ \A i \in 1..(Len(w) - 1) : Front(w)[i] = w[i]
    BY <1>1, <1>2, Popping
  <2>2. Len(w) - 1 = L
    BY <1>1
  <2> HIDE DEF L
  <2> QED BY <2>1, <2>2
<1>5. /\ Front(k) \in Seq(FibFrame) /\ Len(Front(k)) = L - 1 /\ Last(k) = k[L]
      /\ \A i \in 1..(L - 1) : Front(k)[i] = k[i]
  BY <1>1, Popping
<1>6. \A i \in 1..(L - 1) : i \in 1..L /\ i + 1 \in 1..L
  BY <1>1
<1>7. \A i \in 1..L : i \in 1..(L + 1)
  BY <1>1
<1>8. Chain(Front(a), Front(w), Front(k))
  <2>1. \A i \in 1..(L - 1) : Front(a)[i] >= 2 /\ Link(Front(k)[i], Front(a)[i], Front(a)[i + 1], Front(w)[i], Front(w)[i + 1])
    BY <1>3, <1>4, <1>5, <1>6 DEF Chain
  <2>2. \A i \in 1..L : Front(a)[i] + i - 1 <= arg /\ Front(w)[i] + 2 * calls[Front(a)[i]] - 1 <= 2 * calls[arg]
    BY <1>3, <1>4, <1>7 DEF Chain
  <2>3. Front(a)[1] = arg /\ Front(w)[1] = 1
    BY <1>1, <1>2, <1>3, <1>4
  <2> QED BY <1>2, <1>3, <1>4, <1>5, <2>1, <2>2, <2>3 DEF Chain
<1>9. a[L] \in Nat /\ w[L] \in Nat /\ a[L] >= 2 /\ Link(Last(k), a[L], v, w[L], d)
      /\ w[L] + 2 * calls[a[L]] - 1 <= 2 * calls[arg]
  <2>1. L \in 1..L /\ L \in 1..(L + 1)
    BY <1>1
  <2>2. a[L] \in Nat /\ w[L] \in Nat
    BY <1>1, <2>1
  <2>3. a[L] >= 2 /\ Link(k[L], a[L], a[L + 1], w[L], w[L + 1])
    BY <2>1, Zenon DEF Chain
  <2>4. w[L] + 2 * calls[a[L]] - 1 <= 2 * calls[arg]
    BY <2>1, Zenon DEF Chain
  <2>5. v = a[L + 1] /\ d = w[L + 1] /\ Last(k) = k[L]
    BY <1>1, <1>5
  <2> QED BY <2>2, <2>3, <2>4, <2>5
<1>10. Inmost(Front(a), Front(w), Front(k), a[L], w[L])
  BY <1>2, <1>3, <1>4, <1>5 DEF Inmost
<1>11. L <= arg
  <2>1. a[L + 1] + (L + 1) - 1 <= arg /\ a[L + 1] \in Nat
    BY <1>1, <1>2 DEF Chain
  <2> QED BY <1>1, <2>1
<1> QED BY <1>1, <1>5, <1>8, <1>9, <1>10, <1>11

LEMMA ChainFacts ==
  ASSUME arg \in Nat, NEW a, NEW w, NEW k, Chain(a, w, k), NEW n, NEW d, Inmost(a, w, k, n, d)
  PROVE  /\ n \in Nat /\ d \in Nat /\ k \in Seq(FibFrame) /\ Len(k) \in Nat /\ n + Len(k) <= arg
         /\ d + 2 * calls[n] - 1 <= 2 * calls[arg]
         /\ k = <<>> => n = arg /\ d = 1
<1> DEFINE L == Len(k)
<1>1. /\ a \in Seq(Nat) /\ w \in Seq(Nat) /\ k \in Seq(FibFrame) /\ L \in Nat /\ (k = <<>> => L = 0)
      /\ Len(a) = L + 1 /\ Len(w) = L + 1 /\ n = a[L + 1] /\ d = w[L + 1] /\ a[1] = arg /\ w[1] = 1
  BY DEF Chain, Inmost
<1>2. L + 1 \in 1..(L + 1)
  BY <1>1
<1>3. n \in Nat /\ d \in Nat
  BY <1>1, <1>2
<1>4. n + (L + 1) - 1 <= arg /\ d + 2 * calls[n] - 1 <= 2 * calls[arg]
  BY <1>1, <1>2 DEF Chain
<1>5. n + L <= arg
  BY <1>1, <1>3, <1>4
<1>6. k = <<>> => n = arg /\ d = 1
  BY <1>1
<1> QED BY <1>1, <1>3, <1>4, <1>5, <1>6

At(n, d) ==
  /\ does \in {"call", "bounce"} => x = n
  /\ does = "apply" => x = fib_direct[n]
  /\ prog = "fib_cps" => /\ does = "call" => depth = d
                         /\ does = "apply" => depth = d + 2 * calls[n] - 2
FibState == \E a, w, n, d : Chain(a, w, kont) /\ Inmost(a, w, kont, n, d) /\ At(n, d)

LEMMA ChainPrimed ==
  ASSUME Unchanged, NEW a, NEW w, NEW n, NEW d, Chain(a, w, kont'), Inmost(a, w, kont', n, d), At(n, d)'
  PROVE  FibState'
<1>1. Chain(a, w, kont)'
  BY DEF Unchanged, Chain
<1>2. Inmost(a, w, kont, n, d)'
  BY DEF Inmost
<1> QED BY <1>1, <1>2, Zenon DEF FibState

(* The first call of a number is answered, or the second.                   *)
LEMMA FirstAnswered ==
  ASSUME arg \in Nat, NEW a, NEW w, NEW k, Chain(a, w, k), NEW n, NEW d, Inmost(a, w, k, n, d),
         k # <<>>, Last(k) \in [first : Nat]
  PROVE  /\ Len(k) \in Nat /\ Len(k) > 0 /\ Len(k) <= arg /\ Len(Front(k)) = Len(k) - 1
         /\ Chain(Front(a), Front(w), Front(k))
         /\ \E m, u \in Nat : /\ m >= 2 /\ Inmost(Front(a), Front(w), Front(k), m, u)
                              /\ Last(k).first = m /\ n = m - 1 /\ d = u + 1
                              /\ u + 2 * calls[m] - 1 <= 2 * calls[arg]
<1>1. /\ Chain(Front(a), Front(w), Front(k)) /\ Len(k) \in Nat /\ Len(k) > 0 /\ Len(k) <= arg
      /\ Len(Front(k)) = Len(k) - 1
      /\ \E m, u \in Nat : /\ m >= 2 /\ Inmost(Front(a), Front(w), Front(k), m, u) /\ Link(Last(k), m, n, u, d)
                           /\ u + 2 * calls[m] - 1 <= 2 * calls[arg]
  BY ChainFront
<1>2. DOMAIN Last(k) = {"first"} /\ \A v : "first" \notin DOMAIN [plus |-> v]
  OBVIOUS
<1>3. \A m, u : Link(Last(k), m, n, u, d) => Last(k).first = m /\ n = m - 1 /\ d = u + 1
  BY <1>2 DEF Link
<1> QED BY <1>1, <1>3

Caller(a, w, k, n, d) ==
  \E m, u \in Nat : /\ m >= 2 /\ Inmost(Front(a), Front(w), Front(k), m, u)
                    /\ Last(k).plus = fib_direct[m - 1] /\ n = m - 2
                    /\ d = u + 1 + 2 * calls[m - 1]
LEMMA SecondAnswered ==
  ASSUME arg \in Nat, NEW a, NEW w, NEW k, Chain(a, w, k), NEW n, NEW d, Inmost(a, w, k, n, d),
         k # <<>>, Last(k) \in [plus : Nat]
  PROVE  /\ Len(k) \in Nat /\ Len(k) > 0 /\ Len(k) <= arg /\ Len(Front(k)) = Len(k) - 1
         /\ Chain(Front(a), Front(w), Front(k))
         /\ Caller(a, w, k, n, d)
<1>1. /\ Chain(Front(a), Front(w), Front(k)) /\ Len(k) \in Nat /\ Len(k) > 0 /\ Len(k) <= arg
      /\ Len(Front(k)) = Len(k) - 1
      /\ \E m, u \in Nat : /\ m >= 2 /\ Inmost(Front(a), Front(w), Front(k), m, u) /\ Link(Last(k), m, n, u, d)
  BY ChainFront
<1>2. DOMAIN Last(k) = {"plus"} /\ \A v : "plus" \notin DOMAIN [first |-> v]
  OBVIOUS
<1>3. \A m, u : Link(Last(k), m, n, u, d) => Last(k).plus = fib_direct[m - 1] /\ n = m - 2 /\ d = u + 1 + 2 * calls[m - 1]
  BY <1>2 DEF Link
<1> QED BY <1>1, <1>3 DEF Caller

LEMMA Numbers ==
  ASSUME NEW m \in Nat, m >= 2
  PROVE  /\ m - 1 \in Nat /\ m - 2 \in Nat
         /\ fib_direct[m] = fib_direct[m - 1] + fib_direct[m - 2]
         /\ calls[m] = 1 + calls[m - 1] + calls[m - 2]
         /\ calls[m] \in Nat /\ calls[m - 1] \in Nat /\ calls[m - 2] \in Nat
         /\ calls[m] >= 1 /\ calls[m - 1] >= 1 /\ calls[m - 2] >= 1
         /\ fib_direct[m - 1] \in Nat /\ fib_direct[m - 2] \in Nat
<1>1. m - 1 \in Nat /\ m - 2 \in Nat /\ m > 1
  OBVIOUS
<1> QED BY <1>1, calls_def, fib_direct_def

LEMMA FibStateStep ==
  ASSUME Fibonacci, TypeOK, FibonacciInv, DepthInv, FibState, Next
  PROVE  FibState'
<1>1. Unchanged /\ arg \in Nat /\ depth \in Nat /\ prog' = prog /\ (~Trampolined <=> prog = "fib_cps")
  BY FibonacciSteps, OnlyFibonacci, Arguments DEF Unchanged
<1>2. PICK a, w, n, d : Chain(a, w, kont) /\ Inmost(a, w, kont, n, d) /\ At(n, d)
  BY Zenon DEF FibState
<1>3. /\ n \in Nat /\ d \in Nat /\ kont \in Seq(FibFrame) /\ n + Len(kont) <= arg
      /\ kont = <<>> => n = arg /\ d = 1
  BY <1>1, <1>2, ChainFacts
<1>4. /\ does \in {"call", "bounce"} => x = n
      /\ does = "apply" => x = fib_direct[n]
      /\ prog = "fib_cps" /\ does = "call" => depth = d
      /\ prog = "fib_cps" /\ does = "apply" => depth = d + 2 * calls[n] - 2
  BY <1>2 DEF At
<1>5. ASSUME does' \in {"RecursionError", Done}, kont' = kont PROVE FibState'
  <2>1. At(n, d)'
    BY <1>5 DEF At, Done
  <2>2. Chain(a, w, kont') /\ Inmost(a, w, kont', n, d)
    BY <1>2, <1>5
  <2> QED BY <1>1, <2>1, <2>2, ChainPrimed, Zenon
<1>6. CASE does = "call" /\ x <= 1 /\ does' = "apply" /\ x' = x /\ kont' = kont /\ depth' = depth
  <2>1. n = 0 \/ n = 1
    BY <1>3, <1>4, <1>6
  <2>2. fib_direct[n] = n /\ calls[n] = 1
    BY <2>1, fib_direct_def, calls_def
  <2>3. At(n, d)'
    <3>1. x' = fib_direct[n] /\ (prog = "fib_cps" => depth' = d + 2 * calls[n] - 2)
      BY <1>3, <1>4, <1>6, <2>2
    <3> QED BY <1>1, <1>6, <3>1 DEF At
  <2>4. Chain(a, w, kont') /\ Inmost(a, w, kont', n, d)
    BY <1>2, <1>6
  <2> QED BY <1>1, <2>3, <2>4, ChainPrimed, Zenon
<1>7. CASE /\ does = "call" /\ x >= 2 /\ does' \in {"call", "bounce"} /\ x' = x - 1
           /\ kont' = Append(kont, [first |-> x])
           /\ ~Trampolined => does' = "call" /\ depth' = depth + 1
  <2> DEFINE f == [first |-> n]
             v == n - 1
             u == d + 1
  <2>1. n >= 2 /\ Link(f, n, v, d, u) /\ x = n
    BY <1>4, <1>7 DEF Link
  <2>2. At(v, u)'
    <3>1. x' = v
      BY <1>7, <2>1
    <3>2. prog = "fib_cps" => does' = "call" /\ depth' = u
      BY <1>1, <1>4, <1>7
    <3> QED BY <1>1, <1>7, <3>1, <3>2 DEF At
  <2>3. kont' = Append(kont, f)
    BY <1>7, <2>1
  <2> HIDE DEF f, v, u
  <2>4. Chain(Append(a, v), Append(w, u), kont') /\ Inmost(Append(a, v), Append(w, u), kont', v, u)
    BY <1>1, <1>2, <2>1, <2>3, ChainAppend
  <2> QED BY <1>1, <2>2, <2>4, ChainPrimed, Zenon
<1>8. CASE does = "bounce" /\ does' = "call" /\ x' = x /\ kont' = kont
  <2>1. prog # "fib_cps"
    BY <1>1, <1>8 DEF DepthInv
  <2>2. At(n, d)'
    BY <1>1, <1>4, <1>8, <2>1 DEF At
  <2>3. Chain(a, w, kont') /\ Inmost(a, w, kont', n, d)
    BY <1>2, <1>8
  <2> QED BY <1>1, <2>2, <2>3, ChainPrimed, Zenon
<1>9. CASE /\ does = "apply" /\ kont # <<>> /\ Last(kont) \in [first : Nat] /\ does' \in {"call", "bounce"}
           /\ x' = Last(kont).first - 2 /\ kont' = Append(Front(kont), [plus |-> x])
           /\ ~Trampolined => does' = "call" /\ depth' = depth + 2
  <2>1. Chain(Front(a), Front(w), Front(kont))
    BY <1>1, <1>2, <1>9, FirstAnswered
  <2>2. PICK m, u \in Nat : /\ m >= 2 /\ Inmost(Front(a), Front(w), Front(kont), m, u)
                            /\ Last(kont).first = m /\ n = m - 1 /\ d = u + 1
    BY <1>1, <1>2, <1>9, FirstAnswered
  <2> DEFINE f == [plus |-> fib_direct[m - 1]]
             v == m - 2
             e == u + 1 + 2 * calls[m - 1]
  <2>3. Link(f, m, v, u, e)
    BY DEF Link
  <2>4. At(v, e)'
    <3>1. x' = v
      BY <1>9, <2>2
    <3>2. calls[m - 1] \in Nat
      BY <2>2, Numbers
    <3>3. prog = "fib_cps" => does' = "call" /\ depth' = e
      <4>1. prog = "fib_cps" => does' = "call" /\ depth' = depth + 2 /\ depth = (u + 1) + 2 * calls[m - 1] - 2
        BY <1>1, <1>4, <1>9, <2>2
      <4> QED BY <3>2, <4>1
    <3> HIDE DEF v, e
    <3> QED BY <1>1, <1>9, <3>1, <3>3 DEF At
  <2>5. kont' = Append(Front(kont), f)
    BY <1>4, <1>9, <2>2
  <2> HIDE DEF f, v, e
  <2>6. Chain(Append(Front(a), v), Append(Front(w), e), kont')
        /\ Inmost(Append(Front(a), v), Append(Front(w), e), kont', v, e)
    BY <1>1, <2>1, <2>2, <2>3, <2>5, ChainAppend
  <2> QED BY <1>1, <2>4, <2>6, ChainPrimed, Zenon
<1>10. CASE /\ does = "apply" /\ kont # <<>> /\ Last(kont) \in [plus : Nat]
            /\ Goes(1, "apply", Last(kont).plus + x, Front(kont))
  <2>1. Chain(Front(a), Front(w), Front(kont))
    <3>1. kont # <<>> /\ Last(kont) \in [plus : Nat]
      BY <1>10
    <3> QED BY <1>1, <1>2, <3>1, SecondAnswered, Zenon
  <2>2. PICK m, u \in Nat : /\ m >= 2 /\ Inmost(Front(a), Front(w), Front(kont), m, u)
                            /\ Last(kont).plus = fib_direct[m - 1] /\ n = m - 2
                            /\ d = u + 1 + 2 * calls[m - 1]
    <3>1. kont # <<>> /\ Last(kont) \in [plus : Nat]
      BY <1>10
    <3>2. Caller(a, w, kont, n, d)
      BY <1>1, <1>2, <3>1, SecondAnswered, Zenon
    <3> QED BY <3>2, Zenon DEF Caller
  <2>3. does' = "apply" /\ depth' = depth + 1 /\ x' = Last(kont).plus + x /\ kont' = Front(kont)
    BY <1>10 DEF Goes
  <2>4. At(m, u)'
    <3>1. x' = fib_direct[m]
      BY <1>4, <1>10, <2>2, <2>3, Numbers
    <3>2. prog = "fib_cps" => depth' = u + 2 * calls[m] - 2
      <4>1. PICK c, c1, c2 \in Nat : c = calls[m] /\ c1 = calls[m - 1] /\ c2 = calls[m - 2] /\ c = 1 + c1 + c2
        BY <2>2, Numbers
      <4>2. prog = "fib_cps" => depth' = (u + 1 + 2 * c1) + 2 * c2 - 2 + 1
        BY <1>4, <1>10, <2>2, <2>3, <4>1
      <4>3. (u + 1 + 2 * c1) + 2 * c2 - 2 + 1 = u + 2 * c - 2
        <5>1. c = 1 + c1 + c2
          BY <4>1
        <5> HIDE <4>1
        <5> QED BY <5>1
      <4> QED BY <4>1, <4>2, <4>3, Zenon
    <3> QED BY <1>1, <2>3, <3>1, <3>2 DEF At
  <2> QED BY <1>1, <2>1, <2>2, <2>3, <2>4, ChainPrimed
<1> QED BY FibonacciSteps, <1>5, <1>6, <1>7, <1>8, <1>9, <1>10 DEF OutOfStack, Goes, Bounces

(* What the chain says of the stack and of the value.                       *)
LEMMA FibStateFacts ==
  ASSUME Fibonacci, TypeOK, FibState
  PROVE  /\ arg \in Nat /\ kont \in Seq(FibFrame) /\ Len(kont) \in Nat /\ Len(kont) <= arg
         /\ does \in {"call", "bounce"} => x \in Nat /\ x + Len(kont) <= arg
         /\ does = "apply" => x \in Nat
         /\ does = "apply" /\ kont = <<>> => x = fib_direct[arg]
<1>1. arg \in Nat
  BY Arguments
<1>2. PICK a, w, n, d : Chain(a, w, kont) /\ Inmost(a, w, kont, n, d) /\ At(n, d)
  BY Zenon DEF FibState
<1>3. /\ n \in Nat /\ kont \in Seq(FibFrame) /\ Len(kont) \in Nat /\ n + Len(kont) <= arg
      /\ kont = <<>> => n = arg
  BY <1>1, <1>2, ChainFacts
<1>4. Len(kont) <= arg
  BY <1>1, <1>3
<1>5. does \in {"call", "bounce"} => x = n
  BY <1>2 DEF At
<1>6. does = "apply" => x = fib_direct[n]
  BY <1>2 DEF At
<1> QED BY <1>1, <1>3, <1>4, <1>5, <1>6, fib_direct_def

FibBounds == /\ arg \in Nat /\ kont \in Seq(FibFrame) /\ Len(kont) \in Nat /\ Len(kont) <= arg
             /\ does \in {"call", "bounce"} => x \in Nat /\ x + Len(kont) <= arg
             /\ does = "apply" => x \in Nat
LEMMA FibStateBounds == Fibonacci /\ TypeOK /\ FibState => FibBounds
BY FibStateFacts, Zenon DEF FibBounds

LEMMA FibonacciInvStep ==
  ASSUME Fibonacci, TypeOK, FibonacciInv, DepthInv, FibState, TypeOK', Next
  PROVE  FibonacciInv'
<1>1. Unchanged /\ Fibonacci' /\ arg' = arg
  BY FibonacciSteps, SameProgram DEF Unchanged
<1>2. FibState'
  BY FibStateStep
<1>3. FibBounds'
  <2>1. Fibonacci' /\ TypeOK' /\ FibState' => FibBounds'
    BY FibStateBounds, PTL
  <2> QED BY <1>1, <1>2, <2>1
<1>4. /\ does' \in {"call", "bounce", "apply", "RecursionError", Done}
      /\ does' \in {"RecursionError", Done} => x' = x
  BY FibonacciSteps DEF OutOfStack, Goes, Bounces, Done
<1>5. x \in Nat
  BY DEF FibonacciInv
<1>6. x' \in Nat
  BY <1>3, <1>4, <1>5 DEF FibBounds
<1> QED BY <1>1, <1>3, <1>4, <1>6 DEF FibonacciInv, FibBounds, FibFrame, DoesOneOf

LEMMA FibonacciDepthStep ==
  ASSUME Fibonacci, TypeOK, FibonacciInv, FibState, DepthInv, StackUse, Results, Next
  PROVE  TypeOK' /\ DepthInv' /\ StackUse' /\ Results'
<1>1. Unchanged /\ (prog = "fib_cps" <=> ~Trampolined) /\ prog # "fact_cps" /\ CPS
      /\ Fibonacci' /\ Trampolined' = Trampolined /\ CPS' /\ ~Search' /\ ~Factorial' /\ ~Tree'
      /\ ~Stackful' /\ ~Generator' /\ ~T9'
  BY FibonacciSteps, OnlyFibonacci, SameProgram
<1>2. /\ arg \in Nat /\ limit \in Nat /\ limit >= 4 /\ depth \in Nat /\ depth >= 1 /\ depth <= limit
      /\ arg' = arg /\ limit' = limit /\ prog' = prog
  BY Arguments, <1>1 DEF Unchanged
<1>3. /\ kont \in Seq(FibFrame) /\ Len(kont) \in Nat /\ Len(kont) <= arg
      /\ does = "call" => x \in Nat /\ x + Len(kont) <= arg
      /\ does = "apply" /\ kont = <<>> => x = fib_direct[arg]
      /\ kont # <<>> <=> Len(kont) > 0
  <2>1. kont \in Seq(FibFrame)
    BY FibStateFacts
  <2>2. kont # <<>> <=> Len(kont) > 0
    BY <2>1, EmptySeq
  <2> QED BY <2>2, FibStateFacts
<1>4. (prog = "fib_cps" \/ Trampolined => Needed' = Needed)
      /\ Needed = IF Trampolined THEN IF arg = 0 THEN 3 ELSE arg + 5 ELSE 2 * calls[arg]
  BY <1>1, NeededBy, NeededStays
<1>5. does = "bounce" => Trampolined /\ depth = 1 /\ kont # <<>>
  BY DEF DepthInv
<1>6. Results'
  <2>1. does' = Done => x' = fib_direct[arg]
    BY FibonacciSteps, <1>3 DEF OutOfStack, Goes, Bounces, Done
  <2> QED BY <1>1, <1>2, <2>1 DEF Results
<1>7. CASE ~Trampolined
  <2>1. PICK a, w, n, d : Chain(a, w, kont) /\ Inmost(a, w, kont, n, d) /\ At(n, d)
    BY Zenon DEF FibState
  <2>2. /\ n \in Nat /\ d \in Nat /\ d + 2 * calls[n] - 1 <= 2 * calls[arg]
        /\ kont = <<>> => n = arg /\ d = 1
    BY <1>2, <2>1, ChainFacts
  <2>3. /\ does = "call" => depth = d /\ x = n
        /\ does = "apply" => depth = d + 2 * calls[n] - 2
    BY <1>1, <1>7, <2>1 DEF At
  <2>4. PICK c, ca \in Nat : c = calls[n] /\ ca = calls[arg] /\ c >= 1
    BY <1>2, <2>2, calls_def
  <2>5. /\ d + 2 * c - 1 <= 2 * ca
        /\ does = "call" => depth = d
        /\ does = "apply" => depth = d + 2 * c - 2
        /\ kont = <<>> => d = 1 /\ c = ca
    BY <2>2, <2>3, <2>4
  <2>6. /\ does' \in {"call", "apply", Done, "RecursionError"} /\ depth' \in 1..limit
        /\ does' = "RecursionError" => 2 * ca > limit
        /\ does' = Done => 2 * ca <= limit
    <3> HIDE <2>1
    <3>1. CASE does = "call" /\ does' = "apply" /\ depth' = depth
      BY <1>2, <3>1 DEF Done
    <3>2. CASE does = "call" /\ OutOfStack(1)
      <4>1. depth + 1 > limit /\ does' = "RecursionError" /\ depth' = depth /\ depth = d
        BY <2>5, <3>2 DEF OutOfStack
      <4>2. 2 * ca > limit
        <5>1. d + 2 * c - 1 <= 2 * ca /\ d + 1 > limit /\ c >= 1
          BY <2>4, <2>5, <4>1
        <5>2. d \in Nat /\ c \in Nat /\ ca \in Nat /\ limit \in Nat
          BY <1>2, <2>2, <2>4
        <5> QED BY <5>1, <5>2
      <4> QED BY <1>2, <4>1, <4>2 DEF Done
    <3>3. CASE does = "call" /\ Goes(1, "call", x - 1, Append(kont, [first |-> x]))
      BY <1>2, <3>3 DEF Goes, Done
    <3>4. CASE does = "apply" /\ kont # <<>> /\ Last(kont) \in [first : Nat] /\ OutOfStack(2)
      <4>1. depth + 2 > limit /\ does' = "RecursionError" /\ depth' = depth /\ depth = d + 2 * c - 2
        BY <2>5, <3>4 DEF OutOfStack
      <4>2. PICK m, u \in Nat : /\ m >= 2 /\ Inmost(Front(a), Front(w), Front(kont), m, u)
                                /\ Last(kont).first = m /\ n = m - 1 /\ d = u + 1
                                /\ u + 2 * calls[m] - 1 <= 2 * calls[arg]
        <5>1. arg \in Nat /\ kont # <<>> /\ Last(kont) \in [first : Nat]
          BY <1>2, <3>4
        <5> QED BY <2>1, <5>1, FirstAnswered
      <4>3. PICK e, e2 \in Nat : e = calls[m] /\ e2 = calls[m - 2] /\ e = 1 + c + e2 /\ e2 >= 1
        BY <2>4, <4>2, Numbers
      <4>4. u + 2 * e - 1 <= 2 * ca /\ e = 1 + c + e2
        BY <2>4, <4>2, <4>3
      <4>5. e2 >= 1 /\ d = u + 1
        BY <4>2, <4>3
      <4> HIDE <4>3, <4>2, <2>4
      <4>6. 2 * ca > limit
        BY <1>2, <4>1, <4>4, <4>5
      <4> QED BY <1>2, <4>1, <4>6 DEF Done
    <3>5. CASE does = "apply" /\ kont # <<>> /\ Goes(2, "call", Last(kont).first - 2, Append(Front(kont), [plus |-> x]))
      BY <1>2, <3>5 DEF Goes, Done
    <3>6. CASE does = "apply" /\ OutOfStack(1)
      <4>1. depth + 1 > limit /\ does' = "RecursionError" /\ depth' = depth /\ depth = d + 2 * c - 2
        BY <2>5, <3>6 DEF OutOfStack
      <4>2. 2 * ca > limit
        <5> HIDE <2>4
        <5> QED BY <1>2, <2>2, <2>5, <4>1
      <4> QED BY <1>2, <4>1, <4>2 DEF Done
    <3>7. CASE does = "apply" /\ kont # <<>> /\ Goes(1, "apply", Last(kont).plus + x, Front(kont))
      BY <1>2, <3>7 DEF Goes, Done
    <3>8. CASE does = "apply" /\ kont = <<>> /\ Goes(1, Done, x, kont)
      <4>1. depth + 1 <= limit /\ does' = Done /\ depth' = depth + 1 /\ depth = 1 + 2 * ca - 2
        BY <2>5, <3>8 DEF Goes
      <4>2. 2 * ca <= limit
        <5> HIDE <2>4
        <5> QED BY <1>2, <4>1
      <4> QED BY <1>2, <4>1, <4>2 DEF Done
    <3> QED BY FibonacciSteps, <1>5, <1>7, <3>1, <3>2, <3>3, <3>4, <3>5, <3>6, <3>7, <3>8
  <2>7. TypeOK'
    BY <1>1, <1>2, <2>6 DEF TypeOK, Done, Unchanged
  <2>8. DepthInv'
    BY <1>1, <1>2, <1>7, <2>6 DEF DepthInv, Done
  <2>9. StackUse'
    <3>1. Needed' = 2 * ca
      BY <1>1, <1>4, <1>7, <2>4
    <3> QED BY <1>1, <1>2, <1>7, <2>6, <3>1 DEF StackUse, Done
  <2> QED BY <1>6, <2>7, <2>8, <2>9
<1>8. CASE Trampolined
  <2> DEFINE top == IF arg = 0 THEN 1 ELSE 3 + arg
  <2>1. /\ does = "call" => depth = IF kont = <<>> THEN 1 ELSE 3
        /\ does = "apply" => depth + Len(kont) <= top
    BY <1>8, Zenon DEF DepthInv
  <2>2. /\ does' \in {"call", "bounce", "apply", Done, "RecursionError"} /\ depth' \in 1..limit
        /\ does' = "call" => depth' = IF kont' = <<>> THEN 1 ELSE 3
        /\ does' = "bounce" => depth' = 1 /\ kont' # <<>>
        /\ does' = "apply" => depth' + Len(kont') <= top
        /\ does' = "RecursionError" => Needed > limit
    <3>0. Needed = IF arg = 0 THEN 3 ELSE arg + 5
      BY <1>4, <1>8
    <3>1. CASE /\ does = "call" /\ x <= 1 /\ does' = "apply" /\ kont' = kont /\ depth' = depth
      BY <1>2, <1>3, <2>1, <3>1 DEF Done
    <3>2. CASE does = "call" /\ OutOfStack(1)
      BY <1>2, <1>3, <2>1, <3>2 DEF OutOfStack
    <3>3. CASE does = "call" /\ Bounces(1, x - 1, Append(kont, [first |-> x]))
      <4>1. kont' # <<>>
        BY <1>3, <3>3 DEF Bounces
      <4> QED BY <1>2, <3>3, <4>1 DEF Bounces, Done
    <3>4. CASE does = "bounce" /\ OutOfStack(2)
      BY <1>2, <1>5, <3>4 DEF OutOfStack
    <3>5. CASE does = "bounce" /\ Goes(2, "call", x, kont)
      BY <1>2, <1>5, <3>5 DEF Goes, Done
    <3>6. CASE does = "apply" /\ kont # <<>> /\ (OutOfStack(1) \/ OutOfStack(2))
      BY <1>2, <1>3, <2>1, <3>0, <3>6 DEF OutOfStack, Done
    <3>7. CASE does = "apply" /\ kont # <<>> /\ Goes(1, "apply", Last(kont).plus + x, Front(kont))
      <4>1. Len(kont') = Len(kont) - 1
        BY <1>3, <3>7, Popping DEF Goes
      <4> QED BY <1>2, <1>3, <2>1, <3>7, <4>1 DEF Goes, Done
    <3>8. CASE does = "apply" /\ kont = <<>> /\ OutOfStack(2)
      BY <1>2, <1>3, <2>1, <3>0, <3>8 DEF OutOfStack, Done
    <3>9. CASE does = "apply" /\ kont = <<>> /\ Goes(2, Done, x, kont)
      BY <1>2, <1>3, <2>1, <3>0, <3>9 DEF Goes, Done
    <3>10. CASE does = "apply" /\ kont # <<>> /\ Bounces(2, Last(kont).first - 2, Append(Front(kont), [plus |-> x]))
      <4>1. Front(kont) \in Seq(FibFrame)
        BY <1>3, <3>10, Popping
      <4>2. kont' # <<>>
        BY <3>10, <4>1 DEF Bounces
      <4> QED BY <1>2, <3>10, <4>2 DEF Bounces, Done
    <3> QED BY FibonacciSteps, <1>8, <3>1, <3>2, <3>3, <3>4, <3>5, <3>6, <3>7, <3>8, <3>9, <3>10
  <2>3. TypeOK'
    BY <1>1, <1>2, <2>2 DEF TypeOK, Done, Unchanged
  <2>4. DepthInv'
    <3>1. prog' # "fact_cps" /\ Trampolined' /\ top' = top
      BY <1>1, <1>2, <1>8
    <3> HIDE DEF top
    <3>2. does' = "apply" => depth' + Len(kont') <= top'
      BY <2>2, <3>1
    <3> QED BY <1>1, <2>2, <3>1, <3>2, Zenon DEF DepthInv, top
  <2>5. StackUse'
    <3>1. does' = "call" => depth' <= 3
      BY <2>2
    <3>2. depth' <= limit' /\ (does' = "RecursionError" => Needed' > limit')
      BY <1>1, <1>2, <1>4, <1>8, <2>2
    <3>3. prog' # "fib_cps"
      BY <1>1, <1>2, <1>8
    <3> QED BY <1>1, <1>2, <3>1, <3>2, <3>3, Zenon DEF StackUse, Done
  <2> QED BY <1>6, <2>3, <2>4, <2>5
<1> QED BY <1>7, <1>8

--------------------------------------------------------------------------------
(* The walk of the tree: its frames are of one kind or the other.           *)
LEMMA OnlyTree ==
  ASSUME Tree
  PROVE  /\ CPS /\ ~Factorial /\ ~Fibonacci /\ ~Search /\ ~Stackful /\ ~Generator /\ ~T9
         /\ prog \notin {"fact_cps", "fib_cps"} /\ ~Trampolined
BY DEF Factorial, CPS, Fibonacci, Tree, Search, Stackful, Generator, T9, Keypad, Trampolined

TreeFrame(f) == DOMAIN f = {"left"} \/ DOMAIN f = {"vals"}
TreeFrames(k) == \E S : k \in Seq(S) /\ \A f \in S : TreeFrame(f)
TreeInv == Tree => DoesOneOf({"call", "apply"}) /\ TreeFrames(kont)

LEMMA TreePushed ==
  ASSUME NEW k, TreeFrames(k), NEW f, TreeFrame(f)
  PROVE  TreeFrames(Append(k, f))
<1>1. PICK S : k \in Seq(S) /\ \A g \in S : TreeFrame(g)
  BY DEF TreeFrames
<1> DEFINE U == S \cup {f}
<1>2. Append(k, f) \in Seq(U)
  BY <1>1
<1>3. \A g \in U : TreeFrame(g)
  BY <1>1
<1> HIDE DEF U
<1> QED BY <1>2, <1>3, Zenon DEF TreeFrames

LEMMA TreePopped ==
  ASSUME NEW k, TreeFrames(k), k # <<>>
  PROVE  TreeFrames(Front(k)) /\ TreeFrame(Last(k))
<1>1. PICK S : k \in Seq(S) /\ \A g \in S : TreeFrame(g)
  BY DEF TreeFrames
<1>2. Front(k) \in Seq(S) /\ Last(k) \in S
  BY <1>1, Popping
<1> QED BY <1>1, <1>2 DEF TreeFrames

LEMMA TreeStep ==
  ASSUME Tree, TypeOK, DepthInv, StackUse, TreeInv, Next
  PROVE  TypeOK' /\ DepthInv' /\ StackUse' /\ TreeInv' /\ Unchanged
<1> USE OnlyTree
<1>1. does \in {"call", "apply", "RecursionError", Done} /\ TreeFrames(kont)
  BY DEF TreeInv, DoesOneOf
<1> DEFINE Moves(n, what, frames) == \E v : OutOfStack(n) \/ Goes(n, what, v, frames)
<1>2. Unchanged /\ \/ does' = "apply" /\ depth' = depth /\ kont' = kont
                   \/ \E f : TreeFrame(f) /\ Moves(1, "call", Append(kont, f))
                   \/ \E f : kont # <<>> /\ TreeFrame(f) /\ Moves(2, "call", Append(Front(kont), f))
                   \/ kont # <<>> /\ Moves(1, "apply", Front(kont))
                   \/ Moves(1, Done, kont)
  <2>1. CASE CallBase
    BY <2>1 DEF CallBase, input, Unchanged
  <2>2. CASE CallRecursive
    <3>1. Unchanged /\ CallAgain(1, x.left, Append(kont, [left |-> x]))
      BY <2>2 DEF CallRecursive, input, Unchanged, Pushed
    <3>2. TreeFrame([left |-> x])
      BY DEF TreeFrame
    <3>3. OutOfStack(1) \/ Goes(1, "call", x.left, Append(kont, [left |-> x]))
      BY <3>1, CallAgainIs
    <3> QED BY <3>1, <3>2, <3>3
  <2>3. CASE Apply
    <3>1. kont # <<>> /\ Unchanged /\ TreeFrame(Last(kont))
      BY <1>1, <2>3, TreePopped DEF Apply, input, Unchanged
    <3>2. CASE DOMAIN Last(kont) = {"left"}
      <4> DEFINE f == [vals |-> Append(x.vals, Last(kont).left.value)]
                 v == Last(kont).left.right
      <4>1. CallAgain(2, v, Append(Front(kont), f))
        BY <2>3, <3>2 DEF Apply, Popped
      <4>2. TreeFrame(f)
        BY DEF TreeFrame
      <4> HIDE DEF f, v
      <4>3. OutOfStack(2) \/ Goes(2, "call", v, Append(Front(kont), f))
        BY <4>1, CallAgainIs
      <4> QED BY <3>1, <4>2, <4>3
    <3>3. CASE DOMAIN Last(kont) = {"vals"}
      <4> DEFINE v == [vals |-> LeftFirst(Last(kont).vals, x.vals)]
      <4>1. Deeper(1, "apply", v, Front(kont))
        BY <2>3, <3>3 DEF Apply, Popped
      <4> HIDE DEF v
      <4>2. OutOfStack(1) \/ Goes(1, "apply", v, Front(kont))
        BY <4>1, DeeperIs
      <4> QED BY <3>1, <4>2
    <3> QED BY <3>1, <3>2, <3>3 DEF TreeFrame
  <2>4. CASE ApplyFirst
    <3>1. Unchanged /\ Deeper(1, Done, x, kont)
      BY <2>4 DEF ApplyFirst, input, Unchanged
    <3> QED BY <3>1, DeeperIs
  <2>5. CASE Leave
    BY <1>1, <2>5 DEF Leave, Done
  <2>6. CASE Thunk
    BY <2>6 DEF Thunk, DepthInv
  <2> QED BY <2>1, <2>2, <2>3, <2>4, <2>5, <2>6
       DEF Next, SearchEnds, SearchFinds, SearchGoesOn, StepLeaf, StepEnter, StepAfterChild, StepExit,
           StepEmpty, InPhase, Resume, GeneratorEnds, NoDigits, Descend, Leaf, Return, Combining
<1>3. /\ limit \in Nat /\ limit >= 4 /\ depth \in Nat /\ depth >= 1 /\ depth <= limit
      /\ arg' = arg /\ limit' = limit /\ prog' = prog
  BY Arguments, <1>2 DEF Unchanged
<1>4. Tree' /\ CPS' /\ ~Trampolined' /\ ~Factorial' /\ ~Fibonacci' /\ ~Search'
      /\ prog' \notin {"fact_cps", "fib_cps"}
  BY <1>2, <1>3, OnlyTree, SameProgram
<1>5. does' \in {"call", "apply", "RecursionError", Done} /\ depth' \in 1..limit /\ TreeFrames(kont')
  <2>1. CASE does' = "apply" /\ depth' = depth /\ kont' = kont
    BY <1>1, <1>3, <2>1
  <2>2. ASSUME NEW n \in {1, 2}, NEW what \in {"call", "apply", Done}, NEW k, TreeFrames(k), Moves(n, what, k)
        PROVE  does' \in {"call", "apply", "RecursionError", Done} /\ depth' \in 1..limit /\ TreeFrames(kont')
    <3>1. CASE OutOfStack(n)
      BY <1>1, <1>3, <3>1 DEF OutOfStack
    <3>2. CASE ~OutOfStack(n)
      <4>1. does' = what /\ depth' = depth + n /\ depth + n <= limit /\ kont' = k
        BY <2>2, <3>2 DEF Goes
      <4> QED BY <1>3, <2>2, <4>1
    <3> QED BY <3>1, <3>2
  <2> HIDE DEF Moves
  <2>3. ASSUME NEW f, TreeFrame(f), Moves(1, "call", Append(kont, f))
        PROVE  does' \in {"call", "apply", "RecursionError", Done} /\ depth' \in 1..limit /\ TreeFrames(kont')
    BY <1>1, <2>2, <2>3, TreePushed
  <2>4. ASSUME NEW f, kont # <<>>, TreeFrame(f), Moves(2, "call", Append(Front(kont), f))
        PROVE  does' \in {"call", "apply", "RecursionError", Done} /\ depth' \in 1..limit /\ TreeFrames(kont')
    BY <1>1, <2>2, <2>4, TreePushed, TreePopped
  <2>5. CASE kont # <<>> /\ Moves(1, "apply", Front(kont))
    BY <1>1, <2>2, <2>5, TreePopped
  <2>6. CASE Moves(1, Done, kont)
    BY <1>1, <2>2, <2>6
  <2> QED BY <1>2, <2>1, <2>3, <2>4, <2>5, <2>6
<1>6. TypeOK'
  BY <1>3, <1>5 DEF TypeOK, Done
<1>7. DepthInv'
  BY <1>4, <1>5 DEF DepthInv, Done
<1>8. StackUse'
  BY <1>3, <1>4, <1>5 DEF StackUse
<1>9. TreeInv'
  BY <1>4, <1>5, Zenon DEF TreeInv, DoesOneOf
<1> QED BY <1>2, <1>6, <1>7, <1>8, <1>9

--------------------------------------------------------------------------------
(* The combinations of letters.                                             *)
LEMMA OnlyT9 ==
  ASSUME T9
  PROVE  /\ ~CPS /\ ~Factorial /\ ~Fibonacci /\ ~Tree /\ ~Search /\ ~Stackful /\ ~Generator
         /\ prog \notin {"fact_cps", "fib_cps"} /\ ~Trampolined
BY DEF Factorial, CPS, Fibonacci, Tree, Search, Stackful, Generator, T9, Keypad, Trampolined

LEMMA T9Steps ==
  ASSUME T9, TypeOK, T9Inv, DepthInv, Next
  PROVE  /\ Unchanged /\ does = "run" /\ depth' = depth
         /\ NoDigits \/ Descend \/ Leaf \/ Return
<1> USE OnlyT9
<1>1. CASE Leave
  BY <1>1 DEF Leave, T9Inv, Done
<1>2. CASE Thunk
  BY <1>2 DEF Thunk, DepthInv
<1>3. CASE NoDigits \/ Descend \/ Leaf \/ Return
  BY <1>3 DEF NoDigits, Descend, Leaf, Return, Combining, input, Unchanged
<1> QED BY <1>1, <1>2, <1>3
     DEF Next, CallBase, CallRecursive, Apply, ApplyFirst, SearchEnds, SearchFinds, SearchGoesOn,
         StepLeaf, StepEnter, StepAfterChild, StepExit, StepEmpty, InPhase, Resume, GeneratorEnds

(* Lists in order.                                                          *)
LEMMA NoneListed ==
  /\ \A S : Lists(<<>>, S) <=> S = {}
  /\ \A s : Lists(s, {}) => s = <<>>
<1>1. ASSUME NEW S PROVE Lists(<<>>, S) <=> S = {}
  BY DEF Lists
<1>2. ASSUME NEW s, Lists(s, {}) PROVE s = <<>>
  <2>1. s \in Seq({})
    BY <1>2 DEF Lists
  <2>2. Len(s) \in Nat /\ \A i \in 1..Len(s) : s[i] \in {}
    BY <2>1
  <2>3. Len(s) = 0
    BY <2>2
  <2> QED BY <2>1, <2>3, EmptySeq
<1> QED BY <1>1, <1>2

LEMMA OneListed ==
  ASSUME NEW c
  PROVE  Lists(<<c>>, {c})
<1>1. <<c>> \in Seq({c}) /\ DOMAIN <<c>> = 1..1 /\ <<c>>[1] = c
  OBVIOUS
<1> QED BY <1>1 DEF Lists

LEMMA ListedTogether ==
  ASSUME NEW S, NEW T, NEW s, NEW t, Lists(s, S), Lists(t, T), \A c \in S, d \in T : Before(c, d)
  PROVE  Lists(s \o t, S \cup T)
<1> DEFINE q == s \o t
           m == Len(s)
           n == Len(t)
<1>1. s \in Seq(S) /\ t \in Seq(T) /\ m \in Nat /\ n \in Nat /\ DOMAIN s = 1..m /\ DOMAIN t = 1..n
  BY DEF Lists
<1>2. s \in Seq(S \cup T) /\ t \in Seq(S \cup T)
  BY <1>1
<1>3. /\ q \in Seq(S \cup T) /\ Len(q) = m + n /\ DOMAIN q = 1..(m + n)
      /\ \A i \in 1..m : q[i] = s[i] /\ s[i] \in S
      /\ \A i \in 1..n : q[m + i] = t[i] /\ t[i] \in T
  <2>1. q \in Seq(S \cup T) /\ Len(q) = m + n
    BY <1>2
  <2>2. \A i \in 1..(m + n) : q[i] = IF i <= m THEN s[i] ELSE t[i - m]
    BY <1>1, <1>2
  <2>3. \A i \in 1..m : i \in 1..(m + n) /\ i <= m
    BY <1>1
  <2>4. \A i \in 1..n : m + i \in 1..(m + n) /\ ~(m + i <= m) /\ (m + i) - m = i
    BY <1>1
  <2>5. (\A i \in 1..m : s[i] \in S) /\ \A i \in 1..n : t[i] \in T
    BY <1>1
  <2> HIDE DEF q, m, n
  <2>6. \A i \in 1..n : q[m + i] = t[i]
    BY <2>2, <2>4
  <2> QED BY <2>1, <2>2, <2>3, <2>5, <2>6
<1>4. \A i \in 1..(m + n) : i \in 1..m \/ (i - m \in 1..n /\ i = m + (i - m))
  BY <1>1
<1>5. \A i \in 1..m : i \in 1..(m + n)
  BY <1>1
<1>6. \A i \in 1..n : m + i \in 1..(m + n)
  BY <1>1
<1> HIDE DEF q, m, n
<1>7. ASSUME NEW c \in S \cup T PROVE \E i \in DOMAIN q : q[i] = c
  <2>1. CASE c \in S
    BY <1>1, <1>3, <1>5, <2>1 DEF Lists
  <2>2. CASE c \in T
    <3>1. PICK i \in 1..n : t[i] = c
      BY <1>1, <2>2 DEF Lists
    <3> QED BY <1>3, <1>6, <3>1
  <2> QED BY <2>1, <2>2
<1>8. ASSUME NEW i \in DOMAIN q, NEW j \in DOMAIN q, i < j PROVE Before(q[i], q[j])
  <2>0. i \in 1..(m + n) /\ j \in 1..(m + n)
    BY <1>3
  <2>1. CASE i \in 1..m /\ j \in 1..m
    BY <1>1, <1>3, <1>8, <2>1 DEF Lists
  <2>2. CASE i \in 1..m /\ j \notin 1..m
    <3>1. j - m \in 1..n /\ q[j] = t[j - m]
      BY <1>3, <1>4, <2>0, <2>2
    <3> QED BY <1>3, <2>2, <3>1
  <2>3. CASE i \notin 1..m /\ j \notin 1..m
    <3>1. i - m \in 1..n /\ q[i] = t[i - m] /\ j - m \in 1..n /\ q[j] = t[j - m]
      BY <1>3, <1>4, <2>0, <2>3
    <3>2. i - m < j - m
      BY <1>1, <1>8, <2>0
    <3> QED BY <1>1, <3>1, <3>2 DEF Lists
  <2>4. CASE i \notin 1..m /\ j \in 1..m
    BY <1>1, <1>8, <2>0, <2>4
  <2> QED BY <2>1, <2>2, <2>3, <2>4
<1> QED BY <1>3, <1>7, <1>8 DEF Lists, q

LEMMA Combinations ==
  ASSUME NEW c, arg \in Seq(2..9)
  PROVE  c \in AllCombinations <=>
           /\ c \in [1..Len(arg) -> 1..4]
           /\ \A j \in 1..Len(arg) : c[j] <= KEY_MAP[arg[j]] /\ KEY_MAP[arg[j]] \in 1..4
<1>1. \A j \in 1..Len(arg) : arg[j] \in 2..9
  OBVIOUS
<1>2. \A d \in 2..9 : KEY_MAP[d] \in 1..4
  BY DEF KEY_MAP
<1>3. \A f \in [1..Len(arg) -> 1..4] : DOMAIN f = 1..Len(arg)
  OBVIOUS
<1> QED BY <1>1, <1>2, <1>3 DEF AllCombinations

(* What an open call has to show: the combinations of the letters it has    *)
(* been through.                                                            *)
T9Frame == [at : 1..5, results : Seq(AllCombinations)]
Part(p, i, t) == {c \in AllCombinations : c[i] < t /\ \A j \in 1..(i - 1) : c[j] = p[j]}
Own(k, p, i) == Part(p, i, IF i < Len(k) THEN p[i] ELSE k[i].at)
AllOwn(k, p) == UNION {Own(k, p, i) : i \in 1..Len(k)}
Shape(k, p) == /\ k \in Seq(T9Frame) /\ p \in Seq(1..4)
               /\ Len(k) \in 1..Len(arg) /\ Len(p) = Len(k) - 1
               /\ \A i \in 1..Len(p) : p[i] = k[i].at - 1
               /\ \A i \in 1..Len(k) : k[i].at <= KEY_MAP[arg[i]] + 1
Gathered(k, p, o) == /\ \A i \in 1..Len(k) : Lists(k[i].results, IF Local THEN Own(k, p, i) ELSE {})
                     /\ Lists(o, IF Local THEN {} ELSE AllOwn(k, p))

T9Facts == T9 =>
  /\ does \in {"run", Done} /\ (kont = <<>> <=> does = Done \/ arg = <<>>)
  /\ IF arg = <<>> THEN out = <<>> ELSE does = Done => Lists(out, AllCombinations)
  /\ does = "run" /\ kont # <<>> => Shape(kont, path) /\ Gathered(kont, path, out)

LEMMA T9InvIs == TypeOK => (T9Inv <=> T9Facts)
<1> SUFFICES ASSUME TypeOK, T9 PROVE T9Inv <=> T9Facts
  BY Zenon DEF T9Inv, T9Facts
<1>0. arg \in Seq(2..9) /\ Len(arg) \in Nat
  BY Arguments
<1>1. \A i : Mine(i) = Own(kont, path, i)
  BY Zenon DEF Mine, Tried, Own, Part
<1>2. ASSUME kont # <<>>, kont \in Seq(T9Frame), path \in Seq(1..4)
      PROVE  /\ DOMAIN kont = 1..Len(kont) /\ DOMAIN path = 1..Len(path) /\ Len(kont) \in Nat /\ Len(kont) >= 1
  BY <1>2, EmptySeq
<1>3. ASSUME does = "run", kont # <<>>
      PROVE  (/\ kont \in Seq([at : 1..5, results : Seq(AllCombinations)]) /\ path \in Seq(1..4)
              /\ Len(kont) <= Len(arg) /\ Len(path) = Len(kont) - 1
              /\ \A i \in DOMAIN path : path[i] = kont[i].at - 1
              /\ \A i \in DOMAIN kont : kont[i].at <= KEY_MAP[arg[i]] + 1
              /\ \A i \in DOMAIN kont : Lists(kont[i].results, IF Local THEN Mine(i) ELSE {})
              /\ Lists(out, IF Local THEN {} ELSE UNION {Mine(i) : i \in DOMAIN kont}))
             <=> Shape(kont, path) /\ Gathered(kont, path, out)
  <2>1. CASE kont \in Seq(T9Frame) /\ path \in Seq(1..4)
    <3>1. DOMAIN kont = 1..Len(kont) /\ DOMAIN path = 1..Len(path) /\ Len(kont) \in Nat /\ Len(kont) >= 1
      BY <1>2, <1>3, <2>1
    <3>2. Len(kont) <= Len(arg) <=> Len(kont) \in 1..Len(arg)
      BY <1>0, <3>1
    <3>3. UNION {Mine(i) : i \in DOMAIN kont} = AllOwn(kont, path)
      BY <1>1, <3>1 DEF AllOwn
    <3> QED BY <1>1, <2>1, <3>1, <3>2, <3>3, Zenon DEF Shape, Gathered, T9Frame
  <2>2. CASE ~(kont \in Seq(T9Frame) /\ path \in Seq(1..4))
    BY <2>2, Zenon DEF Shape, T9Frame
  <2> QED BY <2>1, <2>2
<1> QED BY <1>3, Zenon DEF T9Inv, T9Facts, Combining, Done

LEMMA Replacing ==
  ASSUME NEW S, NEW k \in Seq(S), k # <<>>, NEW f \in S
  PROVE  /\ Append(Front(k), f) \in Seq(S) /\ Len(Append(Front(k), f)) = Len(k)
         /\ \A i \in 1..(Len(k) - 1) : Append(Front(k), f)[i] = k[i]
         /\ Append(Front(k), f)[Len(k)] = f
         /\ Append(Front(k), f) # <<>>
<1>1. /\ Front(k) \in Seq(S) /\ Len(Front(k)) = Len(k) - 1 /\ Len(k) \in Nat /\ Len(k) > 0
      /\ \A i \in 1..(Len(k) - 1) : Front(k)[i] = k[i]
  BY Popping
<1> DEFINE q == Append(Front(k), f)
<1>2. /\ q \in Seq(S) /\ Len(q) = Len(Front(k)) + 1
      /\ \A i \in 1..Len(Front(k)) : q[i] = Front(k)[i]
      /\ q[Len(Front(k)) + 1] = f
  BY <1>1, Pushing
<1>3. (Len(k) - 1) + 1 = Len(k)
  BY <1>1
<1> HIDE DEF q
<1>4. q \in Seq(S) /\ Len(q) = Len(k) /\ (\A i \in 1..(Len(k) - 1) : q[i] = k[i]) /\ q[Len(k)] = f
  BY <1>1, <1>2, <1>3
<1>5. q # <<>>
  BY <1>1, <1>4
<1> QED BY <1>4, <1>5 DEF q

LEMMA SamePart ==
  ASSUME NEW p, NEW q, NEW i, NEW t, \A j \in 1..(i - 1) : p[j] = q[j]
  PROVE  Part(p, i, t) = Part(q, i, t)
BY DEF Part

LEMMA ShapeFacts ==
  ASSUME NEW k, NEW p, Shape(k, p), arg \in Seq(2..9)
  PROVE  /\ Len(k) \in Nat /\ Len(k) >= 1 /\ Len(k) <= Len(arg) /\ k # <<>> /\ Len(arg) \in Nat
         /\ Last(k) = k[Len(k)] /\ Last(k) \in T9Frame /\ Len(p) = Len(k) - 1
         /\ Last(k).at \in 1..5 /\ Last(k).results \in Seq(AllCombinations)
         /\ \A i \in 1..Len(k) : k[i] \in T9Frame /\ k[i].at \in 1..5 /\ k[i].results \in Seq(AllCombinations)
         /\ \A i \in 1..(Len(k) - 1) : p[i] \in 1..4 /\ p[i] = k[i].at - 1 /\ p[i] <= KEY_MAP[arg[i]]
         /\ \A i \in 1..Len(arg) : KEY_MAP[arg[i]] \in 1..4
<1>1. k \in Seq(T9Frame) /\ p \in Seq(1..4) /\ Len(k) \in 1..Len(arg) /\ Len(p) = Len(k) - 1
  BY DEF Shape
<1>2. Len(arg) \in Nat /\ \A i \in 1..Len(arg) : arg[i] \in 2..9
  OBVIOUS
<1>3. \A d \in 2..9 : KEY_MAP[d] \in 1..4
  BY DEF KEY_MAP
<1>4. Len(k) \in Nat /\ Len(k) >= 1 /\ Len(k) <= Len(arg) /\ k # <<>>
  BY <1>1, <1>2
<1>5. Last(k) = k[Len(k)] /\ Last(k) \in T9Frame
  BY <1>1, <1>4, Popping
<1>6. \A f \in T9Frame : f.at \in 1..5 /\ f.results \in Seq(AllCombinations)
  BY DEF T9Frame
<1>7. \A i \in 1..Len(k) : k[i] \in T9Frame
  BY <1>1
<1>8. \A i \in 1..Len(p) : p[i] \in 1..4
  BY <1>1
<1>9. \A i \in 1..(Len(k) - 1) : p[i] \in 1..4 /\ p[i] = k[i].at - 1 /\ p[i] <= KEY_MAP[arg[i]]
  <2> SUFFICES ASSUME NEW i \in 1..(Len(k) - 1)
               PROVE  p[i] \in 1..4 /\ p[i] = k[i].at - 1 /\ p[i] <= KEY_MAP[arg[i]]
    OBVIOUS
  <2>1. i \in 1..Len(k) /\ i \in 1..Len(arg) /\ i \in 1..Len(p)
    BY <1>1, <1>4
  <2>2. p[i] \in 1..4 /\ p[i] = k[i].at - 1 /\ k[i].at <= KEY_MAP[arg[i]] + 1
    BY <1>8, <2>1 DEF Shape
  <2>3. KEY_MAP[arg[i]] \in 1..4 /\ k[i].at \in 1..5
    BY <1>2, <1>3, <1>6, <1>7, <2>1
  <2> QED BY <2>2, <2>3
<1> QED BY <1>1, <1>2, <1>3, <1>4, <1>5, <1>6, <1>7, <1>9

LEMMA FrameGoesOn ==
  ASSUME NEW r \in T9Frame, r.at \in 1..4
  PROVE  /\ [r EXCEPT !.at = @ + 1] \in T9Frame /\ [r EXCEPT !.at = @ + 1].at = r.at + 1
         /\ [r EXCEPT !.at = @ + 1].results = r.results
<1>1. r.at + 1 \in 1..5
  OBVIOUS
<1>2. \A v \in 1..5 : [r EXCEPT !.at = v] \in T9Frame /\ [r EXCEPT !.at = v].at = v
                      /\ [r EXCEPT !.at = v].results = r.results
  BY DEF T9Frame
<1> QED BY <1>1, <1>2

Descends(k, p, k1, p1) ==
  /\ Len(k) # Len(arg) /\ Last(k).at <= KEY_MAP[arg[Len(k)]]
  /\ p1 = Append(p, Last(k).at)
  /\ k1 = Append(Append(Front(k), [Last(k) EXCEPT !.at = @ + 1]), [at |-> 1, results |-> <<>>])
LEMMA Descended ==
  ASSUME arg \in Seq(2..9), NEW k, NEW p, NEW o, Shape(k, p), Gathered(k, p, o),
         NEW k1, NEW p1, Descends(k, p, k1, p1)
  PROVE  Shape(k1, p1) /\ Gathered(k1, p1, o)
<1> DEFINE K == Len(k)
           a == Last(k).at
           f == [Last(k) EXCEPT !.at = @ + 1]
           g == [at |-> 1, results |-> <<>>]
           m == Append(Front(k), f)
<1>1. /\ K \in Nat /\ K >= 1 /\ K <= Len(arg) /\ k # <<>> /\ Len(arg) \in Nat
      /\ Last(k) = k[K] /\ Last(k) \in T9Frame /\ Len(p) = K - 1
      /\ a \in 1..5 /\ Last(k).results \in Seq(AllCombinations)
      /\ \A i \in 1..K : k[i] \in T9Frame
      /\ \A i \in 1..(K - 1) : p[i] \in 1..4 /\ p[i] = k[i].at - 1
      /\ \A i \in 1..Len(arg) : KEY_MAP[arg[i]] \in 1..4
  BY ShapeFacts
<1>2. K \in 1..Len(arg) /\ K + 1 \in 1..Len(arg) /\ KEY_MAP[arg[K]] \in 1..4 /\ a <= KEY_MAP[arg[K]] /\ a \in 1..4
  <2>1. K \in 1..Len(arg) /\ K + 1 \in 1..Len(arg)
    BY <1>1 DEF Descends
  <2>2. KEY_MAP[arg[K]] \in 1..4
    BY <1>1, <2>1
  <2>3. a <= KEY_MAP[arg[K]]
    BY DEF Descends
  <2> QED BY <1>1, <2>1, <2>2, <2>3
<1>3. f \in T9Frame /\ f.at = a + 1 /\ f.results = Last(k).results
  BY <1>1, <1>2, FrameGoesOn
<1>4. g \in T9Frame /\ g.at = 1 /\ g.results = <<>>
  BY DEF T9Frame
<1>5. k \in Seq(T9Frame) /\ p \in Seq(1..4)
  BY DEF Shape
<1> HIDE DEF f, g
<1>6. /\ m \in Seq(T9Frame) /\ Len(m) = K /\ (\A i \in 1..(K - 1) : m[i] = k[i]) /\ m[K] = f
  BY <1>1, <1>3, <1>5, Replacing
<1>7. k1 = Append(m, g) /\ p1 = Append(p, a)
  BY DEF Descends, f, g
<1> HIDE DEF m
<1>8. /\ k1 \in Seq(T9Frame) /\ Len(k1) = K + 1 /\ (\A i \in 1..K : k1[i] = m[i]) /\ k1[K + 1] = g
  <2>1. /\ k1 \in Seq(T9Frame) /\ Len(k1) = Len(m) + 1 /\ (\A i \in 1..Len(m) : k1[i] = m[i]) /\ k1[Len(m) + 1] = g
    BY <1>4, <1>6, <1>7, Pushing
  <2> HIDE DEF K
  <2> QED BY <1>6, <2>1
<1>9. /\ p1 \in Seq(1..4) /\ Len(p1) = K /\ (\A i \in 1..(K - 1) : p1[i] = p[i]) /\ p1[K] = a
  <2>1. /\ p1 \in Seq(1..4) /\ Len(p1) = Len(p) + 1 /\ (\A i \in 1..Len(p) : p1[i] = p[i]) /\ p1[Len(p) + 1] = a
    BY <1>2, <1>5, <1>7, Pushing
  <2>2. Len(p) = K - 1 /\ (K - 1) + 1 = K
    BY <1>1
  <2> HIDE DEF K, a
  <2> QED BY <2>1, <2>2
<1>10. \A i \in 1..(K - 1) : k1[i] = k[i] /\ i \in 1..K
  <2>1. \A i \in 1..(K - 1) : i \in 1..K
    BY <1>1
  <2> QED BY <1>6, <1>8, <2>1
<1>11. k1[K] = f
  BY <1>1, <1>6, <1>8
<1>12. \A i \in 1..K : i = K \/ i \in 1..(K - 1)
  BY <1>1
<1>13. \A i \in 1..(K + 1) : i = K + 1 \/ i \in 1..K
  BY <1>1
<1>14. Shape(k1, p1)
  <2>1. \A i \in 1..K : p1[i] = k1[i].at - 1
    <3>1. p1[K] = k1[K].at - 1
      <4>1. k1[K].at = a + 1 /\ p1[K] = a
        BY <1>3, <1>9, <1>11
      <4> HIDE DEF a, K
      <4> QED BY <1>2, <4>1
    <3>2. \A i \in 1..(K - 1) : p1[i] = k1[i].at - 1
      BY <1>1, <1>9, <1>10
    <3> QED BY <1>12, <3>1, <3>2
  <2>2. \A i \in 1..(K + 1) : k1[i].at <= KEY_MAP[arg[i]] + 1
    <3>1. k1[K + 1].at <= KEY_MAP[arg[K + 1]] + 1
      <4>1. k1[K + 1].at = 1 /\ KEY_MAP[arg[K + 1]] \in 1..4
        BY <1>1, <1>2, <1>4, <1>8
      <4> HIDE DEF K
      <4> QED BY <4>1
    <3>2. k1[K].at <= KEY_MAP[arg[K]] + 1
      <4>1. k1[K].at = a + 1
        BY <1>3, <1>11
      <4> HIDE DEF a, K
      <4> QED BY <1>2, <4>1
    <3>3. \A i \in 1..(K - 1) : k1[i].at <= KEY_MAP[arg[i]] + 1
      BY <1>10 DEF Shape
    <3> QED BY <1>12, <1>13, <3>1, <3>2, <3>3
  <2> QED BY <1>1, <1>2, <1>8, <1>9, <2>1, <2>2 DEF Shape
<1>15. \A i \in 1..K : Own(k1, p1, i) = Own(k, p, i)
  <2> SUFFICES ASSUME NEW i \in 1..K PROVE Own(k1, p1, i) = Own(k, p, i)
    OBVIOUS
  <2>1. i < K + 1 /\ \A j \in 1..(i - 1) : j \in 1..(K - 1)
    BY <1>1
  <2>2. \A t : Part(p1, i, t) = Part(p, i, t)
    <3>1. \A j \in 1..(i - 1) : p1[j] = p[j]
      BY <1>9, <2>1
    <3> QED BY <3>1, SamePart
  <2>3. p1[i] = IF i < Len(k) THEN p[i] ELSE k[i].at
    <3>1. CASE i = K
      BY <1>1, <1>9, <3>1
    <3>2. CASE i # K
      BY <1>1, <1>9, <1>12, <3>2
    <3> QED BY <3>1, <3>2
  <2>4. Own(k1, p1, i) = Part(p1, i, p1[i])
    BY <1>8, <2>1 DEF Own
  <2> QED BY <2>2, <2>3, <2>4 DEF Own
<1>16. Own(k1, p1, K + 1) = {}
  <2>1. Own(k1, p1, K + 1) = Part(p1, K + 1, 1)
    BY <1>1, <1>4, <1>8 DEF Own
  <2>2. \A c \in AllCombinations : c[K + 1] \in 1..4
    BY <1>2, Combinations
  <2>3. \A c \in AllCombinations : ~(c[K + 1] < 1)
    BY <2>2
  <2> QED BY <2>1, <2>3, Zenon DEF Part
<1>17. AllOwn(k1, p1) = AllOwn(k, p)
  <2>1. AllOwn(k1, p1) = UNION {Own(k1, p1, i) : i \in 1..(K + 1)}
    BY <1>8 DEF AllOwn
  <2>2. K + 1 \in 1..(K + 1) /\ \A i \in 1..K : i \in 1..(K + 1)
    BY <1>1
  <2>3. ASSUME NEW c PROVE (\E i \in 1..(K + 1) : c \in Own(k1, p1, i)) <=> (\E i \in 1..K : c \in Own(k, p, i))
    BY <1>13, <1>15, <1>16, <2>2
  <2>4. AllOwn(k, p) = UNION {Own(k, p, i) : i \in 1..K}
    BY DEF AllOwn
  <2> QED BY <2>1, <2>3, <2>4
<1>18. \A i \in 1..Len(k1) : Lists(k1[i].results, IF Local THEN Own(k1, p1, i) ELSE {})
  <2>1. \A i \in 1..K : k1[i].results = k[i].results
    BY <1>1, <1>3, <1>10, <1>11, <1>12
  <2>2. \A i \in 1..K : Lists(k1[i].results, IF Local THEN Own(k1, p1, i) ELSE {})
    BY <1>15, <2>1 DEF Gathered
  <2>3. Lists(k1[K + 1].results, IF Local THEN Own(k1, p1, K + 1) ELSE {})
    BY <1>4, <1>8, <1>16, NoneListed
  <2> QED BY <1>8, <1>13, <2>2, <2>3
<1> QED BY <1>14, <1>17, <1>18 DEF Gathered

(* One more letter tried: at the last digit, or by the call that returns.   *)
Tries(k, p, k1) ==
  /\ Shape(k, p) /\ k1 \in Seq(T9Frame) /\ Len(k1) = Len(k)
  /\ \A i \in 1..(Len(k) - 1) : k1[i] = k[i]
LEMMA OwnBelow ==
  ASSUME arg \in Seq(2..9), NEW k, NEW p, NEW k1, Tries(k, p, k1)
  PROVE  /\ \A i \in 1..(Len(k) - 1) : Own(k1, p, i) = Own(k, p, i)
         /\ \A c : (c \in AllOwn(k, p) <=> c \in Own(k, p, Len(k)) \/ \E i \in 1..(Len(k) - 1) : c \in Own(k, p, i))
         /\ \A c : (c \in AllOwn(k1, p) <=> c \in Own(k1, p, Len(k)) \/ \E i \in 1..(Len(k) - 1) : c \in Own(k, p, i))
<1> DEFINE K == Len(k)
<1>1. K \in Nat /\ K >= 1 /\ Len(k1) = K
  BY ShapeFacts DEF Tries
<1>2. \A i \in 1..K : i = K \/ i \in 1..(K - 1)
  BY <1>1
<1>3. K \in 1..K /\ \A i \in 1..(K - 1) : i \in 1..K /\ i < K
  BY <1>1
<1>4. \A i \in 1..(K - 1) : Own(k1, p, i) = Own(k, p, i)
  BY <1>1, <1>3 DEF Own
<1>5. AllOwn(k, p) = UNION {Own(k, p, i) : i \in 1..K} /\ AllOwn(k1, p) = UNION {Own(k1, p, i) : i \in 1..K}
  BY <1>1 DEF AllOwn
<1> HIDE DEF K
<1>6. \A c : c \in AllOwn(k, p) <=> c \in Own(k, p, K) \/ \E i \in 1..(K - 1) : c \in Own(k, p, i)
  BY <1>2, <1>3, <1>5
<1>7. \A c : c \in AllOwn(k1, p) <=> c \in Own(k1, p, K) \/ \E i \in 1..(K - 1) : c \in Own(k, p, i)
  BY <1>2, <1>3, <1>4, <1>5
<1> QED BY <1>4, <1>6, <1>7 DEF K

LEMMA SameFunction ==
  ASSUME NEW S, NEW T, NEW f \in [S -> T], NEW g \in [S -> T], \A j \in S : f[j] = g[j]
  PROVE  f = g
OBVIOUS

(* The combination at a leaf is one, and comes after those shown before.    *)
AtTheLeaf(k, p) == Shape(k, p) /\ Len(k) = Len(arg) /\ Last(k).at <= KEY_MAP[arg[Len(k)]]
LEMMA LeafCombination ==
  ASSUME arg \in Seq(2..9), NEW k, NEW p, AtTheLeaf(k, p), NEW c, c = Append(p, Last(k).at)
  PROVE  /\ c \in AllCombinations /\ c[Len(k)] = Last(k).at
         /\ \A j \in 1..(Len(k) - 1) : c[j] = p[j]
         /\ \A d \in AllCombinations :
              d[Len(k)] = Last(k).at /\ (\A j \in 1..(Len(k) - 1) : d[j] = p[j]) => d = c
         /\ \A i \in 1..Len(k) : \A d \in Own(k, p, i) : Before(d, c)
         /\ Last(k).at \in 1..4
<1> DEFINE K == Len(k)
           a == Last(k).at
<1>1. /\ K \in Nat /\ K >= 1 /\ K = Len(arg) /\ Len(p) = K - 1 /\ p \in Seq(1..4)
      /\ Last(k) = k[K] /\ a \in 1..5 /\ a <= KEY_MAP[arg[K]]
      /\ \A i \in 1..(K - 1) : p[i] \in 1..4 /\ p[i] <= KEY_MAP[arg[i]]
      /\ \A i \in 1..Len(arg) : KEY_MAP[arg[i]] \in 1..4
  BY ShapeFacts DEF AtTheLeaf, Shape
<1>2. K \in 1..K /\ K \in 1..Len(arg) /\ a \in 1..4
  <2>1. K \in 1..K /\ K \in 1..Len(arg)
    BY <1>1
  <2>2. KEY_MAP[arg[K]] \in 1..4
    BY <1>1, <2>1
  <2> HIDE DEF K, a
  <2> QED BY <1>1, <2>1, <2>2
<1>3. /\ c \in Seq(1..4) /\ Len(c) = K /\ (\A i \in 1..(K - 1) : c[i] = p[i]) /\ c[K] = a
  <2>1. /\ c \in Seq(1..4) /\ Len(c) = Len(p) + 1 /\ (\A i \in 1..Len(p) : c[i] = p[i]) /\ c[Len(p) + 1] = a
    BY <1>1, <1>2, Pushing
  <2>2. Len(p) = K - 1 /\ (K - 1) + 1 = K
    BY <1>1
  <2> HIDE DEF K, a
  <2> QED BY <2>1, <2>2
<1> HIDE DEF K, a
<1>4. \A i \in 1..K : i = K \/ i \in 1..(K - 1)
  BY <1>1
<1>5. c \in [1..K -> 1..4]
  <2>1. \A q \in Seq(1..4) : q \in [1..Len(q) -> 1..4]
    OBVIOUS
  <2>2. c \in Seq(1..4) /\ Len(c) = K
    BY <1>3
  <2> QED BY <2>1, <2>2, Zenon
<1>6. \A j \in 1..Len(arg) : c[j] <= KEY_MAP[arg[j]]
  BY <1>1, <1>3, <1>4
<1>7. c \in AllCombinations
  BY <1>1, <1>5, <1>6, Combinations
<1>8. ASSUME NEW d \in AllCombinations, d[K] = a, \A j \in 1..(K - 1) : d[j] = p[j]
      PROVE  d = c
  <2>1. d \in [1..K -> 1..4]
    BY <1>1, Combinations
  <2>2. \A j \in 1..K : d[j] = c[j]
    BY <1>3, <1>4, <1>8
  <2> DEFINE S == 1..K
             T == 1..4
  <2>3. d \in [S -> T] /\ c \in [S -> T] /\ \A j \in S : d[j] = c[j]
    BY <1>5, <2>1, <2>2
  <2> HIDE DEF S, T
  <2> QED BY <2>3, SameFunction
<1>9. ASSUME NEW i \in 1..K, NEW d \in Own(k, p, i) PROVE Before(d, c)
  <2>1. d \in AllCombinations /\ \A j \in 1..(i - 1) : d[j] = p[j]
    BY DEF Own, Part
  <2>2. d[i] < c[i]
    <3>1. CASE i = K
      BY <1>1, <1>3, <3>1 DEF Own, Part, K, a
    <3>2. CASE i # K
      <4>1. i < Len(k) /\ c[i] = p[i]
        BY <1>1, <1>3, <1>4, <3>2 DEF K
      <4> QED BY <4>1 DEF Own, Part
    <3> QED BY <3>1, <3>2
  <2>3. i \in DOMAIN d
    BY <1>1, <2>1, Combinations
  <2>4. \A j \in 1..(i - 1) : j \in 1..(K - 1)
    BY <1>1
  <2>5. \A j \in 1..(i - 1) : d[j] = c[j]
    BY <1>3, <2>1, <2>4
  <2> QED BY <2>2, <2>3, <2>5 DEF Before
<1> QED BY <1>2, <1>3, <1>7, <1>8, <1>9 DEF K, a

LEMMA FrameWithResults ==
  ASSUME NEW r \in T9Frame, NEW s \in Seq(AllCombinations)
  PROVE  /\ WithResults(r, s) \in T9Frame /\ WithResults(r, s).at = r.at
         /\ WithResults(r, s).results = r.results \o s
<1>1. r.results \o s \in Seq(AllCombinations)
  BY DEF T9Frame
<1>2. \A v \in Seq(AllCombinations) : /\ [r EXCEPT !.results = v] \in T9Frame
                                      /\ [r EXCEPT !.results = v].at = r.at
                                      /\ [r EXCEPT !.results = v].results = v
  BY DEF T9Frame
<1>3. WithResults(r, s) = [r EXCEPT !.results = r.results \o s]
  BY DEF WithResults
<1> HIDE DEF WithResults
<1> QED BY <1>1, <1>2, <1>3

Leafs(k, p, o, k1, o1) ==
  LET f == [Last(k) EXCEPT !.at = @ + 1]
      c == Append(p, Last(k).at) IN
  IF Local THEN k1 = Append(Front(k), WithResults(f, <<c>>)) /\ o1 = o
  ELSE k1 = Append(Front(k), f) /\ o1 = Append(o, c)

LEMMA Leafed ==
  ASSUME arg \in Seq(2..9), NEW k, NEW p, NEW o, AtTheLeaf(k, p), Gathered(k, p, o),
         NEW k1, NEW o1, Leafs(k, p, o, k1, o1)
  PROVE  Shape(k1, p) /\ Gathered(k1, p, o1)
<1> DEFINE K == Len(k)
           a == Last(k).at
           f == [Last(k) EXCEPT !.at = @ + 1]
           c == Append(p, Last(k).at)
           e == IF Local THEN WithResults(f, <<c>>) ELSE f
           r == Last(k).results
<1>0. k1 = Append(Front(k), e) /\ o1 = IF Local THEN o ELSE Append(o, c)
  BY DEF Leafs
<1>1. /\ c \in AllCombinations /\ c[K] = a
      /\ \A j \in 1..(K - 1) : c[j] = p[j]
      /\ \A d \in AllCombinations : d[K] = a /\ (\A j \in 1..(K - 1) : d[j] = p[j]) => d = c
      /\ \A i \in 1..K : \A d \in Own(k, p, i) : Before(d, c)
      /\ a \in 1..4
  BY LeafCombination
<1>2. /\ K \in Nat /\ K >= 1 /\ K = Len(arg) /\ k # <<>> /\ Len(arg) \in Nat /\ k \in Seq(T9Frame)
      /\ Last(k) = k[K] /\ Last(k) \in T9Frame /\ r \in Seq(AllCombinations) /\ Shape(k, p)
      /\ a <= KEY_MAP[arg[K]] /\ \A i \in 1..Len(arg) : KEY_MAP[arg[i]] \in 1..4
  BY ShapeFacts DEF AtTheLeaf, Shape
<1>3. f \in T9Frame /\ f.at = a + 1 /\ f.results = r
  BY <1>1, <1>2, FrameGoesOn
<1> HIDE DEF f, c
<1>4. e \in T9Frame /\ e.at = a + 1 /\ e.results = IF Local THEN r \o <<c>> ELSE r
  <2>1. <<c>> \in Seq(AllCombinations)
    BY <1>1
  <2>2. WithResults(f, <<c>>) \in T9Frame /\ WithResults(f, <<c>>).at = f.at
        /\ WithResults(f, <<c>>).results = f.results \o <<c>>
    BY <1>3, <2>1, FrameWithResults
  <2> QED BY <1>3, <2>2
<1> HIDE DEF e, r
<1>5. /\ k1 \in Seq(T9Frame) /\ Len(k1) = K /\ (\A i \in 1..(K - 1) : k1[i] = k[i]) /\ k1[K] = e
  BY <1>0, <1>2, <1>4, Replacing
<1>6. Tries(k, p, k1)
  BY <1>2, <1>5 DEF Tries
<1> HIDE DEF a, K
<1>7. K \in 1..K /\ K \in 1..Len(arg) /\ (\A i \in 1..K : i = K \/ i \in 1..(K - 1)) /\ KEY_MAP[arg[K]] \in 1..4
  <2>1. K \in 1..K /\ K \in 1..Len(arg) /\ (\A i \in 1..K : i = K \/ i \in 1..(K - 1))
    BY <1>2
  <2> QED BY <1>2, <2>1
<1>8. Shape(k1, p)
  <2>1. /\ p \in Seq(1..4) /\ Len(p) = K - 1 /\ \A i \in 1..(K - 1) : p[i] = k[i].at - 1
        /\ \A i \in 1..K : k[i].at <= KEY_MAP[arg[i]] + 1
    BY <1>2 DEF Shape, K
  <2>2. \A i \in 1..(K - 1) : p[i] = k1[i].at - 1
    BY <1>5, <2>1
  <2>3. \A i \in 1..(K - 1) : i \in 1..K
    BY <1>2
  <2>4. a + 1 <= KEY_MAP[arg[K]] + 1
    BY <1>1, <1>2, <1>7
  <2>5. \A i \in 1..K : k1[i].at <= KEY_MAP[arg[i]] + 1
    BY <1>4, <1>5, <1>7, <2>1, <2>3, <2>4
  <2> QED BY <1>5, <1>7, <2>1, <2>2, <2>5 DEF Shape
<1>9. Own(k, p, K) = Part(p, K, a) /\ Own(k1, p, K) = Part(p, K, a + 1)
  <2>1. ~(K < Len(k)) /\ ~(K < Len(k1)) /\ k[K].at = a /\ k1[K].at = a + 1
    BY <1>2, <1>4, <1>5 DEF K, a
  <2> QED BY <2>1 DEF Own
<1>10. Own(k1, p, K) = Own(k, p, K) \cup {c}
  <2>1. ASSUME NEW d \in AllCombinations
        PROVE  d[K] < a + 1 <=> d[K] < a \/ d[K] = a
    <3>1. d[K] \in 1..4
      BY <1>7, Combinations
    <3> QED BY <1>1, <3>1
  <2>2. c[K] < a + 1
    BY <1>1
  <2>3. ASSUME NEW d PROVE d \in Part(p, K, a + 1) <=> d \in Part(p, K, a) \/ d = c
    <3>1. CASE d = c
      BY <1>1, <2>2, <3>1 DEF Part
    <3>2. CASE d # c
      BY <1>1, <2>1, <3>2 DEF Part
    <3> QED BY <3>1, <3>2
  <2> QED BY <1>9, <2>3
<1>11. \A i \in 1..(K - 1) : Own(k1, p, i) = Own(k, p, i)
  BY <1>6, OwnBelow DEF K
<1>12. AllOwn(k1, p) = AllOwn(k, p) \cup {c} /\ \A d \in AllOwn(k, p) : \E i \in 1..K : d \in Own(k, p, i)
  <2>1. /\ \A d : (d \in AllOwn(k, p) <=> d \in Own(k, p, K) \/ \E i \in 1..(K - 1) : d \in Own(k, p, i))
        /\ \A d : (d \in AllOwn(k1, p) <=> d \in Own(k1, p, K) \/ \E i \in 1..(K - 1) : d \in Own(k, p, i))
    BY <1>6, OwnBelow DEF K
  <2>2. \A i \in 1..(K - 1) : i \in 1..K
    BY <1>2
  <2>3. ASSUME NEW d PROVE d \in AllOwn(k1, p) <=> d \in AllOwn(k, p) \/ d = c
    BY <1>10, <2>1
  <2> QED BY <1>7, <2>1, <2>2, <2>3
<1>13. (\A i \in 1..K : Lists(k[i].results, IF Local THEN Own(k, p, i) ELSE {}))
       /\ Lists(o, IF Local THEN {} ELSE AllOwn(k, p))
  BY DEF Gathered, K
<1>14. ASSUME NEW i \in 1..(K - 1) PROVE Lists(k1[i].results, IF Local THEN Own(k1, p, i) ELSE {})
  <2>1. i \in 1..K
    BY <1>2
  <2> QED BY <1>5, <1>11, <1>13, <2>1
<1>15. Lists(k1[K].results, IF Local THEN Own(k1, p, K) ELSE {})
  <2>1. Lists(r, IF Local THEN Own(k, p, K) ELSE {})
    BY <1>2, <1>7, <1>13 DEF r
  <2>2. CASE Local
    <3>1. Lists(r \o <<c>>, Own(k, p, K) \cup {c})
      <4>1. Lists(r, Own(k, p, K)) /\ Lists(<<c>>, {c}) /\ \A d \in Own(k, p, K), g \in {c} : Before(d, g)
        BY <1>1, <1>7, <2>1, <2>2, OneListed
      <4> QED BY <4>1, ListedTogether
    <3> QED BY <1>4, <1>5, <1>10, <2>2, <3>1
  <2>3. CASE ~Local
    BY <1>4, <1>5, <2>1, <2>3
  <2> QED BY <2>2, <2>3
<1>16. Lists(o1, IF Local THEN {} ELSE AllOwn(k1, p))
  <2>1. CASE Local
    BY <1>0, <1>13, <2>1
  <2>2. CASE ~Local
    <3>1. Lists(o, AllOwn(k, p)) /\ Lists(<<c>>, {c}) /\ \A d \in AllOwn(k, p), g \in {c} : Before(d, g)
      BY <1>1, <1>12, <1>13, <2>2, OneListed
    <3>2. Lists(o \o <<c>>, AllOwn(k, p) \cup {c})
      BY <3>1, ListedTogether
    <3>3. o1 = o \o <<c>>
      <4>1. o \in Seq(AllOwn(k, p))
        BY <3>1 DEF Lists
      <4>2. o1 = Append(o, c)
        BY <1>0, <2>2
      <4> QED BY <4>1, <4>2
    <3> QED BY <1>12, <2>2, <3>2, <3>3
  <2> QED BY <2>1, <2>2
<1>17. Gathered(k1, p, o1)
  BY <1>5, <1>7, <1>14, <1>15, <1>16 DEF Gathered
<1> QED BY <1>8, <1>17

(* A call that has been through its letters has shown all that begin with   *)
(* its prefix, and its caller takes them over.                              *)
Ready(k, p, o) == /\ Shape(k, p) /\ Gathered(k, p, o)
                  /\ ~(Last(k).at <= KEY_MAP[arg[Len(k)]])
LEMMA Exhausted ==
  ASSUME arg \in Seq(2..9), NEW k, NEW p, NEW o, Ready(k, p, o)
  PROVE  Own(k, p, Len(k)) = {c \in AllCombinations : \A j \in 1..(Len(k) - 1) : c[j] = p[j]}
<1> DEFINE K == Len(k)
           a == Last(k).at
<1>1. /\ K \in 1..Len(arg) /\ K \in Nat /\ a = k[K].at /\ a \in 1..5 /\ KEY_MAP[arg[K]] \in 1..4
      /\ ~(a <= KEY_MAP[arg[K]])
  <2>1. Shape(k, p) /\ ~(a <= KEY_MAP[arg[K]])
    BY DEF Ready
  <2>2. /\ K \in Nat /\ K >= 1 /\ K <= Len(arg) /\ Len(arg) \in Nat /\ Last(k) = k[K] /\ a \in 1..5
        /\ \A i \in 1..Len(arg) : KEY_MAP[arg[i]] \in 1..4
    BY <2>1, ShapeFacts
  <2>3. K \in 1..Len(arg)
    BY <2>2
  <2> QED BY <2>1, <2>2, <2>3
<1>2. Own(k, p, K) = Part(p, K, a)
  BY <1>1 DEF Own
<1> HIDE DEF a, K
<1>3. ASSUME NEW c \in AllCombinations PROVE c[K] < a
  <2>1. c[K] \in 1..4 /\ c[K] <= KEY_MAP[arg[K]]
    BY <1>1, Combinations
  <2> QED BY <1>1, <2>1
<1> QED BY <1>2, <1>3, Zenon DEF Part, K

LEMMA Finished ==
  ASSUME arg \in Seq(2..9), NEW k, NEW p, NEW o, Ready(k, p, o), Len(k) = 1
  PROVE  Lists(o \o Last(k).results, AllCombinations)
<1> DEFINE r == Last(k).results
<1>1. Shape(k, p) /\ Gathered(k, p, o)
  BY DEF Ready
<1>2. Last(k) = k[1]
  BY <1>1, ShapeFacts
<1>3. Own(k, p, 1) = AllCombinations
  <2>1. Own(k, p, 1) = {c \in AllCombinations : \A j \in 1..(1 - 1) : c[j] = p[j]}
    <3>1. Own(k, p, Len(k)) = {c \in AllCombinations : \A j \in 1..(Len(k) - 1) : c[j] = p[j]}
      BY Exhausted
    <3> QED BY <3>1, Zenon
  <2>2. \A j \in 1..(1 - 1) : FALSE
    OBVIOUS
  <2> QED BY <2>1, <2>2
<1>4. AllOwn(k, p) = AllCombinations
  <2>1. \A i \in 1..1 : i = 1
    OBVIOUS
  <2>2. 1 \in 1..1
    OBVIOUS
  <2> QED BY <1>3, <2>1, <2>2 DEF AllOwn
<1>5. Lists(r, IF Local THEN AllCombinations ELSE {}) /\ Lists(o, IF Local THEN {} ELSE AllCombinations)
  <2>1. 1 \in 1..1
    OBVIOUS
  <2> QED BY <1>1, <1>2, <1>3, <1>4, <2>1 DEF Gathered
<1> HIDE DEF r
<1>6. CASE Local
  <2>1. Lists(o, {}) /\ Lists(r, AllCombinations) /\ \A c \in {}, d \in AllCombinations : Before(c, d)
    BY <1>5, <1>6
  <2>2. Lists(o \o r, {} \cup AllCombinations)
    BY <2>1, ListedTogether
  <2> QED BY <2>2 DEF r
<1>7. CASE ~Local
  <2>1. Lists(o, AllCombinations) /\ Lists(r, {}) /\ \A c \in AllCombinations, d \in {} : Before(c, d)
    BY <1>5, <1>7
  <2>2. Lists(o \o r, AllCombinations \cup {})
    BY <2>1, ListedTogether
  <2> QED BY <2>2 DEF r
<1> QED BY <1>6, <1>7

Returns(k, p, k1, p1) ==
  /\ p1 = Front(p)
  /\ k1 = Append(Front(Front(k)), WithResults(Last(Front(k)), Last(k).results))
LEMMA Returned ==
  ASSUME arg \in Seq(2..9), NEW k, NEW p, NEW o, Ready(k, p, o), Len(k) # 1,
         NEW k1, NEW p1, Returns(k, p, k1, p1)
  PROVE  Shape(k1, p1) /\ Gathered(k1, p1, o)
<1> DEFINE K == Len(k)
           J == K - 1
           m == Front(k)
           r == Last(k).results
           e == WithResults(Last(m), r)
<1>1. Shape(k, p) /\ Gathered(k, p, o)
  BY DEF Ready
<1>2. /\ K \in Nat /\ K >= 2 /\ K <= Len(arg) /\ k # <<>> /\ Len(arg) \in Nat /\ k \in Seq(T9Frame)
      /\ Last(k) = k[K] /\ r \in Seq(AllCombinations) /\ Len(p) = J /\ p \in Seq(1..4)
      /\ \A i \in 1..J : p[i] \in 1..4 /\ p[i] = k[i].at - 1
      /\ \A i \in 1..K : k[i].at \in 1..5 /\ k[i].at <= KEY_MAP[arg[i]] + 1
  <2>1. /\ K \in Nat /\ K >= 1 /\ K <= Len(arg) /\ k # <<>> /\ Len(arg) \in Nat
        /\ Last(k) = k[K] /\ r \in Seq(AllCombinations) /\ Len(p) = J
        /\ \A i \in 1..J : p[i] \in 1..4 /\ p[i] = k[i].at - 1
        /\ \A i \in 1..K : k[i].at \in 1..5
    BY <1>1, ShapeFacts
  <2>2. k \in Seq(T9Frame) /\ p \in Seq(1..4) /\ \A i \in 1..K : k[i].at <= KEY_MAP[arg[i]] + 1
    BY <1>1 DEF Shape
  <2>3. K >= 2
    BY <2>1
  <2> QED BY <2>1, <2>2, <2>3
<1>3. /\ m \in Seq(T9Frame) /\ Len(m) = J /\ \A i \in 1..J : m[i] = k[i]
  BY <1>2, Popping
<1>4. k1 = Append(Front(m), e) /\ p1 = Front(p)
  BY DEF Returns
<1> HIDE DEF m, r, K
<1>5. J \in Nat /\ J >= 1 /\ J < K /\ K = J + 1 /\ m # <<>> /\ p # <<>>
  BY <1>2, <1>3
<1> HIDE DEF J
<1>6. Last(m) = k[J] /\ Last(m) \in T9Frame
  <2>1. Last(m) = m[Len(m)] /\ Last(m) \in T9Frame
    BY <1>3, <1>5, Popping, Zenon
  <2>2. Len(m) = J /\ J \in 1..J
    BY <1>3, <1>5
  <2> QED BY <1>3, <2>1, <2>2
<1>7. e \in T9Frame /\ e.at = k[J].at /\ e.results = k[J].results \o r
  BY <1>2, <1>6, FrameWithResults
<1> HIDE DEF e
<1>8. /\ k1 \in Seq(T9Frame) /\ Len(k1) = J /\ (\A i \in 1..(J - 1) : k1[i] = k[i]) /\ k1[J] = e
  <2>1. /\ k1 \in Seq(T9Frame) /\ Len(k1) = Len(m) /\ (\A i \in 1..(Len(m) - 1) : k1[i] = m[i]) /\ k1[Len(m)] = e
    <3> DEFINE q == Append(Front(m), e)
    <3>1. /\ q \in Seq(T9Frame) /\ Len(q) = Len(m) /\ (\A i \in 1..(Len(m) - 1) : q[i] = m[i]) /\ q[Len(m)] = e
      <4>1. m \in Seq(T9Frame) /\ m # <<>> /\ e \in T9Frame
        BY <1>3, <1>5, <1>7
      <4> QED BY <4>1, Replacing
    <3> QED BY <1>4, <3>1, Zenon
  <2>2. \A i \in 1..(J - 1) : i \in 1..J
    BY <1>5
  <2> QED BY <1>3, <2>1, <2>2
<1>9. /\ p1 \in Seq(1..4) /\ Len(p1) = J - 1 /\ \A i \in 1..(J - 1) : p1[i] = p[i]
  <2>1. /\ Front(p) \in Seq(1..4) /\ Len(Front(p)) = Len(p) - 1 /\ \A i \in 1..(Len(p) - 1) : Front(p)[i] = p[i]
    BY <1>2, <1>5, Popping
  <2> QED BY <1>2, <1>4, <2>1
<1>10. /\ J \in 1..J /\ J \in 1..K /\ K \in 1..K /\ J \in 1..Len(arg)
       /\ (\A i \in 1..(J - 1) : i \in 1..J /\ i \in 1..K /\ i < J /\ i < K)
       /\ (\A i \in 1..J : i = J \/ i \in 1..(J - 1)) /\ (\A i \in 1..K : i = K \/ i = J \/ i \in 1..(J - 1))
  BY <1>2, <1>5
<1>11. Shape(k1, p1)
  <2>1. \A i \in 1..(J - 1) : p1[i] = k1[i].at - 1
    BY <1>2, <1>8, <1>9, <1>10
  <2>2. \A i \in 1..J : k1[i].at <= KEY_MAP[arg[i]] + 1
    <3>1. k1[J].at <= KEY_MAP[arg[J]] + 1
      BY <1>2, <1>7, <1>8, <1>10
    <3>2. \A i \in 1..(J - 1) : k1[i].at <= KEY_MAP[arg[i]] + 1
      BY <1>2, <1>8, <1>10
    <3> QED BY <1>10, <3>1, <3>2
  <2> QED BY <1>8, <1>9, <1>10, <2>1, <2>2 DEF Shape
<1>12. \A i \in 1..(J - 1) : Own(k1, p1, i) = Own(k, p, i)
  <2> SUFFICES ASSUME NEW i \in 1..(J - 1) PROVE Own(k1, p1, i) = Own(k, p, i)
    OBVIOUS
  <2>1. \A j \in 1..(i - 1) : j \in 1..(J - 1)
    BY <1>5
  <2>2. \A j \in 1..(i - 1) : p1[j] = p[j]
    BY <1>9, <2>1
  <2>3. Part(p1, i, p[i]) = Part(p, i, p[i])
    BY <2>2, SamePart
  <2>4. i < Len(k1) /\ i < Len(k) /\ p1[i] = p[i]
    BY <1>8, <1>9, <1>10 DEF K
  <2> QED BY <2>3, <2>4 DEF Own
<1>13. Own(k, p, K) = {c \in AllCombinations : \A j \in 1..J : c[j] = p[j]}
  BY Exhausted DEF K, J
<1>14. Own(k, p, J) = Part(p, J, p[J]) /\ Own(k1, p1, J) = Part(p, J, k[J].at)
  <2>1. J < Len(k) /\ ~(J < Len(k1)) /\ k1[J].at = k[J].at
    BY <1>5, <1>7, <1>8 DEF K
  <2>2. Part(p1, J, k[J].at) = Part(p, J, k[J].at)
    BY <1>9, SamePart
  <2> QED BY <2>1, <2>2 DEF Own
<1>15. Own(k1, p1, J) = Own(k, p, J) \cup Own(k, p, K)
  <2>1. ASSUME NEW c \in AllCombinations PROVE c[J] < k[J].at <=> c[J] < p[J] \/ c[J] = p[J]
    <3>1. c[J] \in 1..4
      BY <1>10, Combinations
    <3>2. p[J] \in 1..4 /\ p[J] = k[J].at - 1 /\ k[J].at \in 1..5
      BY <1>2, <1>10
    <3> QED BY <3>1, <3>2
  <2>2. \A c : (\A j \in 1..J : c[j] = p[j]) <=> c[J] = p[J] /\ \A j \in 1..(J - 1) : c[j] = p[j]
    BY <1>10
  <2> QED BY <1>13, <1>14, <2>1, <2>2 DEF Part
<1>16. AllOwn(k1, p1) = AllOwn(k, p)
  <2>1. AllOwn(k1, p1) = UNION {Own(k1, p1, i) : i \in 1..J} /\ AllOwn(k, p) = UNION {Own(k, p, i) : i \in 1..K}
    BY <1>8 DEF AllOwn, K
  <2>2. ASSUME NEW c
        PROVE  (\E i \in 1..J : c \in Own(k1, p1, i)) <=> (\E i \in 1..K : c \in Own(k, p, i))
    BY <1>10, <1>12, <1>15
  <2> QED BY <2>1, <2>2
<1>17. (\A i \in 1..K : Lists(k[i].results, IF Local THEN Own(k, p, i) ELSE {}))
       /\ Lists(o, IF Local THEN {} ELSE AllOwn(k, p))
  BY <1>1 DEF Gathered, K
<1>18. Lists(k1[J].results, IF Local THEN Own(k1, p1, J) ELSE {})
  <2>1. /\ Lists(k[J].results, IF Local THEN Own(k, p, J) ELSE {})
        /\ Lists(r, IF Local THEN Own(k, p, K) ELSE {})
    BY <1>2, <1>10, <1>17 DEF r
  <2>2. CASE Local
    <3>1. ASSUME NEW c \in Own(k, p, J), NEW d \in Own(k, p, K) PROVE Before(c, d)
      <4>1. /\ c \in AllCombinations /\ c[J] < p[J] /\ \A j \in 1..(J - 1) : c[j] = p[j]
            /\ d[J] = p[J] /\ \A j \in 1..(J - 1) : d[j] = p[j]
        BY <1>10, <1>13, <1>14 DEF Part
      <4>2. J \in DOMAIN c
        BY <1>10, <4>1, Combinations
      <4> QED BY <4>1, <4>2 DEF Before
    <3>2. Lists(k[J].results \o r, Own(k, p, J) \cup Own(k, p, K))
      BY <2>1, <2>2, <3>1, ListedTogether
    <3> QED BY <1>7, <1>8, <1>15, <2>2, <3>2
  <2>3. CASE ~Local
    <3>1. k[J].results = <<>> /\ r = <<>>
      BY <2>1, <2>3, NoneListed
    <3>2. <<>> \o <<>> = <<>>
      OBVIOUS
    <3> QED BY <1>7, <1>8, <2>3, <3>1, <3>2, NoneListed
  <2> QED BY <2>2, <2>3
<1>19. \A i \in 1..Len(k1) : Lists(k1[i].results, IF Local THEN Own(k1, p1, i) ELSE {})
  <2>1. ASSUME NEW i \in 1..(J - 1) PROVE Lists(k1[i].results, IF Local THEN Own(k1, p1, i) ELSE {})
    BY <1>8, <1>10, <1>12, <1>17
  <2> QED BY <1>8, <1>10, <1>18, <2>1
<1> QED BY <1>11, <1>16, <1>17, <1>19 DEF Gathered

LEMMA ShapePrimed ==
  ASSUME Unchanged
  PROVE  /\ Shape(kont', path') => Shape(kont, path)'
         /\ Gathered(kont', path', out') => Gathered(kont, path, out)'
         /\ AllCombinations' = AllCombinations
<1>1. AllCombinations' = AllCombinations /\ T9Frame' = T9Frame /\ (Local' <=> Local) /\ arg' = arg
  BY DEF Unchanged, AllCombinations, T9Frame, Local
<1>2. \A p, i, t : Part(p, i, t)' = Part(p, i, t)
  BY <1>1 DEF Part
<1>3. \A k, p, i : Own(k, p, i)' = Own(k, p, i)
  BY <1>2 DEF Own
<1>4. \A k, p : AllOwn(k, p)' = AllOwn(k, p)
  BY <1>3 DEF AllOwn
<1>5. Shape(kont', path') => Shape(kont, path)'
  BY <1>1, Zenon DEF Shape
<1>6. Gathered(kont', path', out') => Gathered(kont, path, out)'
  BY <1>1, <1>3, <1>4, Zenon DEF Gathered
<1> QED BY <1>1, <1>5, <1>6

LEMMA T9Step ==
  ASSUME T9, TypeOK, T9Inv, DepthInv, TypeOK', Next
  PROVE  T9Inv'
<1>1. /\ arg \in Seq(2..9) /\ does = "run"
      /\ (kont = <<>> <=> arg = <<>>) /\ (arg = <<>> => out = <<>>)
      /\ kont # <<>> => Shape(kont, path) /\ Gathered(kont, path, out)
  <2>1. T9Facts /\ does = "run"
    BY T9InvIs, T9Steps
  <2> QED BY <2>1, Arguments DEF T9Facts, Done
<1>2. Unchanged /\ T9' /\ arg' = arg
  BY T9Steps, SameProgram DEF Unchanged
<1>3. /\ does' \in {"run", Done} /\ (kont' = <<>> <=> does' = Done \/ arg = <<>>)
      /\ IF arg = <<>> THEN out' = <<>> ELSE does' = Done => Lists(out', AllCombinations)
      /\ does' = "run" /\ kont' # <<>> => Shape(kont', path') /\ Gathered(kont', path', out')
  <2>1. CASE NoDigits
    BY <1>1, <2>1 DEF NoDigits, Done
  <2>2. CASE Descend
    <3>1. kont # <<>> /\ Descends(kont, path, kont', path') /\ out' = out /\ does' = does
      BY <2>2 DEF Descend, Combining, AtLeaf, Frame, Letters, NextLetter, Popped, Descends
    <3>2. Shape(kont', path') /\ Gathered(kont', path', out')
      BY <1>1, <3>1, Descended
    <3>3. kont' # <<>>
      BY <1>1, <3>2, ShapeFacts
    <3> QED BY <1>1, <3>1, <3>2, <3>3 DEF Done
  <2>3. CASE Leaf
    <3>1. kont # <<>> /\ does' = does /\ path' = path
      BY <2>3 DEF Leaf, Combining
    <3>2. AtTheLeaf(kont, path)
      BY <1>1, <2>3, <3>1 DEF Leaf, AtLeaf, Frame, Letters, AtTheLeaf
    <3>3. Leafs(kont, path, out, kont', out')
      BY <2>3 DEF Leaf, Found, Frame, NextLetter, Popped, Leafs
    <3>4. Shape(kont', path) /\ Gathered(kont', path, out')
      BY <1>1, <3>1, <3>2, <3>3, Leafed
    <3>5. kont' # <<>>
      BY <1>1, <3>4, ShapeFacts
    <3> QED BY <1>1, <3>1, <3>4, <3>5 DEF Done
  <2>4. CASE Return
    <3>1. kont # <<>> /\ Shape(kont, path) /\ path' = Backtracked
      BY <1>1, <2>4 DEF Return, Combining
    <3>2. Len(kont) \in Nat /\ Len(kont) >= 1 /\ Last(kont).at \in 1..5 /\ Len(path) = Len(kont) - 1
          /\ KEY_MAP[arg[Len(kont)]] \in 1..4
      <4>1. Len(kont) \in Nat /\ Len(kont) >= 1 /\ Last(kont).at \in 1..5 /\ Len(path) = Len(kont) - 1
            /\ Len(kont) <= Len(arg) /\ Len(arg) \in Nat
            /\ \A i \in 1..Len(arg) : KEY_MAP[arg[i]] \in 1..4
        BY <1>1, <3>1, ShapeFacts
      <4>2. Len(kont) \in 1..Len(arg)
        BY <4>1
      <4> QED BY <4>1, <4>2
    <3>3. Last(kont).at > KEY_MAP[arg[Len(kont)]]
      BY <2>4 DEF Return, Frame, Letters
    <3>4. ~(Last(kont).at <= KEY_MAP[arg[Len(kont)]])
      BY <3>2, <3>3
    <3>5. Ready(kont, path, out)
      BY <1>1, <3>1, <3>4 DEF Ready
    <3>6. CASE Len(kont) = 1
      <4>1. kont' = <<>> /\ out' = out \o Last(kont).results /\ does' = Done
        BY <2>4, <3>6 DEF Return, Frame
      <4>2. Lists(out', AllCombinations)
        BY <1>1, <3>5, <3>6, <4>1, Finished
      <4> QED BY <1>1, <3>1, <4>1, <4>2 DEF Done
    <3>7. CASE Len(kont) # 1
      <4>1. /\ kont' = Append(Front(Front(kont)), WithResults(Last(Front(kont)), Last(kont).results))
            /\ out' = out /\ does' = does
        BY <2>4, <3>7 DEF Return, Frame, Popped
      <4>2. path # <<>>
        BY <3>2, <3>7
      <4>3. Returns(kont, path, kont', path')
        BY <3>1, <4>1, <4>2 DEF Returns, Backtracked
      <4>4. Shape(kont', path') /\ Gathered(kont', path', out)
        BY <1>1, <3>5, <3>7, <4>3, Returned
      <4>5. kont' # <<>>
        BY <1>1, <4>4, ShapeFacts
      <4> QED BY <1>1, <3>1, <4>1, <4>4, <4>5 DEF Done
    <3> QED BY <3>6, <3>7
  <2> QED BY T9Steps, <2>1, <2>2, <2>3, <2>4
<1>4. /\ does' = "run" /\ kont' # <<>> => Shape(kont, path)' /\ Gathered(kont, path, out)'
      /\ AllCombinations' = AllCombinations
  BY <1>2, <1>3, ShapePrimed
<1>5. T9Facts'
  BY <1>2, <1>3, <1>4 DEF T9Facts, Done
<1>6. TypeOK' => (T9Inv' <=> T9Facts')
  BY T9InvIs, PTL
<1> QED BY <1>5, <1>6

--------------------------------------------------------------------------------
(* All of them together: a step keeps what the running program needs, and   *)
(* says nothing of the others.                                              *)
FibStateInv == Fibonacci => FibState
Inductive == ContInv /\ Results /\ FibStateInv /\ TreeInv

LEMMA FactorialResult ==
  ASSUME Factorial, TypeOK, FactorialInv, Results, Next
  PROVE  Results'
<1>1. Unchanged /\ Factorial' /\ arg' = arg
  BY FactorialSteps, SameProgram DEF Unchanged
<1>2. ASSUME does' = Done PROVE x' = fact_direct[arg]
  <2>1. arg \in Nat /\ (does = "apply" => x = fact_direct[arg - Len(kont)])
    BY Arguments DEF FactorialInv
  <2>2. does = "apply" /\ kont = <<>> /\ x' = x
    BY <1>2, FactorialSteps DEF OutOfStack, Goes, Bounces, Done
  <2>3. arg - Len(kont) = arg
    BY <2>1, <2>2
  <2> QED BY <2>1, <2>2, <2>3
<1>3. ~Fibonacci' /\ ~Search' /\ ~Stackful' /\ ~Generator' /\ ~T9'
  BY <1>1, OnlyFactorial, SameProgram
<1> QED BY <1>1, <1>2, <1>3 DEF Results, Done

LEMMA FactorialPart ==
  ASSUME Factorial, Inductive, Next
  PROVE  Inductive'
<1>1. TypeOK' /\ DepthInv' /\ StackUse' /\ FactorialInv' /\ Results'
  BY FactorialDepthStep, FactorialFramesStep, FactorialResult DEF Inductive, ContInv
<1>2. ~Fibonacci' /\ ~Tree' /\ ~Search' /\ ~Stackful' /\ ~Generator' /\ ~T9'
  BY FactorialSteps, OnlyFactorial, SameProgram DEF Inductive, ContInv
<1> QED BY <1>1, <1>2 DEF Inductive, ContInv, FibonacciInv, SearchInv, StackfulInv, GeneratorInv,
        T9Inv, FibStateInv, TreeInv

LEMMA FibonacciPart ==
  ASSUME Fibonacci, Inductive, Next
  PROVE  Inductive'
<1>1. TypeOK' /\ DepthInv' /\ StackUse' /\ Results'
  BY FibonacciDepthStep DEF Inductive, ContInv, FibStateInv
<1>2. FibState' /\ FibonacciInv'
  BY <1>1, FibStateStep, FibonacciInvStep DEF Inductive, ContInv, FibStateInv
<1>3. ~Factorial' /\ ~Tree' /\ ~Search' /\ ~Stackful' /\ ~Generator' /\ ~T9'
  BY FibonacciSteps, OnlyFibonacci, SameProgram DEF Inductive, ContInv
<1> QED BY <1>1, <1>2, <1>3 DEF Inductive, ContInv, FactorialInv, SearchInv, StackfulInv, GeneratorInv,
        T9Inv, FibStateInv, TreeInv

LEMMA TreePart ==
  ASSUME Tree, Inductive, Next
  PROVE  Inductive'
<1>1. TypeOK' /\ DepthInv' /\ StackUse' /\ TreeInv' /\ Unchanged
  BY TreeStep DEF Inductive, ContInv
<1>2. ~Factorial' /\ ~Fibonacci' /\ ~Search' /\ ~Stackful' /\ ~Generator' /\ ~T9'
  BY <1>1, OnlyTree, SameProgram
<1> QED BY <1>1, <1>2 DEF Inductive, ContInv, FactorialInv, FibonacciInv, SearchInv, StackfulInv,
        GeneratorInv, T9Inv, FibStateInv, Results

LEMMA SearchPart ==
  ASSUME Search, Inductive, Next
  PROVE  Inductive'
<1>1. TypeOK' /\ DepthInv' /\ StackUse' /\ SearchInv' /\ Results'
  BY SearchStep DEF Inductive, ContInv
<1>2. ~Factorial' /\ ~Fibonacci' /\ ~Tree' /\ ~Stackful' /\ ~Generator' /\ ~T9'
  BY SearchSteps, OnlySearch, SameProgram DEF Inductive, ContInv
<1> QED BY <1>1, <1>2 DEF Inductive, ContInv, FactorialInv, FibonacciInv, StackfulInv, GeneratorInv,
        T9Inv, FibStateInv, TreeInv

(* The programs that only count on a stack of their own.                    *)
LEMMA FlatPart ==
  ASSUME Inductive, Unchanged, FlatStack, depth' = depth, does' \in {"run", Done},
         ~Fibonacci, ~Tree, StackfulInv', GeneratorInv', T9Inv', Results'
  PROVE  Inductive'
<1>1. TypeOK' /\ DepthInv' /\ StackUse'
  BY FlatStep DEF Inductive, ContInv
<1>2. ~Factorial' /\ ~Fibonacci' /\ ~Tree' /\ ~Search'
  BY SameProgram DEF FlatStack
<1> QED BY <1>1, <1>2 DEF Inductive, ContInv, FactorialInv, FibonacciInv, SearchInv, FibStateInv, TreeInv

LEMMA StackfulPart ==
  ASSUME Stackful, Inductive, Next
  PROVE  Inductive'
<1>1. Unchanged /\ depth' = depth /\ StackfulInv' /\ Stackful'
  BY StackfulStep, StackfulSteps, SameProgram DEF Inductive, ContInv
<1>2. ~Factorial' /\ ~Fibonacci' /\ ~Search' /\ ~Generator' /\ ~T9'
  BY <1>1, OnlyStackful, SameProgram
<1>4. Results'
  BY <1>2 DEF Results
<1>5. does' \in {"run", Done}
  BY <1>1 DEF StackfulInv
<1>6. FlatStack /\ ~Fibonacci /\ ~Tree /\ GeneratorInv' /\ T9Inv'
  BY <1>2, OnlyStackful DEF FlatStack, GeneratorInv, T9Inv
<1> QED BY <1>1, <1>4, <1>5, <1>6, FlatPart

LEMMA GeneratorPart ==
  ASSUME Generator, Inductive, Next
  PROVE  Inductive'
<1>1. Unchanged /\ depth' = depth /\ GeneratorInv' /\ Generator' /\ does' \in {"run", Done}
  BY GeneratorStep, GeneratorSteps, SameProgram DEF Inductive, ContInv
<1>2. ~Factorial' /\ ~Fibonacci' /\ ~Search' /\ ~Stackful' /\ ~T9'
  BY <1>1, OnlyGenerator, SameProgram
<1>3. Results'
  <2>1. does' = Done => (Len(out) = Requests /\ \A k \in DOMAIN out : Yielded(k))'
    BY <1>1, Zenon DEF GeneratorInv
  <2> QED BY <1>2, <2>1, Zenon DEF Results
<1>4. FlatStack /\ ~Fibonacci /\ ~Tree /\ StackfulInv' /\ T9Inv'
  BY <1>2, OnlyGenerator DEF FlatStack, StackfulInv, T9Inv
<1> QED BY <1>1, <1>3, <1>4, FlatPart

LEMMA T9Part ==
  ASSUME T9, Inductive, Next
  PROVE  Inductive'
<1>1. Unchanged /\ depth' = depth /\ T9' /\ does' \in {"run", Done}
  <2>1. Unchanged /\ does = "run" /\ depth' = depth /\ (NoDigits \/ Descend \/ Leaf \/ Return)
    BY T9Steps DEF Inductive, ContInv
  <2> QED BY <2>1, SameProgram DEF NoDigits, Descend, Leaf, Return
<1>2. ~Factorial' /\ ~Fibonacci' /\ ~Search' /\ ~Stackful' /\ ~Generator'
  BY <1>1, OnlyT9, SameProgram
<1>3. FlatStack /\ ~Fibonacci /\ ~Tree /\ StackfulInv' /\ GeneratorInv'
  BY <1>2, OnlyT9 DEF FlatStack, StackfulInv, GeneratorInv
<1>4. T9Inv'
  BY <1>1, <1>3, FlatStep, T9Step DEF Inductive, ContInv
<1>5. Results'
  <2>1. does' = Done => (IF arg = <<>> THEN out = <<>> ELSE Lists(out, AllCombinations))'
    BY <1>1, <1>4, Zenon DEF T9Inv
  <2> QED BY <1>2, <2>1, Zenon DEF Results
<1> QED BY <1>1, <1>3, <1>4, <1>5, FlatPart

LEMMA NextKeeps == Inductive /\ Next => Inductive'
<1> SUFFICES ASSUME Inductive, Next PROVE Inductive'
  OBVIOUS
<1>1. Factorial \/ Fibonacci \/ Tree \/ Search \/ Stackful \/ Generator \/ T9
  BY ProgramKinds DEF Inductive, ContInv
<1> QED BY <1>1, FactorialPart, FibonacciPart, TreePart, SearchPart, StackfulPart, GeneratorPart, T9Part

LEMMA StutterKeeps == Inductive /\ UNCHANGED vars => Inductive'
<1> SUFFICES ASSUME Inductive, UNCHANGED vars PROVE Inductive'
  OBVIOUS
<1>1. /\ prog' = prog /\ arg' = arg /\ limit' = limit /\ does' = does /\ x' = x /\ kont' = kont
      /\ depth' = depth /\ out' = out /\ path' = path
  BY DEF vars, input
<1>2. Unchanged
  BY <1>1 DEF Unchanged
<1>3. Factorial' = Factorial /\ Fibonacci' = Fibonacci /\ Tree' = Tree /\ Search' = Search
      /\ Stackful' = Stackful /\ Generator' = Generator /\ T9' = T9 /\ CPS' = CPS
      /\ Trampolined' = Trampolined
  BY <1>2, SameProgram
<1>4. TypeOK' /\ DepthInv'
  BY <1>1, <1>3 DEF Inductive, ContInv, TypeOK, DepthInv
<1>5. StackUse'
  <2>1. Factorial \/ Fibonacci => Needed' = Needed
    BY <1>2, NeededStays DEF Factorial, Fibonacci, Trampolined
  <2>2. Factorial \/ prog = "fib_cps" => Needed' = Needed
    BY <1>2, NeededStays DEF Factorial, Trampolined
  <2>3. StackUse
    BY DEF Inductive, ContInv
  <2>4. SearchStack' <=> SearchStack
    BY <1>1, Zenon DEF SearchStack, RaisesBelow, AllOdd, Even
  <2> QED BY <1>1, <1>3, <2>1, <2>2, <2>3, <2>4, Zenon DEF StackUse
<1>6. FactorialInv' /\ FibonacciInv'
  BY <1>1, <1>3, Zenon DEF Inductive, ContInv, FactorialInv, FibonacciInv, DoesOneOf
<1>7. SearchInv'
  <2>1. \A k : AllOdd(k)' = AllOdd(k)
    BY <1>2, OddSoFar, Zenon
  <2> QED BY <1>1, <1>3, <2>1, Zenon DEF Inductive, ContInv, SearchInv, DoesOneOf, AllOdd
<1>8. StackfulInv'
  BY <1>1, <1>3, Zenon DEF Inductive, ContInv, StackfulInv, Event
<1>9. GeneratorInv'
  <2>1. GeneratorFacts /\ (GeneratorInv' <=> GeneratorFacts')
    <3>1. GeneratorInv' <=> GeneratorFacts'
      BY GeneratorInvIs, PTL
    <3> QED BY <3>1, GeneratorInvIs DEF Inductive, ContInv
  <2>2. GeneratorFacts'
    BY <1>1, <1>2, <1>3, <2>1, SameRequests, Zenon DEF GeneratorFacts
  <2> QED BY <2>1, <2>2
<1>10. T9Inv'
  <2>1. T9Facts /\ (T9Inv' <=> T9Facts')
    <3>1. TypeOK' => (T9Inv' <=> T9Facts')
      BY T9InvIs, PTL
    <3> QED BY <1>4, <3>1, T9InvIs DEF Inductive, ContInv
  <2>2. T9Facts'
    BY <1>1, <1>2, <1>3, <2>1, ShapePrimed, Zenon DEF T9Facts
  <2> QED BY <2>1, <2>2
<1>11. FibStateInv'
  <2>1. ASSUME Fibonacci PROVE FibState'
    <3>1. PICK a, w, n, d : Chain(a, w, kont) /\ Inmost(a, w, kont, n, d) /\ At(n, d)
      BY <2>1, Zenon DEF Inductive, FibStateInv, FibState
    <3>2. At(n, d)'
      BY <1>1, <3>1, Zenon DEF At
    <3> QED BY <1>1, <1>2, <3>1, <3>2, ChainPrimed
  <2> QED BY <1>3, <2>1, Zenon DEF FibStateInv
<1>12. TreeInv'
  BY <1>1, <1>3, Zenon DEF Inductive, TreeInv, DoesOneOf, TreeFrames
<1>13. Results'
  <2>1. Requests' = Requests /\ (\A k : Yielded(k)' <=> Yielded(k)) /\ (\A k : AllOdd(k)' <=> AllOdd(k))
        /\ AllCombinations' = AllCombinations
    BY <1>1, <1>2, SameRequests, OddSoFar, ShapePrimed DEF Yielded, YieldedAs
  <2> QED BY <1>1, <1>3, <2>1, Zenon DEF Inductive, Results
<1> QED BY <1>4, <1>5, <1>6, <1>7, <1>8, <1>9, <1>10, <1>11, <1>12, <1>13 DEF Inductive, ContInv

LEMMA InitKeeps == Init => Inductive
<1> SUFFICES ASSUME Init PROVE Inductive
  OBVIOUS
<1>1. prog \in Programs /\ arg \in Args(prog) /\ limit \in StackLimits /\ limit \in Nat /\ limit >= 4
      /\ out = <<>> /\ path = <<>> /\ depth = (IF Search THEN 4 ELSE 1)
      /\ does = (IF CPS \/ Search THEN "call" ELSE "run")
      /\ x = (IF CPS THEN arg ELSE IF Search THEN 0 ELSE <<0, 1>>)
      /\ kont = (CASE Stackful -> <<[n |-> arg, depth |-> 0, phase |-> "enter"]>>
                   [] T9 /\ arg # <<>> -> <<[at |-> 1, results |-> <<>>]>>
                   [] OTHER -> <<>>)
  BY ContinuationsAssumption DEF Init, FirstDoes, FirstX, FirstKont, FirstDepth
<1>2. TypeOK
  BY <1>1 DEF TypeOK
<1>3. Results /\ TreeInv /\ DepthInv /\ StackUse
  <2>1. does # Done /\ does # "bounce" /\ does # "apply" /\ does # "RecursionError"
    BY <1>1 DEF Done
  <2>2. CPS => kont = <<>> /\ depth = 1
    BY <1>1, OnlyFactorial, OnlyFibonacci, OnlyTree DEF CPS
  <2>3. Trampolined \/ prog = "fact_cps" => CPS
    BY DEF Trampolined, CPS, Factorial, Fibonacci
  <2>4. DepthInv
    BY <2>1, <2>2, <2>3 DEF DepthInv
  <2>5. StackUse
    BY <1>1, <2>1, <2>2, <2>3 DEF StackUse, SearchStack, RaisesBelow
  <2>6. TreeInv
    <3>1. TreeFrames(<<>>)
      <4> DEFINE S == {}
      <4>1. <<>> \in Seq(S) /\ \A f \in S : TreeFrame(f)
        BY EmptySeq
      <4> HIDE DEF S
      <4> QED BY <4>1, Zenon DEF TreeFrames
    <3>2. Tree => kont = <<>> /\ does = "call"
      BY <1>1, <2>2, OnlyTree
    <3> QED BY <3>1, <3>2, Zenon DEF TreeInv, DoesOneOf
  <2> QED BY <2>1, <2>4, <2>5, <2>6 DEF Results
<1>4. FactorialInv
  <2> SUFFICES ASSUME Factorial PROVE FactorialInv
    BY DEF FactorialInv
  <2>1. does = "call" /\ kont = <<>> /\ x = arg /\ arg \in Nat
    BY <1>1, <1>2, OnlyFactorial, Arguments
  <2> QED BY <2>1 DEF FactorialInv, DoesOneOf
<1>5. FibonacciInv /\ FibStateInv
  <2> SUFFICES ASSUME Fibonacci PROVE FibonacciInv /\ FibState
    BY DEF FibonacciInv, FibStateInv
  <2>1. does = "call" /\ kont = <<>> /\ x = arg /\ arg \in Nat /\ depth = 1
    BY <1>1, <1>2, OnlyFibonacci, Arguments
  <2>2. FibonacciInv
    BY <2>1 DEF FibonacciInv, DoesOneOf
  <2>3. Chain(<<arg>>, <<1>>, kont) /\ Inmost(<<arg>>, <<1>>, kont, arg, 1) /\ At(arg, 1)
    <3>1. calls[arg] \in Nat
      BY <2>1, calls_def
    <3>2. Chain(<<arg>>, <<1>>, kont)
      BY <2>1, <3>1 DEF Chain
    <3>3. Inmost(<<arg>>, <<1>>, kont, arg, 1)
      BY <2>1 DEF Inmost
    <3>4. At(arg, 1)
      BY <2>1 DEF At
    <3> QED BY <3>2, <3>3, <3>4
  <2> QED BY <2>2, <2>3 DEF FibState
<1>6. SearchInv
  <2> SUFFICES ASSUME Search PROVE SearchInv
    BY DEF SearchInv
  <2>1. does = "call" /\ x = 0 /\ depth = 4 /\ arg \in Seq(Int) /\ Len(arg) \in Nat
    BY <1>1, <1>2, OnlySearch, Arguments
  <2> QED BY <2>1 DEF SearchInv, DoesOneOf, AllOdd
<1>7. StackfulInv
  <2> SUFFICES ASSUME Stackful PROVE StackfulFacts
    BY StackfulInvIs DEF StackfulInv
  <2> DEFINE f == [n |-> arg, depth |-> 0, phase |-> "enter"]
  <2>1. does = "run" /\ kont = <<f>> /\ arg \in Nat
    BY <1>1, <1>2, OnlyStackful, Arguments
  <2>2. f \in Frames /\ f.depth = 0 /\ f.n = arg /\ f.phase = "enter"
    BY <2>1 DEF Frames, Phases
  <2> HIDE DEF f
  <2>3. Len(<<f>>) = 1 /\ <<f>>[1] = f /\ <<f>> \in Seq(Frames) /\ Last(<<f>>) = f /\ <<f>> # <<>>
    BY <2>2 DEF Last
  <2>4. Levels(<<f>>)
    BY <2>1, <2>2, <2>3 DEF Levels
  <2>5. OutLength(<<f>>) = 0
    BY <2>2, <2>3 DEF OutLength
  <2>6. Events(<<>>)
    BY DEF Events
  <2> QED BY <1>1, <2>1, <2>4, <2>5, <2>6 DEF StackfulFacts, Done
<1>8. GeneratorInv
  <2> SUFFICES ASSUME Generator PROVE GeneratorFacts
    BY GeneratorInvIs DEF GeneratorInv
  <2>1. does = "run" /\ x = <<0, 1>> /\ out = <<>>
    BY <1>1, OnlyGenerator
  <2>2. Requests \in Nat
    BY <1>2, RequestsMade
  <2> QED BY <2>1, <2>2 DEF GeneratorFacts, Done, Ints, TermKinds, Position
<1>9. T9Inv
  <2> SUFFICES ASSUME T9 PROVE T9Facts
    BY <1>2, T9InvIs DEF T9Inv
  <2>1. arg \in Seq(2..9) /\ Len(arg) \in Nat /\ does = "run" /\ (arg # <<>> => Len(arg) >= 1)
    BY <1>1, <1>2, OnlyT9, Arguments, EmptySeq
  <2>2. CASE arg = <<>>
    BY <1>1, <2>1, <2>2, OnlyT9 DEF T9Facts, Done
  <2>3. CASE arg # <<>>
    <3> DEFINE f == [at |-> 1, results |-> <<>>]
    <3>1. kont = <<f>>
      BY <1>1, <2>3, OnlyT9
    <3>2. f \in T9Frame /\ f.at = 1 /\ f.results = <<>>
      BY DEF T9Frame
    <3> HIDE DEF f
    <3>3. Len(kont) = 1 /\ kont[1] = f /\ kont \in Seq(T9Frame) /\ kont # <<>>
      BY <3>1, <3>2
    <3>4. Shape(kont, path)
      <4>1. Len(kont) \in 1..Len(arg)
        BY <2>1, <2>3, <3>3
      <4>2. f.at <= KEY_MAP[arg[1]] + 1
        <5>1. arg[1] \in 2..9
          BY <2>1, <2>3
        <5> QED BY <3>2, <5>1 DEF KEY_MAP
      <4> QED BY <1>1, <3>2, <3>3, <4>1, <4>2 DEF Shape
    <3>5. Own(kont, path, 1) = {}
      <4>1. 1 \in 1..Len(arg)
        BY <2>1, <2>3
      <4>2. \A c \in AllCombinations : c[1] \in 1..4
        BY <4>1 DEF AllCombinations
      <4> QED BY <3>2, <3>3, <4>2 DEF Own, Part
    <3>6. AllOwn(kont, path) = {}
      BY <3>3, <3>5 DEF AllOwn
    <3>7. Gathered(kont, path, out)
      BY <1>1, <3>2, <3>3, <3>5, <3>6, NoneListed DEF Gathered
    <3> QED BY <2>1, <2>3, <3>3, <3>4, <3>7 DEF T9Facts, Done
  <2> QED BY <2>2, <2>3
<1> QED BY <1>2, <1>3, <1>4, <1>5, <1>6, <1>7, <1>8, <1>9 DEF Inductive, ContInv

(* Whatever program runs, on whatever number, list, tree or digits, and     *)
(* however deep the interpreter lets it go, the stack it keeps itself is    *)
(* that of the calls that are open, and the events of the explicit stack    *)
(* are those of every level on the way down and up: continuation_cps.py,    *)
(* stackless_vs_stackful.py, yield_fibonacci.py and t9_combinations.py.     *)
THEOREM ContInvariance == Spec => []ContInv
<1>1. Init => Inductive
  BY InitKeeps
<1>2. Inductive /\ [Next]_vars => Inductive'
  BY NextKeeps, StutterKeeps
<1>3. Inductive => ContInv
  BY DEF Inductive
<1> QED BY <1>1, <1>2, <1>3, PTL DEF Spec

(* A program that returns has computed what its direct form does, for every *)
(* input: the factorial and the Fibonacci number, in plain CPS and with a   *)
(* trampoline, the first even number or none, the sequence from the pair    *)
(* that was sent last, and each combination of letters once and in order.   *)
THEOREM SameResults == Spec => []Results
<1>1. Init => Inductive
  BY InitKeeps
<1>2. Inductive /\ [Next]_vars => Inductive'
  BY NextKeeps, StutterKeeps
<1>3. Inductive => Results
  BY DEF Inductive
<1> QED BY <1>1, <1>2, <1>3, PTL DEF Spec

(* How deep the stack of the interpreter must be, for every input: a frame  *)
(* per call and per continuation in plain CPS, the continuations of all     *)
(* open calls in spite of the trampoline, and for the search exactly a      *)
(* frame per number up to the first even one and six more, or a frame per   *)
(* number and four more if all are odd; nothing else raises.                *)
THEOREM StackNeeded == Spec => []StackUse
<1>1. ContInv => StackUse
  BY DEF ContInv
<1> QED BY <1>1, ContInvariance, PTL
================================================================================
