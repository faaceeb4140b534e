--------------------------- MODULE EventServersProofs ---------------------------
(****************************************************************************)
(* The reactor and the two proactors for any clients, descriptors, queue    *)
(* sizes and water marks: where every unit of a client is, that no callback *)
(* outlives its connection, that drain() bounds the buffer, and that each   *)
(* server is the EchoService to its clients.                                *)
(****************************************************************************)
EXTENDS EventServers, WellFoundedInduction, FiniteSetTheorems, TLAPS

(* Sequences that grow at one end and shrink at the other.                  *)
LEMMA Appended ==
  ASSUME NEW S, NEW q \in Seq(S), NEW e \in S
  PROVE  /\ Append(q, e) \in Seq(S) /\ Len(Append(q, e)) = Len(q) + 1
         /\ \A i \in 1..Len(q) : Append(q, e)[i] = q[i]
         /\ Append(q, e)[Len(q) + 1] = e
OBVIOUS

LEMMA Beheaded ==
  ASSUME NEW S, NEW q \in Seq(S), q # <<>>
  PROVE  /\ Tail(q) \in Seq(S) /\ Len(Tail(q)) = Len(q) - 1 /\ Len(q) > 0
         /\ \A i \in 1..(Len(q) - 1) : Tail(q)[i] = q[i + 1]
         /\ Head(q) = q[1] /\ Head(q) \in S
OBVIOUS

LEMMA LengthIsNat == \A S : \A q \in Seq(S) : Len(q) \in Nat
OBVIOUS

LEMMA CutBehind ==
  ASSUME NEW S, NEW q \in Seq(S), NEW k \in 0..Len(q)
  PROVE  /\ SubSeq(q, k + 1, Len(q)) \in Seq(S) /\ Len(SubSeq(q, k + 1, Len(q))) = Len(q) - k
         /\ \A i \in 1..(Len(q) - k) : SubSeq(q, k + 1, Len(q))[i] = q[k + i]
OBVIOUS

LEMMA CutBefore ==
  ASSUME NEW S, NEW q \in Seq(S), NEW k \in 0..Len(q)
  PROVE  /\ SubSeq(q, 1, k) \in Seq(S) /\ Len(SubSeq(q, 1, k)) = k
         /\ \A i \in 1..k : SubSeq(q, 1, k)[i] = q[i]
OBVIOUS

LEMMA Joined ==
  ASSUME NEW S, NEW q \in Seq(S), NEW r \in Seq(S)
  PROVE  /\ q \o r \in Seq(S) /\ Len(q \o r) = Len(q) + Len(r)
         /\ \A i \in 1..Len(q) : (q \o r)[i] = q[i]
         /\ \A i \in 1..Len(r) : (q \o r)[Len(q) + i] = r[i]
OBVIOUS

(* The same for a stretch of the stream of a client.                        *)
LEMMA HoldsNothing ==
  ASSUME NEW c, NEW n PROVE Holds(<<>>, c, n)
BY DEF Holds

LEMMA HoldsAppended ==
  ASSUME NEW q \in Seq(Unit), NEW c, NEW n \in Nat, Holds(q, c, n),
         NEW u \in Unit, u = <<c, n + Len(q) + 1>>
  PROVE  Holds(Append(q, u), c, n)
<1>1. /\ Len(q) \in Nat /\ Len(Append(q, u)) = Len(q) + 1
      /\ \A i \in 1..Len(q) : Append(q, u)[i] = q[i]
      /\ Append(q, u)[Len(q) + 1] = u
  BY Appended
<1>2. \A i \in 1..(Len(q) + 1) : i \in 1..Len(q) \/ i = Len(q) + 1
  BY <1>1
<1>3. n + Len(q) + 1 = n + (Len(q) + 1)
  BY <1>1
<1> QED BY <1>1, <1>2, <1>3 DEF Holds

LEMMA HoldsBeheaded ==
  ASSUME NEW q \in Seq(Unit), NEW c, NEW n \in Nat, Holds(q, c, n), q # <<>>
  PROVE  Head(q) = <<c, n + 1>> /\ Holds(Tail(q), c, n + 1)
<1>1. /\ Len(q) \in Nat /\ Len(Tail(q)) = Len(q) - 1 /\ Len(q) > 0
      /\ \A i \in 1..(Len(q) - 1) : Tail(q)[i] = q[i + 1]
      /\ Head(q) = q[1]
  BY Beheaded
<1>2. \A i \in 1..(Len(q) - 1) : i + 1 \in 1..Len(q) /\ n + (i + 1) = n + 1 + i
  BY <1>1
<1>3. 1 \in 1..Len(q)
  BY <1>1
<1> QED BY <1>1, <1>2, <1>3 DEF Holds

LEMMA HoldsCutBehind ==
  ASSUME NEW q \in Seq(Unit), NEW c, NEW n \in Nat, Holds(q, c, n), NEW k \in 0..Len(q)
  PROVE  Holds(SubSeq(q, k + 1, Len(q)), c, n + k)
<1> DEFINE r == SubSeq(q, k + 1, Len(q))
<1>1. Len(q) \in Nat /\ Len(r) = Len(q) - k /\ \A i \in 1..(Len(q) - k) : r[i] = q[k + i]
  BY CutBehind
<1>2. \A i \in 1..(Len(q) - k) : k + i \in 1..Len(q) /\ n + (k + i) = n + k + i
  BY <1>1
<1> HIDE DEF r
<1>3. Holds(r, c, n + k)
  BY <1>1, <1>2 DEF Holds
<1> QED BY <1>3 DEF r

LEMMA HoldsCutBefore ==
  ASSUME NEW q \in Seq(Unit), NEW c, NEW n \in Nat, Holds(q, c, n), NEW k \in 0..Len(q)
  PROVE  Holds(SubSeq(q, 1, k), c, n)
<1> DEFINE r == SubSeq(q, 1, k)
<1>1. Len(q) \in Nat /\ Len(r) = k /\ \A i \in 1..k : r[i] = q[i]
  BY CutBefore
<1>2. \A i \in 1..k : i \in 1..Len(q)
  BY <1>1
<1> HIDE DEF r
<1>3. Holds(r, c, n)
  BY <1>1, <1>2 DEF Holds
<1> QED BY <1>3 DEF r

LEMMA HoldsJoined ==
  ASSUME NEW q \in Seq(Unit), NEW r \in Seq(Unit), NEW c, NEW n \in Nat,
         Holds(q, c, n), Holds(r, c, n + Len(q))
  PROVE  Holds(q \o r, c, n)
<1> DEFINE s == q \o r
<1>1. /\ Len(q) \in Nat /\ Len(r) \in Nat /\ Len(s) = Len(q) + Len(r)
      /\ \A i \in 1..Len(q) : s[i] = q[i]
      /\ \A i \in 1..Len(r) : s[Len(q) + i] = r[i]
  BY Joined
<1> HIDE DEF s
<1>2. \A i \in 1..Len(s) : s[i] = <<c, n + i>>
  <2> SUFFICES ASSUME NEW i \in 1..Len(s) PROVE s[i] = <<c, n + i>>
    OBVIOUS
  <2>1. CASE i \in 1..Len(q)
    BY <1>1, <2>1 DEF Holds
  <2>2. CASE i \notin 1..Len(q)
    <3> DEFINE j == i - Len(q)
    <3>1. j \in 1..Len(r) /\ i = Len(q) + j
      BY <1>1, <2>2
    <3>2. s[i] = r[j] /\ r[j] = <<c, n + Len(q) + j>>
      BY <1>1, <3>1 DEF Holds
    <3>3. n + Len(q) + j = n + i
      BY <1>1, <3>1
    <3> QED BY <3>2, <3>3
  <2> QED BY <2>1, <2>2
<1> QED BY <1>2 DEF s, Holds

--------------------------------------------------------------------------------
(* Units that move from the head of one queue to the end of the one before: *)
(* k units of z go behind y.                                                *)
LEMMA ShiftTypes ==
  ASSUME NEW y \in Seq(Unit), NEW z \in Seq(Unit), NEW k \in 0..Len(z)
  PROVE  /\ y \o SubSeq(z, 1, k) \in Seq(Unit) /\ SubSeq(z, k + 1, Len(z)) \in Seq(Unit)
         /\ Len(y \o SubSeq(z, 1, k)) = Len(y) + k
         /\ Len(SubSeq(z, k + 1, Len(z))) = Len(z) - k
<1> DEFINE u == SubSeq(z, 1, k)
<1>1. u \in Seq(Unit) /\ Len(u) = k
  BY CutBefore
<1>2. SubSeq(z, k + 1, Len(z)) \in Seq(Unit) /\ Len(SubSeq(z, k + 1, Len(z))) = Len(z) - k
  BY CutBehind
<1> HIDE DEF u
<1>3. y \o u \in Seq(Unit) /\ Len(y \o u) = Len(y) + Len(u)
  BY <1>1, Joined
<1> QED BY <1>1, <1>2, <1>3 DEF u

LEMMA ShiftHolds ==
  ASSUME NEW y \in Seq(Unit), NEW z \in Seq(Unit), NEW k \in 0..Len(z), NEW c, NEW m \in Nat,
         Holds(y, c, m), Holds(z, c, m + Len(y))
  PROVE  /\ Holds(y \o SubSeq(z, 1, k), c, m)
         /\ Holds(SubSeq(z, k + 1, Len(z)), c, m + (Len(y) + k))
<1> DEFINE u == SubSeq(z, 1, k)
           p == m + Len(y)
<1>1. u \in Seq(Unit)
  BY CutBefore
<1>2. p \in Nat /\ Len(y) \in Nat /\ k \in Nat
  OBVIOUS
<1>3. Holds(z, c, p)
  OBVIOUS
<1>4. m + (Len(y) + k) = p + k
  BY <1>2
<1> HIDE DEF p
<1>5. Holds(u, c, p)
  BY <1>2, <1>3, HoldsCutBefore
<1>6. Holds(SubSeq(z, k + 1, Len(z)), c, p + k)
  BY <1>2, <1>3, HoldsCutBehind
<1>7. Holds(u, c, m + Len(y))
  BY <1>5 DEF p
<1> HIDE DEF u
<1>8. Holds(y \o u, c, m)
  BY <1>1, <1>7, HoldsJoined
<1> QED BY <1>4, <1>6, <1>8 DEF u

(* What write() does with k units of z: the first n of them are sent at     *)
(* once, behind o, and the others wait behind b.                            *)
LEMMA WriteTypes ==
  ASSUME NEW o \in Seq(Unit), NEW b \in Seq(Unit), NEW u \in Seq(Unit), NEW n \in 0..Len(u)
  PROVE  /\ o \o SubSeq(u, 1, n) \in Seq(Unit) /\ b \o SubSeq(u, n + 1, Len(u)) \in Seq(Unit)
         /\ Len(o \o SubSeq(u, 1, n)) = Len(o) + n
         /\ Len(b \o SubSeq(u, n + 1, Len(u))) = Len(b) + (Len(u) - n)
<1> DEFINE r == SubSeq(u, n + 1, Len(u))
<1>1. o \o SubSeq(u, 1, n) \in Seq(Unit) /\ Len(o \o SubSeq(u, 1, n)) = Len(o) + n
  BY ShiftTypes
<1>2. r \in Seq(Unit) /\ Len(r) = Len(u) - n
  BY CutBehind
<1> HIDE DEF r
<1>3. b \o r \in Seq(Unit) /\ Len(b \o r) = Len(b) + Len(r)
  BY <1>2, Joined
<1> QED BY <1>1, <1>2, <1>3 DEF r

LEMMA WriteHolds ==
  ASSUME NEW o \in Seq(Unit), NEW b \in Seq(Unit), NEW u \in Seq(Unit), NEW n \in 0..Len(u),
         b # <<>> => n = 0, NEW c, NEW m \in Nat,
         Holds(o, c, m), Holds(b, c, m + Len(o)), Holds(u, c, m + Len(o) + Len(b))
  PROVE  /\ Holds(o \o SubSeq(u, 1, n), c, m)
         /\ Holds(b \o SubSeq(u, n + 1, Len(u)), c, m + (Len(o) + n))
<1> DEFINE v == SubSeq(u, 1, n)
           r == SubSeq(u, n + 1, Len(u))
           p == m + Len(o)
<1>1. p \in Nat /\ Len(o) \in Nat /\ Len(b) \in Nat /\ n \in Nat /\ m + (Len(o) + n) = p + n
  OBVIOUS
<1>2. Holds(b, c, p) /\ Holds(u, c, p + Len(b)) /\ p + Len(b) \in Nat
  BY <1>1
<1>3. v \in Seq(Unit) /\ Len(v) = n /\ r \in Seq(Unit)
  BY CutBefore, CutBehind
<1>4. Holds(v, c, p + Len(b)) /\ Holds(r, c, (p + Len(b)) + n)
  <2> DEFINE s == p + Len(b)
  <2>1. s \in Nat /\ Holds(u, c, s)
    BY <1>2
  <2> HIDE DEF s
  <2>2. Holds(v, c, s)
    BY <2>1, HoldsCutBefore
  <2>3. Holds(r, c, s + n)
    BY <2>1, HoldsCutBehind
  <2> QED BY <2>2, <2>3 DEF s
<1> HIDE DEF v, r, p
<1>5. Holds(v, c, p)
  <2>1. CASE n = 0
    BY <1>3, <2>1 DEF Holds
  <2>2. CASE b = <<>>
    <3>1. p + Len(b) = p
      BY <1>1, <2>2
    <3> QED BY <1>4, <3>1
  <2> QED BY <2>1, <2>2
<1>6. Holds(o \o v, c, m)
  <2>1. Holds(v, c, m + Len(o))
    BY <1>5 DEF p
  <2> QED BY <1>3, <2>1, HoldsJoined
<1>7. Holds(b \o r, c, p + n)
  <2>1. Holds(b, c, p + n)
    <3>1. CASE n = 0
      <4>1. p + n = p
        BY <1>1, <3>1
      <4> QED BY <1>2, <4>1
    <3>2. CASE b = <<>>
      BY <3>2, HoldsNothing
    <3> QED BY <3>1, <3>2
  <2>2. (p + Len(b)) + n = (p + n) + Len(b)
    BY <1>1
  <2>3. p + n \in Nat /\ Holds(r, c, (p + n) + Len(b))
    BY <1>1, <1>4, <2>2
  <2> DEFINE s == p + n
  <2>4. s \in Nat /\ Holds(b, c, s) /\ Holds(r, c, s + Len(b))
    BY <2>1, <2>3
  <2> HIDE DEF s
  <2>5. Holds(b \o r, c, s)
    BY <1>3, <2>4, HoldsJoined
  <2> QED BY <2>5 DEF s
<1> QED BY <1>1, <1>6, <1>7 DEF v, r

LEMMA NothingSent ==
  ASSUME NEW o \in Seq(Unit), NEW u \in Seq(Unit), NEW c, NEW m \in Nat, Holds(o, c, m)
  PROVE  Holds(o \o SubSeq(u, 1, 0), c, m) /\ Len(o \o SubSeq(u, 1, 0)) = Len(o)
<1> DEFINE v == SubSeq(u, 1, 0)
<1>1. v \in Seq(Unit) /\ Len(v) = 0
  BY CutBefore
<1> HIDE DEF v
<1>2. Holds(v, c, m + Len(o))
  BY <1>1 DEF Holds
<1>3. Holds(o \o v, c, m)
  BY <1>1, <1>2, HoldsJoined
<1>4. Len(o \o v) = Len(o) + Len(v)
  BY <1>1, Joined
<1> QED BY <1>1, <1>3, <1>4 DEF v

--------------------------------------------------------------------------------
(* The units of client c behind the m that the kernel or the client has: b  *)
(* in the buffer, x in the stream reader, i not received, up to unit s.     *)
Cut(c, m, b, x, i, s) == /\ Holds(b, c, m) /\ Holds(x, c, m + Len(b))
                         /\ Holds(i, c, m + Len(b) + Len(x))
                         /\ m + Len(b) + Len(x) + Len(i) = s

LEMMA FlushSums ==
  \A g, o, n, b, x, i, s \in Nat : n <= b /\ (g + o) + b + x + i = s =>
    /\ g + (o + n) = (g + o) + n /\ ((g + o) + n) + (b - n) = (g + o) + b /\ (g + o) + n <= s
OBVIOUS

LEMMA WriteSums ==
  \A g, o, b, x, i, s, k, n \in Nat : k <= x /\ n <= k /\ (g + o + b) + x + i = s =>
    /\ g + (o + n) = g + o + n /\ (g + o + n) + (b + (k - n)) = (g + o + b) + k
    /\ ((g + o + b) + k) + (x - k) = (g + o + b) + x /\ g + o + n <= s
OBVIOUS

(* Units that are received into the stream reader, or, when there is none,  *)
(* into the buffer.                                                         *)
LEMMA CutFeed ==
  ASSUME NEW c, NEW m \in Nat, NEW b \in Seq(Unit), NEW x \in Seq(Unit), NEW i \in Seq(Unit),
         NEW s \in Nat, Cut(c, m, b, x, i, s), NEW k \in 0..Len(i)
  PROVE  Cut(c, m, b, x \o SubSeq(i, 1, k), SubSeq(i, k + 1, Len(i)), s)
<1> DEFINE y == x \o SubSeq(i, 1, k)
           z == SubSeq(i, k + 1, Len(i))
           p == m + Len(b)
<1>1. /\ Len(b) \in Nat /\ Len(x) \in Nat /\ Len(i) \in Nat /\ k \in Nat /\ k <= Len(i)
      /\ p \in Nat /\ p + Len(x) + Len(i) = s
  BY DEF Cut
<1>2. Len(y) = Len(x) + k /\ Len(z) = Len(i) - k
  BY ShiftTypes
<1>3. Holds(b, c, m) /\ Holds(x, c, p) /\ Holds(i, c, p + Len(x))
  BY DEF Cut
<1> HIDE DEF p
<1>4. Holds(y, c, p) /\ Holds(z, c, p + (Len(x) + k))
  BY <1>1, <1>3, ShiftHolds
<1> HIDE DEF y, z
<1>5. Holds(z, c, p + Len(y)) /\ p + Len(y) + Len(z) = s
  <2>1. Holds(z, c, p + Len(y))
    BY <1>2, <1>4
  <2>2. \A lx, li \in Nat : k <= li /\ p + lx + li = s => p + (lx + k) + (li - k) = s
    BY <1>1
  <2>3. p + (Len(x) + k) + (Len(i) - k) = s
    BY <1>1, <2>2
  <2> QED BY <1>2, <2>1, <2>3
<1>6. Cut(c, m, b, y, z, s)
  BY <1>3, <1>4, <1>5 DEF Cut, p
<1> QED BY <1>6 DEF y, z

LEMMA CutRead ==
  ASSUME NEW c, NEW m \in Nat, NEW b \in Seq(Unit), NEW x \in Seq(Unit), NEW i \in Seq(Unit),
         NEW s \in Nat, Cut(c, m, b, x, i, s), x = <<>>, NEW k \in 0..Len(i)
  PROVE  Cut(c, m, b \o SubSeq(i, 1, k), x, SubSeq(i, k + 1, Len(i)), s)
<1> DEFINE y == b \o SubSeq(i, 1, k)
           z == SubSeq(i, k + 1, Len(i))
<1>1. /\ Len(b) \in Nat /\ Len(x) = 0 /\ Len(i) \in Nat /\ k \in Nat /\ k <= Len(i)
      /\ m + Len(b) + Len(i) = s /\ m + Len(b) + Len(x) = m + Len(b)
  BY DEF Cut
<1>2. Len(y) = Len(b) + k /\ Len(z) = Len(i) - k
  BY ShiftTypes
<1>3. Holds(b, c, m) /\ Holds(i, c, m + Len(b))
  BY <1>1 DEF Cut
<1>4. Holds(y, c, m) /\ Holds(z, c, m + (Len(b) + k))
  BY <1>3, ShiftHolds
<1> HIDE DEF y, z
<1>5. /\ m + Len(y) = m + (Len(b) + k) /\ m + Len(y) + Len(x) = m + (Len(b) + k)
      /\ m + Len(y) + Len(x) + Len(z) = s
  BY <1>1, <1>2
<1>6. Holds(x, c, m + Len(y))
  BY HoldsNothing
<1>7. Cut(c, m, y, x, z, s)
  BY <1>4, <1>5, <1>6 DEF Cut
<1> QED BY <1>7 DEF y, z

(* Units that leave the buffer for the kernel: o is what the client has to  *)
(* read, behind the g units it has read.                                    *)
LEMMA CutFlush ==
  ASSUME NEW c, NEW g \in Nat, NEW o \in Seq(Unit), NEW b \in Seq(Unit), NEW x \in Seq(Unit),
         NEW i \in Seq(Unit), NEW s \in Nat, Holds(o, c, g), Cut(c, g + Len(o), b, x, i, s),
         NEW n \in 0..Len(b)
  PROVE  /\ Holds(o \o SubSeq(b, 1, n), c, g)
         /\ Cut(c, g + Len(o \o SubSeq(b, 1, n)), SubSeq(b, n + 1, Len(b)), x, i, s)
         /\ g + Len(o \o SubSeq(b, 1, n)) <= s
<1> DEFINE oo == o \o SubSeq(b, 1, n)
           bb == SubSeq(b, n + 1, Len(b))
<1>1. Len(oo) = Len(o) + n /\ Len(bb) = Len(b) - n
  BY ShiftTypes
<1>2. Holds(b, c, g + Len(o))
  BY DEF Cut
<1>3. Holds(oo, c, g) /\ Holds(bb, c, g + (Len(o) + n))
  BY <1>2, ShiftHolds
<1> HIDE DEF oo, bb
<1>4. PICK lo \in Nat, lb \in Nat, lx \in Nat, li \in Nat :
        lo = Len(o) /\ lb = Len(b) /\ lx = Len(x) /\ li = Len(i)
  <2>1. Len(o) \in Nat /\ Len(b) \in Nat /\ Len(x) \in Nat /\ Len(i) \in Nat
    BY LengthIsNat, Zenon
  <2> QED BY <2>1, Zenon
<1>5. n \in Nat /\ n <= lb
  BY <1>4
<1>6. /\ Holds(x, c, (g + lo) + lb) /\ Holds(i, c, (g + lo) + lb + lx)
      /\ (g + lo) + lb + lx + li = s
  BY <1>4 DEF Cut
<1>7. /\ g + (lo + n) = (g + lo) + n /\ ((g + lo) + n) + (lb - n) = (g + lo) + lb
      /\ (g + lo) + n <= s
  BY <1>5, <1>6, FlushSums
<1>8. Len(oo) = lo + n /\ Len(bb) = lb - n /\ Holds(bb, c, g + (lo + n))
  BY <1>1, <1>3, <1>4
<1>9. Cut(c, g + Len(oo), bb, x, i, s)
  BY <1>4, <1>6, <1>7, <1>8 DEF Cut
<1>10. g + Len(oo) <= s
  BY <1>7, <1>8
<1> QED BY <1>3, <1>9, <1>10 DEF oo, bb

(* Units that write() is given: out of what has been received, or out of    *)
(* the stream reader, which keeps xx.                                       *)
LEMMA CutTake ==
  ASSUME NEW c, NEW m \in Nat, NEW b \in Seq(Unit), NEW x \in Seq(Unit), NEW i, NEW s,
         Cut(c, m, b, x, i, s), NEW k \in 0..Len(x)
  PROVE  /\ Holds(SubSeq(x, 1, k), c, m + Len(b))
         /\ Holds(SubSeq(x, k + 1, Len(x)), c, m + Len(b) + k)
<1> PICK p \in Nat : p = m + Len(b)
  OBVIOUS
<1>1. Holds(x, c, p)
  BY DEF Cut
<1>2. Holds(SubSeq(x, 1, k), c, p)
  BY <1>1, HoldsCutBefore
<1>3. Holds(SubSeq(x, k + 1, Len(x)), c, p + k)
  BY <1>1, HoldsCutBehind
<1> QED BY <1>2, <1>3

LEMMA CutWrite ==
  ASSUME NEW c, NEW g \in Nat, NEW o \in Seq(Unit), NEW b \in Seq(Unit), NEW x \in Seq(Unit),
         NEW i \in Seq(Unit), NEW s \in Nat, Holds(o, c, g), Cut(c, g + Len(o), b, x, i, s),
         NEW u \in Seq(Unit), NEW xx \in Seq(Unit), Len(u) <= Len(x),
         Len(xx) = Len(x) - Len(u), Holds(u, c, g + Len(o) + Len(b)),
         Holds(xx, c, g + Len(o) + Len(b) + Len(u)),
         NEW n \in 0..Len(u), b # <<>> => n = 0
  PROVE  /\ Holds(o \o SubSeq(u, 1, n), c, g)
         /\ Cut(c, g + Len(o \o SubSeq(u, 1, n)), b \o SubSeq(u, n + 1, Len(u)), xx, i, s)
         /\ g + Len(o \o SubSeq(u, 1, n)) <= s
<1> DEFINE oo == o \o SubSeq(u, 1, n)
           bb == b \o SubSeq(u, n + 1, Len(u))
<1>1. Len(oo) = Len(o) + n /\ Len(bb) = Len(b) + (Len(u) - n)
  BY WriteTypes
<1>2. Holds(oo, c, g) /\ Holds(bb, c, g + (Len(o) + n))
  BY WriteHolds, Holds(b, c, g + Len(o)) DEF Cut
<1> HIDE DEF oo, bb
<1>3. PICK lo \in Nat, lb \in Nat, lx \in Nat, k \in Nat, li \in Nat :
        lo = Len(o) /\ lb = Len(b) /\ lx = Len(x) /\ k = Len(u) /\ li = Len(i)
  <2>1. /\ Len(o) \in Nat /\ Len(b) \in Nat /\ Len(x) \in Nat /\ Len(u) \in Nat
        /\ Len(i) \in Nat
    BY LengthIsNat, Zenon
  <2> QED BY <2>1, Zenon
<1>4. n \in Nat /\ n <= k /\ k <= lx
  BY <1>3
<1>5. Holds(i, c, (g + lo + lb) + lx) /\ (g + lo + lb) + lx + li = s
  BY <1>3 DEF Cut
<1>6. /\ g + (lo + n) = g + lo + n /\ (g + lo + n) + (lb + (k - n)) = (g + lo + lb) + k
      /\ ((g + lo + lb) + k) + (lx - k) = (g + lo + lb) + lx /\ g + lo + n <= s
  BY <1>4, <1>5, WriteSums
<1>7. Len(oo) = lo + n /\ Len(bb) = lb + (k - n) /\ Len(xx) = lx - k
  BY <1>1, <1>3
<1>8. g + Len(oo) = g + lo + n /\ (g + Len(oo)) + Len(bb) = (g + lo + lb) + k
  BY <1>6, <1>7
<1>9. Holds(bb, c, g + Len(oo)) /\ Holds(xx, c, (g + lo + lb) + k)
  BY <1>2, <1>3, <1>7
<1>10. Cut(c, g + Len(oo), bb, xx, i, s)
  BY <1>3, <1>5, <1>6, <1>7, <1>8, <1>9 DEF Cut
<1> QED BY <1>2, <1>6, <1>8, <1>10 DEF oo, bb

LEMMA CutSwap ==
  ASSUME NEW c, NEW m \in Nat, NEW b \in Seq(Unit), NEW x, x = <<>>, NEW i \in Seq(Unit), NEW s
  PROVE  Cut(c, m, b, i, x, s) <=> Cut(c, m, b, x, i, s)
<1>1. /\ Len(b) \in Nat /\ Len(i) \in Nat /\ Len(x) = 0
      /\ m + Len(b) + Len(i) + Len(x) = m + Len(b) + Len(x) + Len(i)
      /\ m + Len(b) + Len(x) = m + Len(b)
  OBVIOUS
<1>2. \A p : Holds(x, c, p)
  BY HoldsNothing
<1> QED BY <1>1, <1>2 DEF Cut

--------------------------------------------------------------------------------
(* What the type invariant says of one client and one descriptor.           *)
Tasks == {"none", "read", "drain", "wait_closed", "done", "failed"}
Stages == {"none", "open", "closing", "lost", "broken", "closed", "aborted"}

Typed ==
  /\ \A c \in Clients : /\ inq[c] \in Seq(Unit) /\ outq[c] \in Seq(Unit) /\ got[c] \in Seq(Unit)
                        /\ buf[c] \in Seq(Unit) /\ inbox[c] \in Seq(Unit) /\ sent[c] \in Nat
                        /\ Len(inq[c]) \in Nat /\ Len(outq[c]) \in Nat /\ Len(got[c]) \in Nat
                        /\ Len(buf[c]) \in Nat /\ Len(inbox[c]) \in Nat
  /\ \A fd \in Fds : Open(fd) => sock[fd] \in Clients

LEMMA Types == TypeOK => Typed
<1> SUFFICES ASSUME TypeOK PROVE Typed
  OBVIOUS
<1>1. ASSUME NEW c \in Clients
      PROVE  /\ inq[c] \in Seq(Unit) /\ outq[c] \in Seq(Unit) /\ got[c] \in Seq(Unit)
             /\ buf[c] \in Seq(Unit) /\ inbox[c] \in Seq(Unit) /\ sent[c] \in Nat
  BY DEF TypeOK, SocketsTypeOK
<1>2. \A q \in Seq(Unit) : Len(q) \in Nat
  OBVIOUS
<1>3. ASSUME NEW fd \in Fds PROVE Open(fd) => sock[fd] \in Clients
  BY DEF TypeOK, Open
<1> QED BY <1>1, <1>2, <1>3 DEF Typed

LEMMA SumsOfLengths ==
  ASSUME Typed, NEW c \in Clients
  PROVE  /\ Len(got[c]) + Len(outq[c]) \in Nat
         /\ Len(got[c]) + Len(outq[c]) + Len(buf[c]) \in Nat
<1>1. \A m, n, k \in Nat : m + n \in Nat /\ m + n + k \in Nat
  OBVIOUS
<1> QED BY <1>1 DEF Typed

(* A descriptor in use is that of an open connection, of this one only.     *)
LEMMA OpenConnection ==
  ASSUME TypeOK, LinkInv, NEW fd \in Fds, Open(fd)
  PROVE  /\ sock[fd] \in Clients /\ link[sock[fd]] = "open" /\ FdOf(sock[fd]) = fd
         /\ stage[sock[fd]] \in {"open", "closing", "lost", "broken"}
         /\ \A g \in Fds : g # fd => sock[g] # sock[fd]
<1>1. sock[fd] \in Clients
  BY DEF TypeOK, Open
<1>2. \A g \in Fds : g # fd => sock[g] # sock[fd]
  BY DEF LinkInv
<1>3. FdOf(sock[fd]) = fd
  BY <1>2 DEF FdOf
<1>4. link[sock[fd]] = "open" /\ stage[sock[fd]] \in {"open", "closing", "lost", "broken"}
  BY <1>1 DEF LinkInv
<1> QED BY <1>1, <1>2, <1>3, <1>4

LEMMA ConnectionOf ==
  ASSUME TypeOK, LinkInv, NEW c \in Clients,
         link[c] = "open" \/ stage[c] \in {"open", "closing", "lost", "broken"}
  PROVE  /\ FdOf(c) \in Fds /\ sock[FdOf(c)] = c /\ Open(FdOf(c))
<1>1. \E fd \in Fds : sock[fd] = c
  BY DEF LinkInv
<1>2. FdOf(c) \in Fds /\ sock[FdOf(c)] = c
  BY <1>1 DEF FdOf
<1> QED BY <1>2, EventServersAssumption DEF Open

--------------------------------------------------------------------------------
(* Type correctness of the sockets, by kind of step.                        *)
LEMMA TypeConnect ==
  ASSUME SocketsTypeOK, NEW c \in Clients, Connect(c) PROVE SocketsTypeOK'
<1>1. backlog' \in Seq(Clients)
  BY Appended DEF SocketsTypeOK, Connect
<1> QED BY <1>1 DEF SocketsTypeOK, Connect

LEMMA TypeSend ==
  ASSUME SocketsTypeOK, NEW c \in Clients, Send(c) PROVE SocketsTypeOK'
<1>1. sent[c] \in Nat /\ MaxUnits[c] \in Nat /\ sent[c] + 1 <= MaxUnits[c]
  <2>1. sent[c] \in Nat /\ sent[c] < MaxUnits[c]
    BY DEF SocketsTypeOK, Send
  <2>2. MaxUnits[c] \in Nat
    BY SocketsAssumption
  <2> QED BY <2>1, <2>2
<1>2. <<c, sent[c] + 1>> \in Unit
  BY <1>1 DEF Unit
<1>3. Append(inq[c], <<c, sent[c] + 1>>) \in Seq(Unit)
  BY <1>2, Appended DEF SocketsTypeOK
<1>4. sent' \in [Clients -> Nat] /\ \A d \in Clients : sent'[d] <= MaxUnits[d]
  <2>1. sent' = [sent EXCEPT ![c] = @ + 1] /\ sent \in [Clients -> Nat]
    BY DEF SocketsTypeOK, Send
  <2>2. sent' \in [Clients -> Nat]
    BY <1>1, <2>1
  <2>3. sent'[c] <= MaxUnits[c]
    BY <1>1, <2>1
  <2>4. \A d \in Clients : d # c => sent'[d] = sent[d]
    BY <2>1
  <2>5. \A d \in Clients : sent[d] <= MaxUnits[d]
    BY DEF SocketsTypeOK
  <2> QED BY <2>2, <2>3, <2>4, <2>5
<1>5. DOMAIN inq' = Clients /\ \A d \in Clients : inq'[d] \in Seq(Unit)
  BY <1>3 DEF SocketsTypeOK, Send
<1> QED BY <1>4, <1>5 DEF SocketsTypeOK, Send

LEMMA TypeReceive ==
  ASSUME SocketsTypeOK, NEW c \in Clients, Receive(c) PROVE SocketsTypeOK'
<1>1. outq[c] \in Seq(Unit) /\ got[c] \in Seq(Unit) /\ outq[c] # <<>>
  BY DEF SocketsTypeOK, Receive
<1>2. Head(outq[c]) \in Unit /\ Tail(outq[c]) \in Seq(Unit)
  BY <1>1, Beheaded
<1>3. Append(got[c], Head(outq[c])) \in Seq(Unit)
  BY <1>1, <1>2, Appended
<1>4. DOMAIN got' = Clients /\ \A d \in Clients : got'[d] \in Seq(Unit)
  BY <1>3 DEF SocketsTypeOK, Receive
<1>5. DOMAIN outq' = Clients /\ \A d \in Clients : outq'[d] \in Seq(Unit)
  BY <1>2 DEF SocketsTypeOK, Receive
<1> QED BY <1>4, <1>5 DEF SocketsTypeOK, Receive

LEMMA TypeFinReset ==
  ASSUME SocketsTypeOK, NEW c \in Clients, Fin(c) \/ Reset(c) PROVE SocketsTypeOK'
<1>1. CASE Fin(c)
  BY <1>1 DEF SocketsTypeOK, Fin
<1>2. CASE Reset(c)
  <2>1. DOMAIN outq' = Clients /\ \A d \in Clients : outq'[d] \in Seq(Unit)
    BY <1>2 DEF SocketsTypeOK, Reset
  <2> QED BY <1>2, <2>1 DEF SocketsTypeOK, Reset
<1> QED BY <1>1, <1>2

(* accept() finds a free descriptor: those in use belong to clients that    *)
(* are not in the backlog.                                                  *)
NewFd == CHOOSE f \in Fds : ~Open(f) /\ \A g \in Fds : ~Open(g) => f <= g

LEMMA SomeFdIsFree ==
  ASSUME TypeOK, LinkInv, backlog # <<>> PROVE \E fd \in Fds : ~Open(fd)
<1> SUFFICES ASSUME \A fd \in Fds : Open(fd) PROVE FALSE
  OBVIOUS
<1> DEFINE c == Head(backlog)
           Others == Clients \ {c}
           f == [fd \in Fds |-> sock[fd]]
<1>1. c \in Clients /\ link[c] = "queued"
  <2>1. backlog \in Seq(Clients)
    BY DEF TypeOK, SocketsTypeOK
  <2>2. c = backlog[1] /\ c \in Clients /\ 1 \in DOMAIN backlog
    BY <2>1, Beheaded
  <2> QED BY <2>2 DEF LinkInv
<1>2. \A fd \in Fds : sock[fd] \in Others
  BY <1>1, OpenConnection
<1>3. \A fd, g \in Fds : fd # g => sock[fd] # sock[g]
  BY DEF LinkInv
<1>4. f \in Injection(Fds, Others)
  BY <1>2, <1>3 DEF Injection, IsInjective
<1>5. IsFiniteSet(Others) /\ Cardinality(Others) = Cardinality(Clients) - 1
  BY <1>1, FS_RemoveElement, EventServersAssumption
<1>6. Cardinality(Fds) <= Cardinality(Others)
  BY <1>4, <1>5, FS_Injection
<1>7. Cardinality(Fds) = MaxFd
  <2>1. MaxFd \in Nat
    BY EventServersAssumption
  <2>2. Cardinality(1..MaxFd) = IF 1 > MaxFd THEN 0 ELSE MaxFd - 1 + 1
    BY <2>1, FS_Interval
  <2> QED BY <2>1, <2>2 DEF Fds
<1>8. Cardinality(Clients) \in Nat
  BY EventServersAssumption, FS_CardinalityType
<1>9. MaxFd \in Nat /\ Cardinality(Clients) <= MaxFd
  BY EventServersAssumption
<1> HIDE DEF Others
<1> QED BY <1>5, <1>6, <1>7, <1>8, <1>9

LEMMA AcceptedFd ==
  ASSUME TypeOK, LinkInv, backlog # <<>> PROVE NewFd \in Fds /\ ~Open(NewFd)
<1> DEFINE Free == {fd \in Fds : ~Open(fd)}
<1>1. Free # {} /\ Free \subseteq Nat /\ \A f \in Free : f \in Nat
  BY SomeFdIsFree DEF Fds
<1>2. PICK f \in Free : \A g \in Free : <<g, f>> \notin OpToRel(<, Nat)
  BY <1>1, NatLessThanWellFounded, WFMin
<1>3. \A g \in Free : f <= g
  <2>1. \A m, n \in Nat : m < n => <<m, n>> \in OpToRel(<, Nat)
    BY DEF OpToRel
  <2>2. \A g \in Free : ~(g < f)
    BY <1>1, <1>2, <2>1
  <2>3. \A m, n \in Nat : ~(m < n) => n <= m
    OBVIOUS
  <2> QED BY <1>1, <2>2, <2>3
<1>4. f \in Fds /\ ~Open(f) /\ \A g \in Fds : ~Open(g) => f <= g
  BY <1>2, <1>3
<1> QED BY <1>4 DEF NewFd

LEMMA HeadOfBacklog ==
  ASSUME TypeOK, LinkInv, backlog # <<>>
  PROVE  /\ Head(backlog) \in Clients /\ link[Head(backlog)] = "queued"
         /\ backlog \in Seq(Clients) /\ Tail(backlog) \in Seq(Clients)
         /\ Len(backlog) \in Nat /\ Len(Tail(backlog)) = Len(backlog) - 1
         /\ \A i \in 1..Len(Tail(backlog)) : /\ i + 1 \in 1..Len(backlog)
                                             /\ Tail(backlog)[i] = backlog[i + 1]
                                             /\ Tail(backlog)[i] # Head(backlog)
<1>1. backlog \in Seq(Clients) /\ Len(backlog) \in Nat
  BY DEF TypeOK, SocketsTypeOK
<1>2. /\ Head(backlog) = backlog[1] /\ Head(backlog) \in Clients /\ Len(backlog) > 0
      /\ Tail(backlog) \in Seq(Clients) /\ Len(Tail(backlog)) = Len(backlog) - 1
      /\ \A i \in 1..(Len(backlog) - 1) : Tail(backlog)[i] = backlog[i + 1]
  BY <1>1, Beheaded
<1>3. DOMAIN backlog = 1..Len(backlog) /\ 1 \in DOMAIN backlog
  BY <1>1, <1>2
<1>4. link[Head(backlog)] = "queued"
  BY <1>2, <1>3 DEF LinkInv
<1>5. \A i \in 1..(Len(backlog) - 1) : i + 1 \in 1..Len(backlog) /\ i + 1 # 1
  BY <1>1, <1>2
<1>6. \A i \in 1..(Len(backlog) - 1) : backlog[i + 1] # backlog[1]
  BY <1>3, <1>5 DEF LinkInv
<1> QED BY <1>1, <1>2, <1>4, <1>5, <1>6

--------------------------------------------------------------------------------
(* The invariant, by client and by descriptor.                              *)
LinkedOK(c) ==
  /\ link[c] = "open" <=> stage[c] \in {"open", "closing", "lost", "broken"}
  /\ link[c] \in {"away", "queued"} => stage[c] = "none"
  /\ stage[c] = "none" => /\ task[c] = "none" /\ buf[c] = <<>> /\ inbox[c] = <<>>
                          /\ c \notin eof \cup paused

StreamOK(c) ==
  /\ Holds(got[c], c, 0) /\ Holds(outq[c], c, Len(got[c]))
  /\ Len(got[c]) + Len(outq[c]) <= sent[c] /\ Len(outq[c]) <= Room
  /\ ended[c] # "reset" =>
       Cut(c, Len(got[c]) + Len(outq[c]), buf[c], inbox[c], inq[c], sent[c])

TaskOK(c) ==
  /\ kind # "streams" => task[c] = "none" /\ inbox[c] = <<>> /\ c \notin eof
  /\ Reactor => stage[c] \in {"none", "open", "closed"}
  /\ kind = "streams" => /\ stage[c] = "open" => task[c] \in {"read", "drain"}
                         /\ stage[c] \in {"closing", "lost", "closed"} =>
                              task[c] \in {"wait_closed", "done"}
  /\ stage[c] \in {"closing", "lost", "closed"} => inbox[c] = <<>> /\ ended[c] # "no"
  /\ stage[c] \in {"broken", "aborted"} \/ task[c] = "failed" => ended[c] = "reset"
  /\ task[c] = "done" => stage[c] = "closed"
  /\ c \in eof => ended[c] # "no"

FlowOK(c) ==
  /\ ~Reactor /\ c \notin paused => Len(buf[c]) <= HighWater
  /\ task[c] = "read" => Len(buf[c]) <= HighWater
  /\ kind = "streams" => Len(buf[c]) <= HighWater + ReadSize

ClientOK(c) == LinkedOK(c) /\ StreamOK(c) /\ TaskOK(c) /\ FlowOK(c)

ConnOK(fd) ==
  /\ reader[fd] \in {sock[fd], NoClient} /\ writer[fd] \in {sock[fd], NoClient}
  /\ "in" \in batch[fd] => reader[fd] # NoClient /\ Readable(sock[fd])
  /\ "out" \in batch[fd] => writer[fd] # NoClient /\ Writable(sock[fd])
  /\ Open(fd) =>
       /\ stage[sock[fd]] # "open" \/ sock[fd] \in eof => reader[fd] = NoClient
       /\ Lost(sock[fd]) => writer[fd] = NoClient
       /\ ~Lost(sock[fd]) => (writer[fd] = sock[fd] <=> buf[sock[fd]] # <<>>)

BacklogOK == /\ \A i \in DOMAIN backlog : link[backlog[i]] = "queued"
             /\ \A i, j \in DOMAIN backlog : i # j => backlog[i] # backlog[j]
             /\ "in" \in batch[Listener] => backlog # <<>>
SocksOK == /\ \A fd, g \in Fds : Open(fd) /\ fd # g => sock[fd] # sock[g]
           /\ \A c \in Clients : link[c] = "open" <=> \E fd \in Fds : sock[fd] = c

LEMMA LinkParts == LinkInv <=> BacklogOK /\ SocksOK /\ \A c \in Clients : LinkedOK(c)
<1>1. LinkInv => BacklogOK /\ SocksOK
  BY DEF LinkInv, BacklogOK, SocksOK
<1>2. LinkInv => \A c \in Clients : LinkedOK(c)
  BY DEF LinkInv, LinkedOK
<1>3. BacklogOK /\ SocksOK /\ (\A c \in Clients : LinkedOK(c)) => LinkInv
  BY DEF LinkInv, BacklogOK, SocksOK, LinkedOK
<1> QED BY <1>1, <1>2, <1>3

LEMMA StreamParts == StreamInv <=> \A c \in Clients : StreamOK(c)
BY DEF StreamInv, StreamOK, Cut

LEMMA TaskParts == TaskInv <=> \A c \in Clients : TaskOK(c)
BY DEF TaskInv, TaskOK

LEMMA FlowParts == FlowInv <=> \A c \in Clients : FlowOK(c)
BY DEF FlowInv, FlowOK

LEMMA ConnParts ==
  NoCallbackOfTheClosed /\ WriterWhileOutput /\ EndedAreUnregistered <=> \A fd \in Fds : ConnOK(fd)
<1>1. ASSUME NoCallbackOfTheClosed, WriterWhileOutput, EndedAreUnregistered, NEW fd \in Fds
      PROVE  ConnOK(fd)
  BY <1>1 DEF NoCallbackOfTheClosed, WriterWhileOutput, EndedAreUnregistered, ConnOK
<1>2. ASSUME \A fd \in Fds : ConnOK(fd)
      PROVE  NoCallbackOfTheClosed /\ WriterWhileOutput /\ EndedAreUnregistered
  BY <1>2 DEF NoCallbackOfTheClosed, WriterWhileOutput, EndedAreUnregistered, ConnOK
<1> QED BY <1>1, <1>2

LEMMA Parts ==
  IInv <=> /\ TypeOK /\ BacklogOK /\ SocksOK
           /\ \A c \in Clients : ClientOK(c)
           /\ \A fd \in Fds : ConnOK(fd)
BY LinkParts, StreamParts, TaskParts, FlowParts, ConnParts DEF IInv, ClientOK

LEMMA PartsNext ==
  ASSUME TypeOK', BacklogOK', SocksOK', \A c \in Clients : ClientOK(c)',
         \A fd \in Fds : ConnOK(fd)'
  PROVE  IInv'
<1>1. LinkInv' /\ StreamInv' /\ TaskInv' /\ FlowInv'
  <2>1. LinkInv'
    BY DEF LinkInv, BacklogOK, SocksOK, ClientOK, LinkedOK
  <2>2. StreamInv'
    BY DEF StreamInv, ClientOK, StreamOK, Cut
  <2>3. TaskInv'
    BY DEF TaskInv, ClientOK, TaskOK
  <2>4. FlowInv'
    BY DEF FlowInv, ClientOK, FlowOK
  <2> QED BY <2>1, <2>2, <2>3, <2>4
<1>2. NoCallbackOfTheClosed' /\ WriterWhileOutput' /\ EndedAreUnregistered'
  BY DEF NoCallbackOfTheClosed, WriterWhileOutput, EndedAreUnregistered, ConnOK
<1> QED BY <1>1, <1>2 DEF IInv

(* The stream of a client after a step, from its queues.                    *)
LEMMA StreamThen ==
  ASSUME NEW c \in Clients, NEW g, NEW o, NEW b, NEW x, NEW i, NEW s,
         g = got'[c], o = outq'[c], b = buf'[c], x = inbox'[c], i = inq'[c], s = sent'[c],
         Holds(g, c, 0), Holds(o, c, Len(g)), Len(g) + Len(o) <= s, Len(o) <= Room,
         ended'[c] # "reset" => Cut(c, Len(g) + Len(o), b, x, i, s)
  PROVE  StreamOK(c)'
BY DEF StreamOK, Holds, Cut

(* The state of one client, and of one descriptor, is left alone.           *)
KeptStream(c) == /\ got'[c] = got[c] /\ outq'[c] = outq[c] /\ buf'[c] = buf[c]
                /\ inbox'[c] = inbox[c] /\ inq'[c] = inq[c] /\ sent'[c] = sent[c]
Kept(c) == /\ KeptStream(c) /\ link'[c] = link[c] /\ ended'[c] = ended[c]
            /\ stage'[c] = stage[c] /\ task'[c] = task[c]
            /\ (c \in eof' <=> c \in eof) /\ (c \in paused' <=> c \in paused)
Alone(fd) == /\ sock'[fd] = sock[fd] /\ reader'[fd] = reader[fd]
             /\ writer'[fd] = writer[fd] /\ batch'[fd] = batch[fd]

LEMMA ClientSame ==
  ASSUME NEW c \in Clients, ClientOK(c), Kept(c), kind' = kind PROVE ClientOK(c)'
<1>1. LinkedOK(c)'
  BY DEF ClientOK, LinkedOK, Kept, KeptStream
<1>2. StreamOK(c)'
  BY DEF ClientOK, StreamOK, Kept, KeptStream, Holds, Cut
<1>3. TaskOK(c)'
  BY DEF ClientOK, TaskOK, Kept, KeptStream, Reactor
<1>4. FlowOK(c)'
  BY DEF ClientOK, FlowOK, Kept, KeptStream, Reactor
<1> QED BY <1>1, <1>2, <1>3, <1>4 DEF ClientOK

LEMMA ConnSame ==
  ASSUME NEW fd \in Fds, ConnOK(fd), Alone(fd), Open(fd) => Kept(sock[fd])
  PROVE  ConnOK(fd)'
<1>1. CASE Open(fd)
  BY <1>1 DEF ConnOK, Open, Alone, Kept, KeptStream, Lost, Readable, Writable
<1>2. CASE ~Open(fd)
  BY <1>2 DEF ConnOK, Open, Alone
<1> QED BY <1>1, <1>2

(* A step of one connection, which keeps its descriptor or loses it.        *)
Only(fd, c) == /\ UNCHANGED <<kind, loop, backlog, ended, sent, got>>
               /\ \A d \in Clients : d # c => Kept(d)
               /\ \A g \in Fds : g # fd => Alone(g)
               /\ batch'[Listener] = batch[Listener]

LEMMA ConnStep ==
  ASSUME IInv, TypeOK', NEW fd \in Fds, NEW c \in Clients, sock[fd] = c, Only(fd, c),
         \/ sock'[fd] = c /\ link'[c] = link[c]
         \/ sock'[fd] = NoClient /\ link'[c] = "gone",
         ClientOK(c)', ConnOK(fd)'
  PROVE  IInv'
<1>1. TypeOK /\ BacklogOK /\ SocksOK
  BY Parts
<1>2. Open(fd) /\ c # NoClient /\ link[c] = "open" /\ \A g \in Fds : g # fd => sock[g] # c
  <2>1. Open(fd) /\ c # NoClient
    BY EventServersAssumption DEF Open
  <2> QED BY <2>1, OpenConnection DEF IInv
<1>3. BacklogOK'
  <2>1. \A i \in DOMAIN backlog : backlog[i] \in Clients /\ link[backlog[i]] = "queued"
    <3>1. backlog \in Seq(Clients)
      BY <1>1 DEF TypeOK, SocketsTypeOK
    <3>2. \A i \in DOMAIN backlog : backlog[i] \in Clients
      BY <3>1
    <3> QED BY <1>1, <3>2 DEF BacklogOK
  <2>2. \A i \in DOMAIN backlog : link'[backlog[i]] = "queued"
    BY <1>2, <2>1 DEF Only, Kept
  <2>3. backlog' = backlog /\ batch'[Listener] = batch[Listener]
    BY DEF Only
  <2> QED BY <1>1, <2>2, <2>3 DEF BacklogOK
<1>4. SocksOK'
  <2>1. \A g \in Fds : g # fd => sock'[g] = sock[g]
    BY DEF Only, Alone
  <2>2. ASSUME NEW f \in Fds, NEW g \in Fds, f # g, sock'[f] # NoClient PROVE sock'[f] # sock'[g]
    BY <1>1, <1>2, <2>1, <2>2 DEF SocksOK, Open
  <2>3. ASSUME NEW d \in Clients PROVE link'[d] = "open" <=> \E g \in Fds : sock'[g] = d
    <3>1. CASE d # c
      <4>1. link'[d] = link[d] /\ NoClient # d
        BY <3>1, EventServersAssumption DEF Only, Kept
      <4>2. \A g \in Fds : sock'[g] = d <=> sock[g] = d
        BY <2>1, <3>1, <4>1
      <4> QED BY <1>1, <4>1, <4>2 DEF SocksOK
    <3>2. CASE d = c
      BY <1>2, <2>1, <3>2
    <3> QED BY <3>1, <3>2
  <2> QED BY <2>2, <2>3 DEF SocksOK, Open
<1>5. ASSUME NEW d \in Clients PROVE ClientOK(d)'
  <2>1. CASE d # c
    <3>1. ClientOK(d) /\ Kept(d) /\ kind' = kind
      BY <2>1, Parts DEF Only
    <3> QED BY <3>1, ClientSame
  <2> QED BY <2>1
<1>6. ASSUME NEW g \in Fds PROVE ConnOK(g)'
  <2>1. CASE g # fd
    <3>1. ConnOK(g) /\ Alone(g)
      BY <2>1, Parts DEF Only
    <3>2. Open(g) => Kept(sock[g])
      <4>1. Open(g) => sock[g] \in Clients /\ sock[g] # c
        BY <1>1, <1>2, <2>1 DEF TypeOK, Open
      <4> QED BY <4>1 DEF Only
    <3> QED BY <3>1, <3>2, ConnSame
  <2> QED BY <2>1
<1> QED BY <1>3, <1>4, <1>5, <1>6, PartsNext

(* A step of a coroutine that does not touch the connection.                *)
LEMMA TaskStep ==
  ASSUME IInv, TypeOK', NEW c \in Clients,
         UNCHANGED <<sockets, kind, loop, sock, reader, writer, batch, buf, stage, eof, paused>>,
         \A d \in Clients : d # c => task'[d] = task[d] /\ inbox'[d] = inbox[d],
         ClientOK(c)'
  PROVE  IInv'
<1>1. BacklogOK' /\ SocksOK'
  BY Parts DEF BacklogOK, SocksOK, Open, sockets
<1>2. ASSUME NEW d \in Clients PROVE ClientOK(d)'
  <2>1. CASE d # c
    <3>1. ClientOK(d) /\ Kept(d) /\ kind' = kind
      BY <2>1, Parts DEF Kept, KeptStream, sockets
    <3> QED BY <3>1, ClientSame
  <2> QED BY <2>1
<1>3. ASSUME NEW fd \in Fds PROVE ConnOK(fd)'
  BY Parts DEF ConnOK, Open, Lost, Readable, Writable, sockets
<1> QED BY <1>1, <1>2, <1>3, PartsNext

--------------------------------------------------------------------------------
(* Steps of a client: only what it has in the sockets changes.              *)
LEMMA ClientMoves ==
  ASSUME IInv, TypeOK', NEW c \in Clients, UNCHANGED <<kind, server>>,
         \A d \in Clients : d # c => Kept(d), BacklogOK', StreamOK(c)',
         (link[c] \in {"open", "gone"} \/ link'[c] \in {"open", "gone"}) => link'[c] = link[c],
         ended[c] # "no" => ended'[c] # "no", ended[c] = "reset" => ended'[c] = "reset",
         Readable(c) => Readable(c)', Writable(c) => Writable(c)'
  PROVE  IInv'
<1> USE DEF server, streams
<1>1. SocksOK'
  <2>1. \A d \in Clients : link'[d] = "open" <=> link[d] = "open"
    BY DEF Kept
  <2> QED BY <2>1, Parts DEF SocksOK, Open
<1>2. ClientOK(c)'
  <2>1. LinkedOK(c)'
    <3>1. link'[c] \in {"away", "queued", "open", "gone"} /\ link[c] \in {"away", "queued", "open", "gone"}
      BY Parts DEF TypeOK, SocketsTypeOK
    <3> QED BY <3>1, Parts DEF ClientOK, LinkedOK
  <2>2. TaskOK(c)'
    BY Parts DEF ClientOK, TaskOK, Reactor
  <2>3. FlowOK(c)'
    BY Parts DEF ClientOK, FlowOK, Reactor
  <2> QED BY <2>1, <2>2, <2>3 DEF ClientOK
<1>3. ASSUME NEW d \in Clients PROVE ClientOK(d)'
  <2>1. CASE d # c
    BY <2>1, Parts, ClientSame
  <2> QED BY <1>2, <2>1
<1>4. ASSUME NEW fd \in Fds PROVE ConnOK(fd)'
  <2>1. ConnOK(fd) /\ Alone(fd)
    BY Parts DEF Alone
  <2>2. CASE sock[fd] = c
    BY <2>1, <2>2 DEF ConnOK, Open, Lost
  <2>3. CASE sock[fd] # c
    <3>1. Open(fd) => Kept(sock[fd])
      BY <2>3, Parts, Types DEF Typed
    <3> QED BY <2>1, <3>1, ConnSame
  <2> QED BY <2>2, <2>3
<1> QED BY <1>1, <1>3, <1>4, PartsNext

LEMMA TypeClients ==
  ASSUME TypeOK, NEW c \in Clients, ClientStep(c) \/ ClientReads(c) PROVE TypeOK'
<1>1. SocketsTypeOK /\ UNCHANGED <<kind, server>>
  BY DEF TypeOK, ClientStep, ClientReads
<1>2. SocketsTypeOK'
  BY <1>1, TypeConnect, TypeSend, TypeReceive, TypeFinReset DEF ClientStep, ClientReads
<1> QED BY <1>1, <1>2 DEF TypeOK, server, streams

(* The others keep what they have.                                          *)
LEMMA OthersKeep ==
  ASSUME TypeOK, NEW c \in Clients, ClientStep(c) \/ ClientReads(c),
         NEW d \in Clients, d # c
  PROVE  Kept(d)
<1>1. UNCHANGED <<buf, inbox, stage, task, eof, paused>>
  BY DEF ClientStep, ClientReads, server, streams
<1>2. /\ link'[d] = link[d] /\ ended'[d] = ended[d] /\ sent'[d] = sent[d] /\ inq'[d] = inq[d]
      /\ outq'[d] = outq[d] /\ got'[d] = got[d]
  <2>1. CASE Connect(c)
    BY <2>1 DEF Connect, TypeOK, SocketsTypeOK
  <2>2. CASE Send(c)
    BY <2>2 DEF Send, TypeOK, SocketsTypeOK
  <2>3. CASE Fin(c)
    BY <2>3 DEF Fin, TypeOK, SocketsTypeOK
  <2>4. CASE Reset(c)
    BY <2>4 DEF Reset, TypeOK, SocketsTypeOK
  <2>5. CASE Receive(c)
    BY <2>5 DEF Receive, TypeOK, SocketsTypeOK
  <2> QED BY <2>1, <2>2, <2>3, <2>4, <2>5 DEF ClientStep, ClientReads
<1> QED BY <1>1, <1>2 DEF Kept, KeptStream

(* One unit more from the client.                                           *)
LEMMA SendAppends ==
  ASSUME TypeOK, NEW c \in Clients, Send(c)
  PROVE  /\ ended[c] = "no" /\ sent[c] \in Nat /\ Len(inq[c]) \in Nat
         /\ sent'[c] = sent[c] + 1 /\ Len(inq'[c]) = Len(inq[c]) + 1
         /\ \A n \in Nat : n + Len(inq[c]) = sent[c] /\ Holds(inq[c], c, n) => Holds(inq'[c], c, n)
         /\ \A d \in Clients : d # c => inq'[d] = inq[d] /\ sent'[d] = sent[d]
         /\ link' = link /\ outq' = outq /\ got' = got /\ ended' = ended
<1> DEFINE u == <<c, sent[c] + 1>>
<1>1. sent[c] \in Nat /\ MaxUnits[c] \in Nat /\ sent[c] + 1 <= MaxUnits[c]
  <2>1. sent[c] \in Nat /\ sent[c] < MaxUnits[c]
    BY DEF TypeOK, SocketsTypeOK, Send
  <2>2. MaxUnits[c] \in Nat
    BY SocketsAssumption
  <2> QED BY <2>1, <2>2
<1>2. u \in Unit /\ inq[c] \in Seq(Unit)
  BY <1>1 DEF Unit, TypeOK, SocketsTypeOK
<1>3. inq'[c] = Append(inq[c], u) /\ sent'[c] = sent[c] + 1
  BY DEF Send, TypeOK, SocketsTypeOK
<1>4. \A d \in Clients : d # c => inq'[d] = inq[d] /\ sent'[d] = sent[d]
  BY DEF Send, TypeOK, SocketsTypeOK
<1>5. Len(inq'[c]) = Len(inq[c]) + 1 /\ Len(inq[c]) \in Nat
  BY <1>2, <1>3, Appended
<1>6. ASSUME NEW n \in Nat, n + Len(inq[c]) = sent[c], Holds(inq[c], c, n)
      PROVE  Holds(inq'[c], c, n)
  <2>1. u = <<c, n + Len(inq[c]) + 1>>
    BY <1>6
  <2> QED BY <1>2, <1>3, <1>6, <2>1, HoldsAppended
<1> QED BY <1>1, <1>3, <1>4, <1>5, <1>6 DEF Send

(* The client reads the next unit of its stream.                            *)
LEMMA ReceiveTakes ==
  ASSUME TypeOK, NEW c \in Clients, Receive(c), Holds(got[c], c, 0), Holds(outq[c], c, Len(got[c]))
  PROVE  /\ got'[c] = Append(got[c], <<c, Len(got[c]) + 1>>)
         /\ Len(got'[c]) = Len(got[c]) + 1 /\ Len(got[c]) \in Nat
         /\ Len(outq'[c]) = Len(outq[c]) - 1 /\ Len(outq[c]) \in Nat /\ Len(outq[c]) > 0
         /\ Holds(got'[c], c, 0) /\ Holds(outq'[c], c, Len(got'[c]))
         /\ got' = [got EXCEPT ![c] = Append(got[c], <<c, Len(got[c]) + 1>>)]
         /\ \A d \in Clients : d # c => got'[d] = got[d] /\ outq'[d] = outq[d]
         /\ link' = link /\ inq' = inq /\ sent' = sent /\ ended' = ended
<1> DEFINE u == Head(outq[c])
<1>1. outq[c] \in Seq(Unit) /\ got[c] \in Seq(Unit) /\ Len(got[c]) \in Nat /\ outq[c] # <<>>
  BY DEF Receive, TypeOK, SocketsTypeOK
<1>2. /\ u \in Unit /\ Len(Tail(outq[c])) = Len(outq[c]) - 1
      /\ Len(outq[c]) > 0 /\ Len(outq[c]) \in Nat
  BY <1>1, Beheaded
<1>3. u = <<c, Len(got[c]) + 1>> /\ Holds(Tail(outq[c]), c, Len(got[c]) + 1)
  BY <1>1, HoldsBeheaded
<1>4. got'[c] = Append(got[c], u) /\ outq'[c] = Tail(outq[c])
  BY DEF Receive, TypeOK, SocketsTypeOK
<1>5. got' = [got EXCEPT ![c] = Append(got[c], u)]
  BY DEF Receive, TypeOK, SocketsTypeOK
<1>6. \A d \in Clients : d # c => got'[d] = got[d] /\ outq'[d] = outq[d]
  BY DEF Receive, TypeOK, SocketsTypeOK
<1> HIDE DEF u
<1>7. Len(got'[c]) = Len(got[c]) + 1
  BY <1>1, <1>2, <1>4, Appended
<1>8. Holds(got'[c], c, 0)
  <2>1. u = <<c, 0 + Len(got[c]) + 1>>
    BY <1>1, <1>3
  <2> QED BY <1>1, <1>2, <1>4, <2>1, HoldsAppended
<1> QED BY <1>1, <1>2, <1>3, <1>4, <1>5, <1>6, <1>7, <1>8 DEF Receive

LEMMA OneOver == \A m, n \in Nat : (m + 1) + (n - 1) = m + n
OBVIOUS

LEMMA OneMore == \A m, b, x, i, s \in Nat : m + b + x + i = s => m + b + x + (i + 1) = s + 1
OBVIOUS

LEMMA PartOf == \A m, n, s \in Nat : m + n <= s => m <= s /\ m + 0 <= s /\ m + n <= s + 1
OBVIOUS

LEMMA StepSend ==
  ASSUME IInv, NEW c \in Clients, Send(c), UNCHANGED <<kind, server>> PROVE IInv'
<1>1. TypeOK /\ ClientStep(c) /\ TypeOK' /\ \A d \in Clients : d # c => Kept(d)
  BY TypeClients, OthersKeep DEF ClientStep, IInv
<1>2. /\ ended[c] = "no" /\ sent[c] \in Nat /\ Len(inq[c]) \in Nat
      /\ sent'[c] = sent[c] + 1 /\ Len(inq'[c]) = Len(inq[c]) + 1
      /\ \A n \in Nat : n + Len(inq[c]) = sent[c] /\ Holds(inq[c], c, n) => Holds(inq'[c], c, n)
      /\ link' = link /\ outq' = outq /\ got' = got /\ ended' = ended
  BY <1>1, SendAppends
<1>3. UNCHANGED <<backlog, batch, buf, inbox>>
  BY DEF Send, server, streams
<1>4. Typed /\ StreamOK(c)
  BY <1>1, Types, Parts DEF ClientOK
<1>5. PICK m \in Nat, b \in Nat, x \in Nat, i \in Nat :
        /\ m = Len(got[c]) + Len(outq[c]) /\ b = Len(buf[c]) /\ x = Len(inbox[c])
        /\ i = Len(inq[c])
  <2>1. /\ Len(got[c]) + Len(outq[c]) \in Nat /\ Len(buf[c]) \in Nat /\ Len(inbox[c]) \in Nat
        /\ Len(inq[c]) \in Nat
    BY <1>4, SumsOfLengths DEF Typed
  <2> QED BY <2>1, Zenon
<1>6. Cut(c, m, buf[c], inbox[c], inq[c], sent[c]) /\ m <= sent[c]
  BY <1>2, <1>4, <1>5 DEF StreamOK
<1>7. Holds(inq[c], c, m + b + x) /\ (m + b + x) + i = sent[c]
  BY <1>5, <1>6 DEF Cut
<1>8. Holds(inq'[c], c, m + b + x) /\ m + b + x + (i + 1) = sent[c] + 1
  <2>1. m + b + x + (i + 1) = sent[c] + 1
    BY <1>2, <1>7, OneMore
  <2> PICK p \in Nat : p = m + b + x
    OBVIOUS
  <2>2. Holds(inq[c], c, p) /\ p + Len(inq[c]) = sent[c]
    BY <1>5, <1>7
  <2>3. Holds(inq'[c], c, p)
    BY <1>2, <2>2
  <2> QED BY <2>1, <2>3
<1>9. Cut(c, m, buf[c], inbox[c], inq'[c], sent'[c])
  BY <1>2, <1>5, <1>6, <1>8 DEF Cut
<1>10. StreamOK(c)'
  <2>1. m <= sent'[c]
    BY <1>2, <1>6
  <2> QED BY <1>2, <1>3, <1>4, <1>5, <1>9, <2>1 DEF StreamOK, Holds, Cut
<1>11. Readable(c)' /\ (Writable(c) => Writable(c)')
  <2>1. inq'[c] # <<>>
    BY <1>2
  <2> QED BY <1>2, <2>1 DEF Readable, Writable
<1>12. BacklogOK'
  BY <1>2, <1>3, Parts DEF BacklogOK
<1> QED BY <1>1, <1>2, <1>10, <1>11, <1>12, ClientMoves

LEMMA StepReceive ==
  ASSUME IInv, NEW c \in Clients, Receive(c), UNCHANGED <<kind, server>> PROVE IInv'
<1>1. TypeOK /\ ClientReads(c) /\ TypeOK' /\ \A d \in Clients : d # c => Kept(d)
  BY TypeClients, OthersKeep DEF ClientReads, IInv
<1>2. Typed /\ StreamOK(c)
  BY <1>1, Types, Parts DEF ClientOK
<1>3. /\ Len(got'[c]) = Len(got[c]) + 1 /\ Len(got[c]) \in Nat
      /\ Len(outq'[c]) = Len(outq[c]) - 1 /\ Len(outq[c]) \in Nat /\ Len(outq[c]) > 0
      /\ Holds(got'[c], c, 0) /\ Holds(outq'[c], c, Len(got'[c]))
      /\ link' = link /\ inq' = inq /\ sent' = sent /\ ended' = ended
  BY <1>1, <1>2, ReceiveTakes DEF StreamOK
<1>4. UNCHANGED <<backlog, batch, buf, inbox>>
  BY DEF Receive, server, streams
<1>5. Len(got'[c]) + Len(outq'[c]) = Len(got[c]) + Len(outq[c])
  BY <1>3, OneOver
<1>6. Len(outq'[c]) <= Room /\ (Len(outq[c]) < Room => Len(outq'[c]) < Room)
  <2>1. Room \in Nat /\ Len(outq[c]) <= Room
    BY <1>2, SocketsAssumption DEF StreamOK
  <2> QED BY <1>3, <2>1
<1>7. StreamOK(c)'
  BY <1>2, <1>3, <1>4, <1>5, <1>6 DEF StreamOK, Holds, Cut
<1>8. (Readable(c) => Readable(c)') /\ (Writable(c) => Writable(c)')
  BY <1>3, <1>6 DEF Readable, Writable
<1>9. BacklogOK'
  BY <1>3, <1>4, Parts DEF BacklogOK
<1> QED BY <1>1, <1>3, <1>7, <1>8, <1>9, ClientMoves

LEMMA StepFin ==
  ASSUME IInv, NEW c \in Clients, Fin(c), UNCHANGED <<kind, server>> PROVE IInv'
<1>1. TypeOK /\ ClientStep(c) /\ TypeOK' /\ \A d \in Clients : d # c => Kept(d)
  BY TypeClients, OthersKeep DEF ClientStep, IInv
<1>2. /\ ended'[c] = "fin" /\ ended[c] = "no"
      /\ UNCHANGED <<link, backlog, sent, inq, outq, got, batch, buf, inbox>>
  BY <1>1 DEF Fin, TypeOK, SocketsTypeOK, server, streams
<1>3. StreamOK(c)'
  BY <1>2, Parts DEF ClientOK, StreamOK, Holds, Cut
<1>4. BacklogOK'
  BY <1>2, Parts DEF BacklogOK
<1> QED BY <1>1, <1>2, <1>3, <1>4, ClientMoves DEF Readable, Writable

LEMMA StepReset ==
  ASSUME IInv, NEW c \in Clients, Reset(c), UNCHANGED <<kind, server>> PROVE IInv'
<1>1. TypeOK /\ ClientStep(c) /\ TypeOK' /\ \A d \in Clients : d # c => Kept(d)
  BY TypeClients, OthersKeep DEF ClientStep, IInv
<1>2. /\ ended'[c] = "reset" /\ outq'[c] = <<>>
      /\ UNCHANGED <<link, backlog, sent, inq, got, batch, buf, inbox>>
  BY <1>1 DEF Reset, TypeOK, SocketsTypeOK, server, streams
<1>3. StreamOK(c)'
  <2>1. Typed /\ StreamOK(c) /\ Len(outq'[c]) = 0 /\ 0 <= Room
    BY <1>1, <1>2, Types, Parts, SocketsAssumption DEF ClientOK
  <2>2. Len(got[c]) + 0 <= sent[c]
    BY <2>1, PartOf DEF StreamOK, Typed
  <2>3. Holds(outq'[c], c, Len(got[c]))
    BY <1>2, HoldsNothing
  <2> QED BY <1>2, <2>1, <2>2, <2>3 DEF StreamOK, Holds
<1>4. BacklogOK'
  BY <1>2, Parts DEF BacklogOK
<1> QED BY <1>1, <1>2, <1>3, <1>4, ClientMoves DEF Readable, Writable

LEMMA StepConnect ==
  ASSUME IInv, NEW c \in Clients, Connect(c), UNCHANGED <<kind, server>> PROVE IInv'
<1>1. TypeOK /\ TypeOK' /\ \A d \in Clients : d # c => Kept(d)
  <2>1. TypeOK
    BY DEF IInv
  <2>2. SocketsTypeOK'
    BY <2>1, TypeConnect DEF TypeOK
  <2>3. TypeOK'
    BY <2>1, <2>2 DEF TypeOK, server, streams
  <2>4. ASSUME NEW d \in Clients, d # c PROVE Kept(d)
    BY <2>1, <2>4 DEF Connect, TypeOK, SocketsTypeOK, server, streams, Kept, KeptStream
  <2> QED BY <2>1, <2>3, <2>4
<1>2. /\ link[c] = "away" /\ link'[c] = "queued" /\ backlog' = Append(backlog, c)
      /\ UNCHANGED <<ended, sent, inq, outq, got, batch, buf, inbox>>
  BY <1>1 DEF Connect, TypeOK, SocketsTypeOK, server, streams
<1>3. StreamOK(c)'
  BY <1>2, Parts DEF ClientOK, StreamOK, Holds, Cut
<1>4. BacklogOK'
  <2>1. /\ backlog \in Seq(Clients) /\ Len(backlog) \in Nat /\ DOMAIN backlog = 1..Len(backlog)
        /\ backlog' \in Seq(Clients) /\ Len(backlog') = Len(backlog) + 1
        /\ DOMAIN backlog' = 1..Len(backlog')
        /\ \A i \in 1..Len(backlog) : backlog'[i] = backlog[i]
        /\ backlog'[Len(backlog) + 1] = c
    BY <1>1, <1>2, Appended DEF TypeOK, SocketsTypeOK
  <2>2. \A i \in DOMAIN backlog : link[backlog[i]] = "queued" /\ backlog[i] \in Clients
    BY <2>1, Parts DEF BacklogOK
  <2>3. \A i \in DOMAIN backlog : backlog[i] # c /\ link'[backlog[i]] = "queued"
    BY <1>1, <1>2, <2>2 DEF Kept
  <2>4. \A i \in DOMAIN backlog' : i \in DOMAIN backlog \/ i = Len(backlog) + 1
    BY <2>1
  <2>5. \A i \in DOMAIN backlog' : link'[backlog'[i]] = "queued"
    BY <1>2, <2>1, <2>3, <2>4
  <2>6. \A i, j \in DOMAIN backlog' : i # j => backlog'[i] # backlog'[j]
    BY <2>1, <2>3, <2>4, Parts DEF BacklogOK
  <2>7. backlog' # <<>>
    BY <2>1
  <2> QED BY <2>5, <2>6, <2>7 DEF BacklogOK
<1> QED BY <1>1, <1>2, <1>3, <1>4, ClientMoves DEF Readable, Writable

--------------------------------------------------------------------------------
(* The loop: it asks the selector, it is stopped, it accepts.               *)
LEMMA StepAsk == ASSUME IInv, Ask PROVE IInv'
<1>1. TypeOK /\ Listener \notin Fds
  BY EventServersAssumption DEF IInv
<1>2. batch' \in [Fds \cup {Listener} -> SUBSET {"in", "out"}]
  <2>1. \A fd \in Fds \cup {Listener} : Events[fd] \subseteq {"in", "out"}
    BY DEF Events
  <2> QED BY <2>1 DEF Ask, Events
<1>3. TypeOK'
  BY <1>1, <1>2 DEF TypeOK, SocketsTypeOK, Ask, sockets, streams
<1>4. BacklogOK' /\ SocksOK'
  <2>1. "in" \in batch'[Listener] => backlog # <<>>
    BY DEF Ask, Events
  <2> QED BY <2>1, Parts DEF BacklogOK, SocksOK, Open, Ask, sockets
<1>5. ASSUME NEW c \in Clients PROVE ClientOK(c)'
  <2>1. ClientOK(c) /\ Kept(c) /\ kind' = kind
    BY Parts DEF Ask, Kept, KeptStream, sockets, streams
  <2> QED BY <2>1, ClientSame
<1>6. ASSUME NEW fd \in Fds PROVE ConnOK(fd)'
  <2>1. /\ "in" \in batch'[fd] => reader[fd] # NoClient /\ Readable(sock[fd])
        /\ "out" \in batch'[fd] => writer[fd] # NoClient /\ Writable(sock[fd])
    BY <1>1 DEF Ask, Events
  <2>2. ConnOK(fd) /\ UNCHANGED <<sock, reader, writer, stage, buf, eof, inq, outq, ended>>
    BY Parts DEF Ask, sockets, streams
  <2> QED BY <2>1, <2>2 DEF ConnOK, Open, Lost, Readable, Writable
<1> QED BY <1>3, <1>4, <1>5, <1>6, PartsNext

LEMMA StepStop == ASSUME IInv, Stop PROVE IInv'
<1>1. TypeOK /\ Listener \notin Fds
  BY EventServersAssumption DEF IInv
<1>2. TypeOK'
  <2>1. SocketsTypeOK'
    BY <1>1 DEF TypeOK, SocketsTypeOK, Stop
  <2>2. batch' \in [Fds \cup {Listener} -> SUBSET {"in", "out"}]
    BY <1>1 DEF TypeOK, Stop
  <2> QED BY <1>1, <2>1, <2>2 DEF TypeOK, Stop, streams
<1>3. \A c \in Clients : /\ link[c] # "queued" => link'[c] = link[c] /\ ended'[c] = ended[c]
                         /\ link[c] = "queued" => link'[c] = "gone" /\ ended'[c] = "reset"
  BY DEF Stop
<1>4. BacklogOK' /\ SocksOK'
  <2>1. batch'[Listener] = {} /\ backlog' = <<>>
    BY <1>1 DEF Stop, TypeOK
  <2>2. \A c \in Clients : link'[c] = "open" <=> link[c] = "open"
    BY <1>3
  <2>3. sock' = sock
    BY DEF Stop
  <2> QED BY <2>1, <2>2, <2>3, Parts DEF BacklogOK, SocksOK, Open
<1>5. ASSUME NEW c \in Clients PROVE Kept(c) \/ link[c] = "queued"
  BY <1>3 DEF Stop, Kept, KeptStream, streams
<1>6. ASSUME NEW c \in Clients PROVE ClientOK(c)'
  <2>1. ClientOK(c) /\ UNCHANGED <<kind, stage, task, buf, inbox, eof, paused, got, outq, sent>>
    BY Parts DEF Stop, streams
  <2>2. CASE link[c] # "queued"
    BY <1>5, <2>1, <2>2, ClientSame
  <2>3. CASE link[c] = "queued"
    <3>1. link'[c] = "gone" /\ ended'[c] = "reset" /\ stage[c] = "none" /\ task[c] = "none"
      BY <1>3, <2>1, <2>3 DEF ClientOK, LinkedOK
    <3>2. LinkedOK(c)' /\ StreamOK(c)'
      BY <2>1, <3>1 DEF ClientOK, LinkedOK, StreamOK, Holds
    <3>3. TaskOK(c)' /\ FlowOK(c)'
      BY <2>1, <3>1 DEF ClientOK, TaskOK, FlowOK, Reactor
    <3> QED BY <3>2, <3>3 DEF ClientOK
  <2> QED BY <2>2, <2>3
<1>7. ASSUME NEW fd \in Fds PROVE ConnOK(fd)'
  <2>1. ConnOK(fd) /\ Alone(fd)
    BY <1>1, Parts DEF Stop, Alone, TypeOK
  <2>2. Open(fd) => Kept(sock[fd])
    <3>1. Open(fd) => sock[fd] \in Clients /\ link[sock[fd]] = "open"
      BY OpenConnection DEF IInv
    <3> QED BY <1>5, <3>1
  <2> QED BY <2>1, <2>2, ConnSame
<1> QED BY <1>2, <1>4, <1>6, <1>7, PartsNext

(* The accepted client and its descriptor, named.                           *)
Accepting(fd, c) ==
  /\ link[c] = "queued" /\ stage[c] = "none" /\ ~Open(fd)
  /\ backlog' = Tail(backlog) /\ sock' = [sock EXCEPT ![fd] = c]
  /\ link' = [link EXCEPT ![c] = "open"] /\ reader' = [reader EXCEPT ![fd] = c]
  /\ stage' = [stage EXCEPT ![c] = "open"]
  /\ task' = [task EXCEPT ![c] = IF kind = "streams" THEN "read" ELSE @]
  /\ batch' = [batch EXCEPT ![Listener] = IF Len(backlog) > 1 THEN {"in"} ELSE {}]
  /\ UNCHANGED <<kind, loop, ended, sent, inq, outq, got, writer, buf, inbox, eof, paused>>

LEMMA Accepts ==
  ASSUME IInv, Accept
  PROVE  /\ backlog # <<>> /\ NewFd \in Fds /\ Head(backlog) \in Clients
         /\ Accepting(NewFd, Head(backlog))
<1>1. TypeOK /\ LinkInv /\ backlog # <<>>
  <2>1. "in" \in batch[Listener]
    BY DEF Accept
  <2> QED BY <2>1 DEF IInv, LinkInv
<1>2. /\ Head(backlog) \in Clients /\ link[Head(backlog)] = "queued" /\ NewFd \in Fds
      /\ ~Open(NewFd)
  BY <1>1, HeadOfBacklog, AcceptedFd
<1>3. stage[Head(backlog)] = "none"
  BY <1>1, <1>2 DEF LinkInv
<1> QED BY <1>1, <1>2, <1>3 DEF Accept, ConnectionMade, NewFd, Accepting

LEMMA StepAccepting ==
  ASSUME IInv, backlog # <<>>, NEW fd \in Fds, NEW c \in Clients, c = Head(backlog),
         Accepting(fd, c)
  PROVE  IInv'
<1>1. TypeOK /\ LinkInv /\ Listener \notin Fds /\ NoClient \notin Clients /\ backlog # <<>>
  BY EventServersAssumption DEF IInv
<1>2. /\ c \in Clients /\ link[c] = "queued" /\ stage[c] = "none" /\ fd \in Fds /\ ~Open(fd)
  BY DEF Accepting
<1>3. /\ backlog' = Tail(backlog) /\ sock' = [sock EXCEPT ![fd] = c]
      /\ link' = [link EXCEPT ![c] = "open"] /\ reader' = [reader EXCEPT ![fd] = c]
      /\ stage' = [stage EXCEPT ![c] = "open"]
      /\ task' = [task EXCEPT ![c] = IF kind = "streams" THEN "read" ELSE @]
      /\ batch' = [batch EXCEPT ![Listener] = IF Len(backlog) > 1 THEN {"in"} ELSE {}]
      /\ UNCHANGED <<kind, loop, ended, sent, inq, outq, got, writer, buf, inbox, eof, paused>>
  BY DEF Accepting
<1>4. /\ backlog \in Seq(Clients) /\ Len(backlog) \in Nat
      /\ backlog' \in Seq(Clients) /\ Len(backlog') = Len(backlog) - 1
      /\ \A i \in 1..Len(backlog') : /\ i + 1 \in 1..Len(backlog)
                                     /\ backlog'[i] = backlog[i + 1] /\ backlog'[i] # c
  BY <1>1, <1>3, HeadOfBacklog
<1>5. TypeOK'
  <2>1. SocketsTypeOK'
    <3>1. link' \in [Clients -> {"away", "queued", "open", "gone"}]
      BY <1>1, <1>2, <1>3 DEF TypeOK, SocketsTypeOK
    <3> QED BY <1>1, <1>3, <1>4, <3>1 DEF TypeOK, SocketsTypeOK
  <2>2. /\ sock' \in [Fds -> Clients \cup {NoClient}]
        /\ reader' \in [Fds -> Clients \cup {NoClient}]
        /\ batch' \in [Fds \cup {Listener} -> SUBSET {"in", "out"}]
    BY <1>1, <1>2, <1>3 DEF TypeOK
  <2>3. stage' \in [Clients -> Stages] /\ task' \in [Clients -> Tasks]
    BY <1>1, <1>2, <1>3 DEF TypeOK, Stages, Tasks
  <2> QED BY <1>1, <1>3, <2>1, <2>2, <2>3 DEF TypeOK, Stages, Tasks
<1>6. \A d \in Clients : d # c => Kept(d)
  BY <1>1, <1>2, <1>3 DEF TypeOK, SocketsTypeOK, Kept, KeptStream
<1>7. link'[c] = "open" /\ stage'[c] = "open" /\ sock'[fd] = c /\ reader'[fd] = c
  BY <1>1, <1>2, <1>3 DEF TypeOK, SocketsTypeOK
<1>8. \A g \in Fds : g # fd => Alone(g)
  BY <1>1, <1>2, <1>3 DEF TypeOK, Alone
<1>9. BacklogOK'
  <2>1. DOMAIN backlog' = 1..Len(backlog') /\ DOMAIN backlog = 1..Len(backlog)
    BY <1>4
  <2>2. \A i \in DOMAIN backlog' : link'[backlog'[i]] = "queued"
    <3>1. \A i \in DOMAIN backlog' : link[backlog'[i]] = "queued" /\ backlog'[i] \in Clients
      BY <1>4, <2>1, Parts DEF BacklogOK
    <3> QED BY <1>4, <1>6, <2>1, <3>1 DEF Kept
  <2>3. \A i, j \in DOMAIN backlog' : i # j => backlog'[i] # backlog'[j]
    <3> SUFFICES ASSUME NEW i \in 1..Len(backlog'), NEW j \in 1..Len(backlog'), i # j
                 PROVE  backlog'[i] # backlog'[j]
      BY <2>1
    <3>1. i + 1 # j + 1 /\ i + 1 \in DOMAIN backlog /\ j + 1 \in DOMAIN backlog
      BY <1>4, <2>1
    <3> QED BY <1>4, <3>1, Parts DEF BacklogOK
  <2>4. "in" \in batch'[Listener] => backlog' # <<>>
    <3>1. batch'[Listener] = IF Len(backlog) > 1 THEN {"in"} ELSE {}
      BY <1>1, <1>3 DEF TypeOK
    <3> QED BY <1>4, <3>1
  <2> QED BY <2>2, <2>3, <2>4 DEF BacklogOK
<1>10. SocksOK'
  <2>1. \A g \in Fds : Open(g) => sock[g] # c
    BY <1>1, <1>2, OpenConnection
  <2>2. \A g \in Fds : g # fd => sock'[g] = sock[g]
    BY <1>8 DEF Alone
  <2>3. ASSUME NEW f \in Fds, NEW g \in Fds, f # g, sock'[f] # NoClient PROVE sock'[f] # sock'[g]
    BY <1>1, <1>2, <1>7, <2>1, <2>2, <2>3, Parts DEF SocksOK, Open
  <2>4. ASSUME NEW d \in Clients PROVE link'[d] = "open" <=> \E g \in Fds : sock'[g] = d
    <3>1. CASE d = c
      BY <1>2, <1>7, <3>1
    <3>2. CASE d # c
      <4>1. link'[d] = link[d] /\ NoClient # d
        BY <1>1, <1>6, <3>2 DEF Kept
      <4>2. \A g \in Fds : sock'[g] = d <=> sock[g] = d
        BY <1>2, <1>7, <2>2, <3>2, <4>1 DEF Open
      <4> QED BY <4>1, <4>2, Parts DEF SocksOK
    <3> QED BY <3>1, <3>2
  <2> QED BY <2>3, <2>4 DEF SocksOK, Open
<1>11. ClientOK(c)'
  <2>1. /\ task[c] = "none" /\ buf[c] = <<>> /\ inbox[c] = <<>> /\ c \notin eof \cup paused
        /\ StreamOK(c)
    BY <1>2, Parts DEF ClientOK, LinkedOK
  <2>2. task'[c] = IF kind = "streams" THEN "read" ELSE "none"
    BY <1>1, <1>2, <1>3, <2>1 DEF TypeOK
  <2>3. LinkedOK(c)'
    BY <1>7 DEF LinkedOK
  <2>4. StreamOK(c)'
    BY <1>3, <2>1 DEF StreamOK, Holds, Cut
  <2>5. TaskOK(c)'
    BY <1>3, <1>7, <2>1, <2>2 DEF TaskOK, Reactor
  <2>6. FlowOK(c)'
    <3>1. /\ HighWater \in Nat /\ ReadSize \in Nat /\ Len(buf'[c]) = 0
          /\ 0 <= HighWater /\ 0 <= HighWater + ReadSize
      BY <1>3, <2>1, EventServersAssumption
    <3> QED BY <3>1 DEF FlowOK
  <2> QED BY <2>3, <2>4, <2>5, <2>6 DEF ClientOK
<1>12. ConnOK(fd)'
  <2>1. /\ writer[fd] = NoClient /\ "in" \notin batch[fd] /\ "out" \notin batch[fd]
    BY <1>2, Parts DEF ConnOK, Open
  <2>2. writer'[fd] = NoClient /\ batch'[fd] = batch[fd] /\ buf'[c] = <<>> /\ c \notin eof'
    <3>1. buf[c] = <<>> /\ c \notin eof
      BY <1>2, Parts DEF ClientOK, LinkedOK
    <3> QED BY <1>1, <1>2, <1>3, <2>1, <3>1 DEF TypeOK
  <2> QED BY <1>1, <1>2, <1>7, <2>1, <2>2 DEF ConnOK, Open, Lost
<1>13. ASSUME NEW d \in Clients PROVE ClientOK(d)'
  <2>1. CASE d # c
    <3>1. ClientOK(d) /\ Kept(d) /\ kind' = kind
      BY <1>3, <1>6, <2>1, Parts
    <3> QED BY <3>1, ClientSame
  <2> QED BY <1>11, <2>1
<1>14. ASSUME NEW g \in Fds PROVE ConnOK(g)'
  <2>1. CASE g # fd
    <3>1. ConnOK(g) /\ Alone(g)
      BY <1>8, <2>1, Parts
    <3>2. Open(g) => Kept(sock[g])
      <4>1. Open(g) => sock[g] \in Clients /\ sock[g] # c
        BY <1>1, <1>2, OpenConnection
      <4> QED BY <1>6, <4>1
    <3> QED BY <3>1, <3>2, ConnSame
  <2> QED BY <1>12, <2>1
<1> QED BY <1>5, <1>9, <1>10, <1>13, <1>14, PartsNext

LEMMA StepAccept == ASSUME IInv, Accept PROVE IInv'
BY Accepts, StepAccepting

--------------------------------------------------------------------------------
(* What a coroutine does without its connection.                            *)
LEMMA StepTask ==
  ASSUME IInv, NEW c \in Clients, Drained(c) \/ Raised(c) \/ WaitClosed(c) PROVE IInv'
<1>1. TypeOK /\ ClientOK(c)
  BY Parts
<1>2. /\ UNCHANGED <<sockets, kind, loop, sock, reader, writer, batch, buf, stage, inbox, eof, paused>>
      /\ \A d \in Clients : d # c => task'[d] = task[d]
      /\ \/ /\ task[c] = "drain" /\ c \notin paused /\ stage[c] = "open" /\ task'[c] = "read"
         \/ task[c] \in {"read", "drain"} /\ stage[c] = "aborted" /\ task'[c] = "wait_closed"
         \/ task[c] = "wait_closed" /\ stage[c] = "closed" /\ task'[c] = "done"
         \/ task[c] = "wait_closed" /\ stage[c] = "aborted" /\ task'[c] = "failed"
      /\ task' \in [Clients -> Tasks]
  BY <1>1 DEF Drained, Raised, WaitClosed, Goto, TypeOK, Tasks
<1>3. TypeOK'
  BY <1>1, <1>2 DEF TypeOK, SocketsTypeOK, sockets, Tasks
<1>4. kind = "streams"
  BY <1>1, <1>2 DEF ClientOK, TaskOK
<1>5. LinkedOK(c)' /\ StreamOK(c)'
  BY <1>1, <1>2 DEF ClientOK, LinkedOK, StreamOK, Holds, Cut, sockets
<1>6. TaskOK(c)'
  BY <1>1, <1>2, <1>4 DEF ClientOK, TaskOK, Reactor, sockets
<1>7. FlowOK(c)'
  BY <1>1, <1>2, <1>4 DEF ClientOK, FlowOK, Reactor
<1>8. ClientOK(c)'
  BY <1>5, <1>6, <1>7 DEF ClientOK
<1> QED BY <1>2, <1>3, <1>8, TaskStep

(* A read after the connection has broken: what it returns is dropped.      *)
LEMMA StepReadBroken ==
  ASSUME IInv, NEW c \in Clients, ReadData(c), Lost(c) PROVE IInv'
<1>1. TypeOK /\ ClientOK(c) /\ Typed
  BY Parts, Types
<1>2. /\ task[c] = "read" /\ stage[c] = "broken" /\ kind = "streams" /\ ended[c] = "reset"
  <2>1. task[c] = "read" /\ stage[c] \in {"lost", "broken", "closed"}
    BY DEF ReadData, Lost
  <2> QED BY <1>1, <2>1 DEF ClientOK, TaskOK
<1> DEFINE k == Least(ReadSize, Len(inbox[c]))
<1>3. /\ UNCHANGED <<sockets, kind, loop, sock, reader, writer, batch, buf, stage, eof, paused>>
      /\ task' = [task EXCEPT ![c] = "drain"]
      /\ inbox' = [inbox EXCEPT ![c] = SubSeq(@, k + 1, Len(@))]
  BY DEF ReadData, Goto, sockets
<1>4. SubSeq(inbox[c], k + 1, Len(inbox[c])) \in Seq(Unit)
  <2>1. Len(inbox[c]) \in Nat /\ ReadSize \in Nat
    BY <1>1, EventServersAssumption DEF Typed
  <2>2. k \in 0..Len(inbox[c])
    BY <2>1 DEF Least
  <2> HIDE DEF k
  <2> QED BY <1>1, <2>2, CutBehind DEF Typed
<1> HIDE DEF k
<1>5. /\ DOMAIN inbox' = Clients /\ \A d \in Clients : inbox'[d] \in Seq(Unit)
      /\ \A d \in Clients : d # c => task'[d] = task[d] /\ inbox'[d] = inbox[d]
      /\ task'[c] = "drain" /\ task' \in [Clients -> Tasks]
  BY <1>1, <1>3, <1>4 DEF TypeOK, Tasks
<1>6. TypeOK'
  BY <1>1, <1>3, <1>5 DEF TypeOK, SocketsTypeOK, sockets, Tasks
<1>7. LinkedOK(c)' /\ StreamOK(c)'
  BY <1>1, <1>2, <1>3 DEF ClientOK, LinkedOK, StreamOK, Holds, sockets
<1>8. TaskOK(c)'
  BY <1>1, <1>2, <1>3, <1>5 DEF ClientOK, TaskOK, Reactor, sockets
<1>9. FlowOK(c)'
  BY <1>1, <1>2, <1>3, <1>5 DEF ClientOK, FlowOK, Reactor
<1>10. ClientOK(c)'
  BY <1>7, <1>8, <1>9 DEF ClientOK
<1> QED BY <1>3, <1>5, <1>6, <1>10, TaskStep

--------------------------------------------------------------------------------
(* Whose callback it is.                                                    *)
LEMMA ReaderCalled ==
  ASSUME IInv, NEW fd \in Fds, "in" \in batch[fd]
  PROVE  /\ reader[fd] \in Clients /\ reader[fd] = sock[fd] /\ Open(fd)
         /\ stage[reader[fd]] = "open" /\ reader[fd] \notin eof
         /\ FdOf(reader[fd]) = fd /\ Readable(reader[fd])
<1>1. ConnOK(fd) /\ TypeOK /\ LinkInv
  BY Parts DEF IInv
<1>2. reader[fd] = sock[fd] /\ reader[fd] # NoClient
  BY <1>1 DEF ConnOK
<1>3. Open(fd) /\ sock[fd] \in Clients /\ FdOf(sock[fd]) = fd
  BY <1>1, <1>2, OpenConnection DEF Open
<1> QED BY <1>1, <1>2, <1>3 DEF ConnOK

LEMMA WriterCalled ==
  ASSUME IInv, NEW fd \in Fds, "out" \in batch[fd]
  PROVE  /\ writer[fd] \in Clients /\ writer[fd] = sock[fd] /\ Open(fd)
         /\ stage[writer[fd]] \in {"open", "closing"} /\ buf[writer[fd]] # <<>>
         /\ FdOf(writer[fd]) = fd /\ Writable(writer[fd])
<1>1. ConnOK(fd) /\ TypeOK /\ LinkInv
  BY Parts DEF IInv
<1>2. writer[fd] = sock[fd] /\ writer[fd] # NoClient
  BY <1>1 DEF ConnOK
<1>3. /\ Open(fd) /\ sock[fd] \in Clients /\ FdOf(sock[fd]) = fd
      /\ stage[sock[fd]] \in {"open", "closing", "lost", "broken"}
  BY <1>1, <1>2, OpenConnection DEF Open
<1> QED BY <1>1, <1>2, <1>3 DEF ConnOK, Lost

RegisteredAs(fd, r, w, q) ==
  /\ reader' \in [Fds -> Clients \cup {NoClient}] /\ writer' \in [Fds -> Clients \cup {NoClient}]
  /\ batch' \in [Fds \cup {Listener} -> SUBSET {"in", "out"}]
  /\ reader'[fd] = r /\ writer'[fd] = w /\ batch'[fd] = q
  /\ batch'[Listener] = batch[Listener]
  /\ \A g \in Fds : g # fd => /\ reader'[g] = reader[g] /\ writer'[g] = writer[g]
                              /\ batch'[g] = batch[g]

LEMMA Registered ==
  ASSUME TypeOK, NEW fd \in Fds, NEW r, r \in Clients \cup {NoClient},
         NEW w, w \in Clients \cup {NoClient}, NEW q, q \subseteq {"in", "out"},
         Register(fd, r, w, q)
  PROVE  RegisteredAs(fd, r, w, q)
<1>1. Listener \notin Fds
  BY EventServersAssumption
<1> QED BY <1>1 DEF TypeOK, Register, RegisteredAs

(* A queue of one client becomes another one.                               *)
LEMMA QueueSet ==
  ASSUME NEW f, NEW ff, DOMAIN f = Clients, \A d \in Clients : f[d] \in Seq(Unit),
         NEW c \in Clients, NEW q \in Seq(Unit), ff = [f EXCEPT ![c] = q]
  PROVE  /\ DOMAIN ff = Clients /\ \A d \in Clients : ff[d] \in Seq(Unit)
         /\ ff[c] = q /\ \A d \in Clients : d # c => ff[d] = f[d]
OBVIOUS

--------------------------------------------------------------------------------
(* The reactor's handlers.                                                  *)
LEMMA StepOnRead == ASSUME IInv, NEW fd \in Fds, OnRead(fd) PROVE IInv'
<1>1. TypeOK /\ Typed /\ kind = "reactor"
  BY Types DEF IInv, OnRead, Reactor
<1> PICK c \in Clients : c = reader[fd]
  <2>1. "in" \in batch[fd]
    BY DEF OnRead, Called
  <2> QED BY <2>1, ReaderCalled
<1>2. c = sock[fd] /\ Open(fd) /\ stage[c] = "open" /\ c \notin eof
  <2>1. "in" \in batch[fd]
    BY DEF OnRead, Called
  <2> QED BY <2>1, ReaderCalled
<1>3. PICK k \in 1..Len(inq[c]) :
        /\ inq' = [inq EXCEPT ![c] = SubSeq(@, k + 1, Len(@))]
        /\ buf' = [buf EXCEPT ![c] = buf[c] \o SubSeq(inq[c], 1, k)]
        /\ UNCHANGED <<link, backlog, ended, sent, got, outq>>
  <2>1. \A m \in Nat : 1..Least(ReadSize, m) \subseteq 1..m
    BY EventServersAssumption DEF Least
  <2>2. 1..Least(ReadSize, Len(inq[c])) \subseteq 1..Len(inq[c])
    BY <1>1, <2>1 DEF Typed
  <2> QED BY <2>2 DEF OnRead, Take, Queued
<1>4. Register(fd, c, c, {}) /\ UNCHANGED <<kind, loop, sock, stage, task, inbox, eof, paused>>
  BY DEF OnRead, RegisterWrite, streams
<1>5. /\ inq[c] \in Seq(Unit) /\ buf[c] \in Seq(Unit) /\ Len(buf[c]) \in Nat
      /\ k \in 0..Len(inq[c]) /\ k > 0
  BY <1>1, <1>3 DEF Typed
<1>6. /\ buf[c] \o SubSeq(inq[c], 1, k) \in Seq(Unit)
      /\ SubSeq(inq[c], k + 1, Len(inq[c])) \in Seq(Unit)
      /\ Len(buf[c] \o SubSeq(inq[c], 1, k)) = Len(buf[c]) + k
  <2> PICK i \in Seq(Unit), b \in Seq(Unit) : i = inq[c] /\ b = buf[c]
    BY <1>5
  <2>1. k \in 0..Len(i)
    BY <1>5
  <2> QED BY <2>1, ShiftTypes
<1>7. /\ DOMAIN inq' = Clients /\ \A d \in Clients : inq'[d] \in Seq(Unit)
      /\ inq'[c] = SubSeq(inq[c], k + 1, Len(inq[c])) /\ \A d \in Clients : d # c => inq'[d] = inq[d]
  BY <1>1, <1>3, <1>6, QueueSet DEF TypeOK, SocketsTypeOK
<1>8. /\ DOMAIN buf' = Clients /\ \A d \in Clients : buf'[d] \in Seq(Unit)
      /\ buf'[c] = buf[c] \o SubSeq(inq[c], 1, k) /\ \A d \in Clients : d # c => buf'[d] = buf[d]
  BY <1>1, <1>3, <1>6, QueueSet DEF TypeOK
<1>9. RegisteredAs(fd, c, c, {})
  BY <1>1, <1>4, Registered
<1>10. TypeOK'
  <2>1. SocketsTypeOK'
    BY <1>1, <1>3, <1>7 DEF TypeOK, SocketsTypeOK
  <2> QED BY <1>1, <1>4, <1>8, <1>9, <2>1 DEF TypeOK, RegisteredAs
<1>11. Only(fd, c)
  BY <1>3, <1>4, <1>7, <1>8, <1>9 DEF Only, Kept, KeptStream, Alone, RegisteredAs
<1>12. ClientOK(c)'
  <2>1. ClientOK(c)
    BY Parts
  <2>2. LinkedOK(c)'
    BY <1>2, <1>3, <1>4, <2>1 DEF ClientOK, LinkedOK
  <2>3. TaskOK(c)'
    BY <1>2, <1>3, <1>4, <2>1 DEF ClientOK, TaskOK, Reactor
  <2>4. FlowOK(c)'
    BY <1>1, <1>2, <1>4, <2>1 DEF ClientOK, TaskOK, FlowOK, Reactor
  <2>5. StreamOK(c)'
    <3>1. inbox[c] = <<>> /\ StreamOK(c)
      BY <1>1, <2>1 DEF ClientOK, TaskOK
    <3>2. ASSUME ended[c] # "reset"
          PROVE  Cut(c, Len(got[c]) + Len(outq[c]), buf'[c], inbox[c], inq'[c], sent[c])
      <4> PICK m \in Nat, i \in Seq(Unit), b \in Seq(Unit), x \in Seq(Unit), s \in Nat :
            /\ m = Len(got[c]) + Len(outq[c]) /\ i = inq[c] /\ b = buf[c] /\ x = inbox[c]
            /\ s = sent[c]
        BY <1>1, SumsOfLengths, Zenon DEF Typed
      <4>1. Cut(c, m, b, x, i, s) /\ x = <<>> /\ k \in 0..Len(i)
        BY <1>5, <3>1, <3>2 DEF StreamOK
      <4>2. Cut(c, m, b \o SubSeq(i, 1, k), x, SubSeq(i, k + 1, Len(i)), s)
        BY <4>1, CutRead
      <4> QED BY <1>7, <1>8, <4>2
    <3>3. /\ got'[c] = got[c] /\ outq'[c] = outq[c] /\ inbox'[c] = inbox[c] /\ sent'[c] = sent[c]
          /\ ended'[c] = ended[c]
      BY <1>3, <1>4
    <3>4. /\ Holds(got[c], c, 0) /\ Holds(outq[c], c, Len(got[c]))
          /\ Len(got[c]) + Len(outq[c]) <= sent[c] /\ Len(outq[c]) <= Room
      BY <3>1 DEF StreamOK
    <3> QED BY <3>2, <3>3, <3>4, StreamThen
  <2> QED BY <2>2, <2>3, <2>4, <2>5 DEF ClientOK
<1>13. ConnOK(fd)'
  <2>1. buf'[c] # <<>>
    <3>1. Len(buf'[c]) = Len(buf[c]) + k /\ Len(buf[c]) \in Nat
      BY <1>5, <1>6, <1>8
    <3>2. Len(buf'[c]) # 0
      BY <1>5, <3>1
    <3> QED BY <3>2
  <2> QED BY <1>2, <1>4, <1>9, <2>1 DEF ConnOK, Lost, Open, RegisteredAs
<1>14. sock'[fd] = c /\ link'[c] = link[c]
  BY <1>2, <1>3, <1>4
<1> QED BY <1>2, <1>10, <1>11, <1>12, <1>13, <1>14, ConnStep

(* A socket is closed, by a handler of the reactor or by connection_lost.   *)
LEMMA SocketClosed ==
  ASSUME TypeOK, LinkInv, NEW fd \in Fds, Open(fd), NEW c, c = sock[fd], NEW how \in Stages,
         CloseSocket(c, how)
  PROVE  /\ c \in Clients /\ sock' \in [Fds -> Clients \cup {NoClient}]
         /\ link' \in [Clients -> {"away", "queued", "open", "gone"}]
         /\ stage' \in [Clients -> Stages]
         /\ sock'[fd] = NoClient /\ link'[c] = "gone" /\ stage'[c] = how
         /\ \A g \in Fds : g # fd => sock'[g] = sock[g]
         /\ \A d \in Clients : d # c => link'[d] = link[d] /\ stage'[d] = stage[d]
<1>1. c \in Clients /\ FdOf(c) = fd
  BY OpenConnection
<1>2. /\ sock' = [sock EXCEPT ![fd] = NoClient] /\ link' = [link EXCEPT ![c] = "gone"]
      /\ stage' = [stage EXCEPT ![c] = how]
  BY <1>1 DEF CloseSocket
<1> QED BY <1>1, <1>2 DEF TypeOK, SocketsTypeOK, Stages

LEMMA StepHandlerCloses ==
  ASSUME IInv, NEW fd \in Fds, NEW c \in Clients, c = sock[fd], Open(fd), Reactor,
         ended[c] # "no", HandlerCloses(fd)
  PROVE  IInv'
<1>1. TypeOK /\ LinkInv /\ ClientOK(c) /\ kind = "reactor"
  BY Parts DEF IInv, Reactor
<1>2. CloseSocket(c, "closed") /\ "closed" \in Stages /\ Register(fd, NoClient, NoClient, {})
      /\ UNCHANGED <<backlog, ended, sent, inq, outq, got, kind, loop, buf, task, inbox, eof, paused>>
  BY DEF HandlerCloses, Unregister, streams, Stages
<1>3. /\ sock' \in [Fds -> Clients \cup {NoClient}]
      /\ link' \in [Clients -> {"away", "queued", "open", "gone"}]
      /\ stage' \in [Clients -> Stages]
      /\ sock'[fd] = NoClient /\ link'[c] = "gone" /\ stage'[c] = "closed"
      /\ \A g \in Fds : g # fd => sock'[g] = sock[g]
      /\ \A d \in Clients : d # c => link'[d] = link[d] /\ stage'[d] = stage[d]
  BY <1>1, <1>2, SocketClosed
<1>4. RegisteredAs(fd, NoClient, NoClient, {})
  BY <1>1, <1>2, Registered
<1>5. TypeOK'
  BY <1>1, <1>2, <1>3, <1>4 DEF TypeOK, SocketsTypeOK, RegisteredAs, Stages
<1>6. Only(fd, c)
  BY <1>2, <1>3, <1>4 DEF Only, Kept, KeptStream, Alone, RegisteredAs
<1>7. ClientOK(c)'
  <2>1. LinkedOK(c)' /\ StreamOK(c)'
    BY <1>1, <1>2, <1>3 DEF ClientOK, LinkedOK, StreamOK, Holds, Cut
  <2>2. TaskOK(c)' /\ FlowOK(c)'
    BY <1>1, <1>2, <1>3 DEF ClientOK, TaskOK, FlowOK, Reactor
  <2> QED BY <2>1, <2>2 DEF ClientOK
<1>8. ConnOK(fd)'
  BY <1>3, <1>4 DEF ConnOK, Open, RegisteredAs
<1> QED BY <1>3, <1>5, <1>6, <1>7, <1>8, ConnStep

LEMMA StepReactorEnds ==
  ASSUME IInv, NEW fd \in Fds, OnReadEnd(fd) \/ OnWriteError(fd) PROVE IInv'
<1>1. CASE OnReadEnd(fd)
  <2>1. "in" \in batch[fd] /\ Reactor /\ ended[reader[fd]] # "no" /\ HandlerCloses(fd)
    BY <1>1 DEF OnReadEnd, Called
  <2>2. reader[fd] = sock[fd] /\ sock[fd] \in Clients /\ Open(fd)
    BY <2>1, ReaderCalled
  <2> QED BY <2>1, <2>2, StepHandlerCloses
<1>2. CASE OnWriteError(fd)
  <2>1. "out" \in batch[fd] /\ Reactor /\ ended[writer[fd]] = "reset" /\ HandlerCloses(fd)
    BY <1>2 DEF OnWriteError, Called
  <2>2. writer[fd] = sock[fd] /\ sock[fd] \in Clients /\ Open(fd)
    BY <2>1, WriterCalled
  <2> QED BY <2>1, <2>2, StepHandlerCloses
<1> QED BY <1>1, <1>2

LEMMA StepLost == ASSUME IInv, NEW c \in Clients, ConnectionLost(c) PROVE IInv'
<1>1. TypeOK /\ LinkInv /\ ClientOK(c) /\ stage[c] \in {"lost", "broken"}
  BY Parts DEF IInv, ConnectionLost
<1> PICK fd \in Fds : sock[fd] = c /\ Open(fd)
  BY <1>1, ConnectionOf
<1> PICK how \in {"closed", "aborted"} : how = IF stage[c] = "lost" THEN "closed" ELSE "aborted"
  OBVIOUS
<1>2. /\ CloseSocket(c, how) /\ how \in Stages
      /\ UNCHANGED <<kind, loop, backlog, ended, sent, inq, outq, got, reader, writer, batch, buf,
                     task, inbox, eof, paused>>
  BY DEF ConnectionLost, streams, Stages
<1>3. /\ sock' \in [Fds -> Clients \cup {NoClient}]
      /\ link' \in [Clients -> {"away", "queued", "open", "gone"}]
      /\ stage' \in [Clients -> Stages]
      /\ sock'[fd] = NoClient /\ link'[c] = "gone" /\ stage'[c] = how
      /\ \A g \in Fds : g # fd => sock'[g] = sock[g]
      /\ \A d \in Clients : d # c => link'[d] = link[d] /\ stage'[d] = stage[d]
  BY <1>1, <1>2, SocketClosed
<1>4. TypeOK'
  BY <1>1, <1>2, <1>3 DEF TypeOK, SocketsTypeOK, Stages
<1>5. Only(fd, c)
  BY <1>2, <1>3 DEF Only, Kept, KeptStream, Alone
<1>6. ClientOK(c)'
  <2>1. LinkedOK(c)' /\ StreamOK(c)'
    BY <1>1, <1>2, <1>3 DEF ClientOK, LinkedOK, StreamOK, Holds, Cut
  <2>2. TaskOK(c)' /\ FlowOK(c)'
    BY <1>1, <1>2, <1>3 DEF ClientOK, TaskOK, FlowOK, Reactor
  <2> QED BY <2>1, <2>2 DEF ClientOK
<1>7. ConnOK(fd)'
  <2>1. ConnOK(fd)
    BY Parts
  <2>2. /\ reader[fd] = NoClient /\ writer[fd] = NoClient
        /\ "in" \notin batch[fd] /\ "out" \notin batch[fd]
    BY <1>1, <2>1 DEF ConnOK, Lost
  <2> QED BY <1>2, <1>3, <2>2 DEF ConnOK, Open
<1> QED BY <1>3, <1>4, <1>5, <1>6, <1>7, ConnStep

--------------------------------------------------------------------------------
(* The first n units of the buffer are sent, by on_write or by the          *)
(* transport.                                                               *)
Flushing(fd, c, n) ==
  /\ c = writer[fd] /\ ended[c] # "reset" /\ "out" \in batch[fd]
  /\ n \in 0..Len(buf[c]) /\ Len(outq[c]) + n <= Room
  /\ outq' = [outq EXCEPT ![c] = outq[c] \o SubSeq(buf[c], 1, n)]
  /\ buf' = [buf EXCEPT ![c] = SubSeq(buf[c], n + 1, Len(buf[c]))]
  /\ \/ paused' = paused
     \/ SubSeq(buf[c], n + 1, Len(buf[c])) = <<>> /\ paused' = paused \ {c}
  /\ Register(fd, reader[fd], WriterAfter(c, SubSeq(buf[c], n + 1, Len(buf[c]))), batch[fd] \ {"out"})
  /\ \/ stage' = stage
     \/ /\ SubSeq(buf[c], n + 1, Len(buf[c])) = <<>> /\ stage[c] = "closing"
        /\ stage' = [stage EXCEPT ![c] = "lost"]
  /\ UNCHANGED <<kind, loop, link, backlog, ended, sent, inq, got, sock, task, inbox, eof>>

LEMMA LeastSent ==
  \A b, o, r \in Nat : o <= r => Least(b, r - o) \in 0..b /\ o + Least(b, r - o) <= r
BY DEF Least

LEMMA Flushes ==
  ASSUME IInv, NEW fd \in Fds, OnWrite(fd) \/ Flush(fd)
  PROVE  \E n \in Nat : Flushing(fd, writer[fd], n)
<1>1. Typed /\ TypeOK /\ "out" \in batch[fd] /\ ended[writer[fd]] # "reset"
  BY Types DEF IInv, OnWrite, Flush, Called
<1> PICK c \in Clients : c = writer[fd]
  BY <1>1, WriterCalled
<1>2. StreamOK(c) /\ Room \in Nat
  BY Parts, SocketsAssumption DEF ClientOK
<1> DEFINE n == Least(Len(buf[c]), Room - Len(outq[c]))
<1>3. n \in 0..Len(buf[c]) /\ Len(outq[c]) + n <= Room
  BY <1>1, <1>2, LeastSent DEF Typed, StreamOK
<1>4. /\ outq' = [outq EXCEPT ![c] = outq[c] \o SubSeq(buf[c], 1, n)]
      /\ buf' = [buf EXCEPT ![c] = SubSeq(buf[c], n + 1, Len(buf[c]))]
      /\ \/ paused' = paused
         \/ SubSeq(buf[c], n + 1, Len(buf[c])) = <<>> /\ paused' = paused \ {c}
      /\ Register(fd, reader[fd], WriterAfter(c, SubSeq(buf[c], n + 1, Len(buf[c]))), batch[fd] \ {"out"})
      /\ \/ stage' = stage
         \/ /\ SubSeq(buf[c], n + 1, Len(buf[c])) = <<>> /\ stage[c] = "closing"
            /\ stage' = [stage EXCEPT ![c] = "lost"]
      /\ UNCHANGED <<kind, loop, link, backlog, ended, sent, inq, got, sock, task, inbox, eof>>
  <2>1. outq' = [outq EXCEPT ![c] = @ \o SubSeq(buf[c], 1, n)]
    BY DEF OnWrite, Flush
  <2>2. c \in DOMAIN outq
    BY <1>1 DEF TypeOK, SocketsTypeOK
  <2>3. outq' = [outq EXCEPT ![c] = outq[c] \o SubSeq(buf[c], 1, n)]
    BY <2>1, <2>2
  <2>4. CASE OnWrite(fd)
    BY <2>3, <2>4 DEF OnWrite, Unsent, Left, streams
  <2>5. CASE Flush(fd)
    BY <2>3, <2>5 DEF Flush, Unsent, Left
  <2> QED BY <2>4, <2>5
<1> HIDE DEF n
<1>5. n \in Nat
  BY <1>1, <1>3 DEF Typed
<1> QED BY <1>1, <1>3, <1>4, <1>5 DEF Flushing

LEMMA StepFlushing ==
  ASSUME IInv, NEW fd \in Fds, NEW c \in Clients, NEW n \in Nat, Flushing(fd, c, n) PROVE IInv'
<1>1. TypeOK /\ Typed /\ ClientOK(c) /\ ConnOK(fd) /\ c # NoClient
  BY Types, Parts, EventServersAssumption DEF IInv
<1>2. /\ c = sock[fd] /\ Open(fd) /\ c = writer[fd] /\ stage[c] \in {"open", "closing"}
      /\ ended[c] # "reset"
  BY WriterCalled DEF Flushing
<1> PICK o \in Seq(Unit), b \in Seq(Unit) : o = outq[c] /\ b = buf[c]
  BY <1>1 DEF Typed
<1> DEFINE oo == o \o SubSeq(b, 1, n)
           bb == SubSeq(b, n + 1, Len(b))
<1>3. /\ n \in 0..Len(b) /\ Len(o) + n <= Room
      /\ outq' = [outq EXCEPT ![c] = oo] /\ buf' = [buf EXCEPT ![c] = bb]
      /\ paused' = paused \/ (bb = <<>> /\ paused' = paused \ {c})
      /\ Register(fd, reader[fd], WriterAfter(c, bb), batch[fd] \ {"out"})
      /\ \/ stage' = stage
         \/ bb = <<>> /\ stage[c] = "closing" /\ stage' = [stage EXCEPT ![c] = "lost"]
      /\ UNCHANGED <<kind, loop, link, backlog, ended, sent, inq, got, sock, task, inbox, eof>>
  BY DEF Flushing
<1>4. oo \in Seq(Unit) /\ bb \in Seq(Unit) /\ Len(oo) = Len(o) + n /\ Len(bb) = Len(b) - n
  <2>1. n \in 0..Len(b)
    BY <1>3
  <2> QED BY <2>1, ShiftTypes
<1>5. StreamOK(c)'
  <2>1. /\ Holds(got[c], c, 0) /\ Holds(o, c, Len(got[c])) /\ ended[c] # "reset"
        /\ Cut(c, Len(got[c]) + Len(o), b, inbox[c], inq[c], sent[c])
    BY <1>1, <1>2 DEF ClientOK, StreamOK
  <2>2. PICK g \in Nat, x \in Seq(Unit), i \in Seq(Unit), s \in Nat :
          g = Len(got[c]) /\ x = inbox[c] /\ i = inq[c] /\ s = sent[c]
    BY <1>1, Zenon DEF Typed
  <2>3. Holds(o, c, g) /\ Cut(c, g + Len(o), b, x, i, s)
    BY <2>1, <2>2
  <2>4. Holds(oo, c, g) /\ Cut(c, g + Len(oo), bb, x, i, s) /\ g + Len(oo) <= s
    BY <1>3, <2>3, CutFlush
  <2>5. Len(oo) <= Room
    BY <1>3, <1>4
  <2> HIDE DEF oo, bb
  <2>6. outq'[c] = oo /\ buf'[c] = bb
    BY <1>1, <1>3 DEF TypeOK, SocketsTypeOK
  <2>7. /\ got'[c] = got[c] /\ inbox'[c] = x /\ inq'[c] = i /\ sent'[c] = s
    BY <1>3, <2>2
  <2> QED BY <2>1, <2>2, <2>4, <2>5, <2>6, <2>7, StreamThen
<1> HIDE DEF oo, bb
<1>6. /\ DOMAIN outq' = Clients /\ \A d \in Clients : outq'[d] \in Seq(Unit)
      /\ outq'[c] = oo /\ \A d \in Clients : d # c => outq'[d] = outq[d]
  BY <1>1, <1>3, <1>4, QueueSet DEF TypeOK, SocketsTypeOK
<1>7. /\ DOMAIN buf' = Clients /\ \A d \in Clients : buf'[d] \in Seq(Unit)
      /\ buf'[c] = bb /\ \A d \in Clients : d # c => buf'[d] = buf[d]
  BY <1>1, <1>3, <1>4, QueueSet DEF TypeOK
<1>8. RegisteredAs(fd, reader[fd], WriterAfter(c, bb), batch[fd] \ {"out"})
  <2>1. /\ reader[fd] \in Clients \cup {NoClient} /\ batch[fd] \ {"out"} \subseteq {"in", "out"}
        /\ WriterAfter(c, bb) \in Clients \cup {NoClient}
    BY <1>1 DEF TypeOK, WriterAfter
  <2> QED BY <1>1, <1>3, <2>1, Registered
<1>9. /\ stage' \in [Clients -> Stages] /\ \A d \in Clients : d # c => stage'[d] = stage[d]
      /\ \/ stage'[c] = stage[c]
         \/ stage[c] = "closing" /\ bb = <<>> /\ stage'[c] = "lost"
  BY <1>1, <1>3 DEF TypeOK, Stages
<1>10. TypeOK'
  <2>1. SocketsTypeOK'
    BY <1>1, <1>3, <1>6 DEF TypeOK, SocketsTypeOK
  <2>2. paused' \subseteq Clients
    BY <1>1, <1>3 DEF TypeOK
  <2> QED BY <1>1, <1>3, <1>7, <1>8, <1>9, <2>1, <2>2 DEF TypeOK, RegisteredAs, Stages
<1>11. Only(fd, c)
  <2>1. \A d \in Clients : d # c => (d \in paused' <=> d \in paused)
    BY <1>3
  <2> QED BY <1>3, <1>6, <1>7, <1>8, <1>9, <2>1 DEF Only, Kept, KeptStream, Alone, RegisteredAs
<1>12. ClientOK(c)'
  <2>1. LinkedOK(c)'
    BY <1>1, <1>2, <1>3, <1>9 DEF ClientOK, LinkedOK
  <2>2. TaskOK(c)'
    BY <1>1, <1>2, <1>3, <1>9 DEF ClientOK, TaskOK, Reactor
  <2>3. FlowOK(c)'
    <3>1. Len(bb) <= Len(b) /\ Len(bb) \in Nat /\ Len(b) \in Nat /\ HighWater \in Nat
          /\ ReadSize \in Nat /\ (bb = <<>> => Len(bb) = 0)
      BY <1>3, <1>4, EventServersAssumption
    <3>2. /\ ~Reactor /\ c \notin paused => Len(b) <= HighWater
          /\ task[c] = "read" => Len(b) <= HighWater
          /\ kind = "streams" => Len(b) <= HighWater + ReadSize
      BY <1>1 DEF ClientOK, FlowOK
    <3>3. Len(buf'[c]) = Len(bb) /\ task'[c] = task[c] /\ kind' = kind
          /\ (c \notin paused' => c \notin paused \/ bb = <<>>)
      BY <1>3, <1>7
    <3>4. ASSUME ~Reactor, c \notin paused' PROVE Len(bb) <= HighWater
      <4>1. CASE bb = <<>>
        BY <3>1, <4>1
      <4>2. CASE c \notin paused
        BY <3>1, <3>2, <3>4, <4>2
      <4> QED BY <3>3, <3>4, <4>1, <4>2
    <3>5. ASSUME task[c] = "read" PROVE Len(bb) <= HighWater
      BY <3>1, <3>2, <3>5
    <3>6. ASSUME kind = "streams" PROVE Len(bb) <= HighWater + ReadSize
      BY <3>1, <3>2, <3>6
    <3> QED BY <3>3, <3>4, <3>5, <3>6 DEF FlowOK, Reactor
  <2> QED BY <1>5, <2>1, <2>2, <2>3 DEF ClientOK
<1>13. ConnOK(fd)'
  <2>1. /\ sock'[fd] = c /\ reader'[fd] = reader[fd] /\ writer'[fd] = WriterAfter(c, bb)
        /\ batch'[fd] = batch[fd] \ {"out"} /\ buf'[c] = bb
    BY <1>2, <1>3, <1>7, <1>8 DEF RegisteredAs
  <2>2. /\ "in" \in batch'[fd] => reader'[fd] # NoClient /\ Readable(c)'
        /\ "out" \notin batch'[fd]
    BY <1>1, <1>2, <1>3, <2>1 DEF ConnOK, Readable
  <2>3. stage'[c] # "open" \/ c \in eof' => reader'[fd] = NoClient
    BY <1>1, <1>2, <1>3, <1>9, <2>1 DEF ConnOK
  <2>4. Lost(c)' => writer'[fd] = NoClient
    BY <1>2, <1>9, <2>1 DEF Lost, WriterAfter
  <2>5. writer'[fd] = c <=> buf'[c] # <<>>
    BY <1>1, <2>1 DEF WriterAfter
  <2>6. reader'[fd] \in {c, NoClient} /\ writer'[fd] \in {c, NoClient}
    BY <1>1, <1>2, <2>1 DEF ConnOK, WriterAfter
  <2> QED BY <2>1, <2>2, <2>3, <2>4, <2>5, <2>6 DEF ConnOK, Lost, Readable
<1>14. sock'[fd] = c /\ link'[c] = link[c]
  BY <1>2, <1>3
<1> QED BY <1>2, <1>10, <1>11, <1>12, <1>13, <1>14, ConnStep

(* The stream reader is fed, and reading may be paused.                     *)
LEMMA StepFeedData == ASSUME IInv, NEW fd \in Fds, FeedData(fd) PROVE IInv'
<1>1. TypeOK /\ Typed /\ kind = "streams" /\ "in" \in batch[fd]
  BY Types DEF IInv, FeedData, Called
<1> PICK c \in Clients : c = reader[fd]
  BY <1>1, ReaderCalled
<1>2. c = sock[fd] /\ Open(fd) /\ stage[c] = "open" /\ c \notin eof /\ c # NoClient
  BY <1>1, ReaderCalled, EventServersAssumption
<1> PICK i \in Seq(Unit), x \in Seq(Unit) : i = inq[c] /\ x = inbox[c]
  BY <1>1 DEF Typed
<1>3. PICK k \in 1..Len(i) :
        /\ inq' = [inq EXCEPT ![c] = SubSeq(@, k + 1, Len(@))]
        /\ inbox' = [inbox EXCEPT ![c] = x \o SubSeq(i, 1, k)]
        /\ \E r \in {c, NoClient} : Register(fd, r, writer[fd], batch[fd] \ {"in"})
        /\ UNCHANGED <<link, backlog, ended, sent, got, outq>>
  BY DEF FeedData, Take, Left
<1>4. UNCHANGED <<kind, loop, sock, buf, stage, task, eof, paused>>
  BY DEF FeedData
<1>5. PICK r \in {c, NoClient} : Register(fd, r, writer[fd], batch[fd] \ {"in"})
  BY <1>3
<1>6. k \in 0..Len(i)
  OBVIOUS
<1>7. x \o SubSeq(i, 1, k) \in Seq(Unit) /\ SubSeq(i, k + 1, Len(i)) \in Seq(Unit)
  BY <1>6, ShiftTypes
<1>8. /\ DOMAIN inq' = Clients /\ \A d \in Clients : inq'[d] \in Seq(Unit)
      /\ inq'[c] = SubSeq(i, k + 1, Len(i)) /\ \A d \in Clients : d # c => inq'[d] = inq[d]
  BY <1>1, <1>3, <1>7, QueueSet DEF TypeOK, SocketsTypeOK
<1>9. /\ DOMAIN inbox' = Clients /\ \A d \in Clients : inbox'[d] \in Seq(Unit)
      /\ inbox'[c] = x \o SubSeq(i, 1, k) /\ \A d \in Clients : d # c => inbox'[d] = inbox[d]
  BY <1>1, <1>3, <1>7, QueueSet DEF TypeOK
<1>10. RegisteredAs(fd, r, writer[fd], batch[fd] \ {"in"})
  <2>1. writer[fd] \in Clients \cup {NoClient} /\ batch[fd] \ {"in"} \subseteq {"in", "out"}
    BY <1>1 DEF TypeOK
  <2> QED BY <1>1, <1>5, <2>1, Registered
<1>11. TypeOK'
  <2>1. SocketsTypeOK'
    BY <1>1, <1>3, <1>8 DEF TypeOK, SocketsTypeOK
  <2> QED BY <1>1, <1>4, <1>9, <1>10, <2>1 DEF TypeOK, RegisteredAs
<1>12. Only(fd, c)
  BY <1>3, <1>4, <1>8, <1>9, <1>10 DEF Only, Kept, KeptStream, Alone, RegisteredAs
<1>13. ClientOK(c)'
  <2>1. ClientOK(c)
    BY Parts
  <2>2. LinkedOK(c)'
    BY <1>2, <1>3, <1>4, <2>1 DEF ClientOK, LinkedOK
  <2>3. TaskOK(c)' /\ FlowOK(c)'
    BY <1>1, <1>2, <1>3, <1>4, <2>1 DEF ClientOK, TaskOK, FlowOK, Reactor
  <2>4. StreamOK(c)'
    <3>1. /\ Holds(got[c], c, 0) /\ Holds(outq[c], c, Len(got[c]))
          /\ Len(got[c]) + Len(outq[c]) <= sent[c] /\ Len(outq[c]) <= Room
      BY <2>1 DEF ClientOK, StreamOK
    <3>2. ASSUME ended[c] # "reset"
          PROVE  Cut(c, Len(got[c]) + Len(outq[c]), buf[c], inbox'[c], inq'[c], sent[c])
      <4> PICK m \in Nat, b \in Seq(Unit), s \in Nat :
            m = Len(got[c]) + Len(outq[c]) /\ b = buf[c] /\ s = sent[c]
        BY <1>1, SumsOfLengths, Zenon DEF Typed
      <4>1. Cut(c, m, b, x, i, s)
        BY <2>1, <3>2 DEF ClientOK, StreamOK
      <4>2. Cut(c, m, b, x \o SubSeq(i, 1, k), SubSeq(i, k + 1, Len(i)), s)
        BY <1>6, <4>1, CutFeed
      <4> QED BY <1>8, <1>9, <4>2
    <3>3. /\ got'[c] = got[c] /\ outq'[c] = outq[c] /\ buf'[c] = buf[c] /\ sent'[c] = sent[c]
          /\ ended'[c] = ended[c]
      BY <1>3, <1>4
    <3> QED BY <3>1, <3>2, <3>3, StreamThen
  <2> QED BY <2>2, <2>3, <2>4 DEF ClientOK
<1>14. ConnOK(fd)'
  <2>1. ConnOK(fd)
    BY Parts
  <2>2. /\ sock'[fd] = c /\ reader'[fd] = r /\ writer'[fd] = writer[fd]
        /\ batch'[fd] = batch[fd] \ {"in"} /\ stage'[c] = "open" /\ c \notin eof'
    BY <1>2, <1>4, <1>10 DEF RegisteredAs
  <2> QED BY <1>2, <1>3, <1>4, <2>1, <2>2 DEF ConnOK, Open, Lost, Writable
<1>15. sock'[fd] = c /\ link'[c] = link[c]
  BY <1>2, <1>3, <1>4
<1> QED BY <1>2, <1>11, <1>12, <1>13, <1>14, <1>15, ConnStep

--------------------------------------------------------------------------------
(* close() of the transport: out of eof_received, or by the coroutine.      *)
LEMMA StepClose ==
  ASSUME IInv, NEW fd \in Fds, NEW c \in Clients, c = sock[fd], Open(fd), stage[c] = "open",
         ~Reactor, inbox[c] = <<>>, ended[c] # "no",
         stage' = [stage EXCEPT ![c] = IF buf[c] = <<>> THEN "lost" ELSE "closing"],
         Register(fd, NoClient, writer[fd], batch[fd] \ {"in"}),
         \/ kind = "streams" /\ task' = [task EXCEPT ![c] = "wait_closed"]
         \/ kind # "streams" /\ task' = task,
         UNCHANGED <<sockets, kind, loop, sock, buf, inbox, eof, paused>>
  PROVE  IInv'
<1>1. TypeOK /\ ClientOK(c) /\ ConnOK(fd) /\ c # NoClient
  BY Parts, EventServersAssumption
<1>2. /\ stage' \in [Clients -> Stages] /\ \A d \in Clients : d # c => stage'[d] = stage[d]
      /\ stage'[c] = IF buf[c] = <<>> THEN "lost" ELSE "closing"
  BY <1>1 DEF TypeOK, Stages
<1>3. /\ task' \in [Clients -> Tasks] /\ \A d \in Clients : d # c => task'[d] = task[d]
      /\ task'[c] = IF kind = "streams" THEN "wait_closed" ELSE task[c]
  BY <1>1 DEF TypeOK, Tasks
<1>4. RegisteredAs(fd, NoClient, writer[fd], batch[fd] \ {"in"})
  <2>1. writer[fd] \in Clients \cup {NoClient} /\ batch[fd] \ {"in"} \subseteq {"in", "out"}
    BY <1>1 DEF TypeOK
  <2> QED BY <1>1, <2>1, Registered
<1>5. TypeOK'
  BY <1>1, <1>2, <1>3, <1>4 DEF TypeOK, SocketsTypeOK, sockets, RegisteredAs, Stages, Tasks
<1>6. Only(fd, c)
  BY <1>2, <1>3, <1>4 DEF Only, Kept, KeptStream, Alone, RegisteredAs, sockets
<1>7. ClientOK(c)'
  <2>1. LinkedOK(c)'
    BY <1>1, <1>2 DEF ClientOK, LinkedOK, sockets
  <2>2. StreamOK(c)'
    BY <1>1 DEF ClientOK, StreamOK, Holds, Cut, sockets
  <2>3. TaskOK(c)'
    BY <1>1, <1>2, <1>3 DEF ClientOK, TaskOK, Reactor, sockets
  <2>4. FlowOK(c)'
    BY <1>1, <1>3 DEF ClientOK, FlowOK, TaskOK, Reactor
  <2> QED BY <2>1, <2>2, <2>3, <2>4 DEF ClientOK
<1>8. ConnOK(fd)'
  <2>1. /\ sock'[fd] = c /\ reader'[fd] = NoClient /\ writer'[fd] = writer[fd]
        /\ batch'[fd] = batch[fd] \ {"in"} /\ buf'[c] = buf[c]
    BY <1>4 DEF RegisteredAs
  <2>2. writer[fd] \in {c, NoClient} /\ (writer[fd] = c <=> buf[c] # <<>>)
    BY <1>1 DEF ConnOK, Lost
  <2>3. "out" \in batch[fd] => writer[fd] # NoClient /\ Writable(c)'
    BY <1>1 DEF ConnOK, Writable, sockets
  <2> QED BY <1>1, <1>2, <2>1, <2>2, <2>3 DEF ConnOK, Open, Lost
<1>9. sock'[fd] = c /\ link'[c] = link[c]
  BY DEF sockets
<1> QED BY <1>5, <1>6, <1>7, <1>8, <1>9, ConnStep

LEMMA StepEofReceived == ASSUME IInv, NEW fd \in Fds, EofReceived(fd) PROVE IInv'
<1>1. TypeOK /\ ~Reactor /\ "in" \in batch[fd]
  BY DEF IInv, EofReceived, Called
<1> PICK c \in Clients : c = reader[fd]
  BY <1>1, ReaderCalled
<1>2. /\ c = sock[fd] /\ Open(fd) /\ stage[c] = "open" /\ c \notin eof /\ FdOf(c) = fd
      /\ c # NoClient
  BY <1>1, ReaderCalled, EventServersAssumption
<1>3. ClientOK(c) /\ ConnOK(fd)
  BY Parts
<1>4. /\ ended[c] = "fin"
      /\ UNCHANGED <<sockets, kind, loop, sock, buf, task, inbox, paused>>
  BY DEF EofReceived
<1>5. CASE kind = "protocol"
  <2>1. /\ stage' = [stage EXCEPT ![c] = IF buf[c] = <<>> THEN "lost" ELSE "closing"]
        /\ Register(fd, NoClient, writer[fd], batch[fd] \ {"in"}) /\ eof' = eof
    BY <1>2, <1>5 DEF EofReceived, CloseTransport, Left
  <2>2. kind # "streams" /\ inbox[c] = <<>>
    BY <1>3, <1>5 DEF ClientOK, TaskOK
  <2> QED BY <1>1, <1>2, <1>4, <2>1, <2>2, StepClose
<1>6. CASE kind # "protocol"
  <2>1. kind = "streams"
    BY <1>1, <1>6, EventServersAssumption DEF TypeOK, Reactor
  <2>2. /\ Register(fd, NoClient, writer[fd], batch[fd] \ {"in"}) /\ eof' = eof \cup {c}
        /\ stage' = stage
    BY <1>6 DEF EofReceived, Left
  <2>3. RegisteredAs(fd, NoClient, writer[fd], batch[fd] \ {"in"})
    <3>1. writer[fd] \in Clients \cup {NoClient} /\ batch[fd] \ {"in"} \subseteq {"in", "out"}
      BY <1>1 DEF TypeOK
    <3> QED BY <1>1, <2>2, <3>1, Registered
  <2>4. TypeOK'
    BY <1>1, <1>4, <2>2, <2>3 DEF TypeOK, SocketsTypeOK, sockets, RegisteredAs
  <2>5. Only(fd, c)
    BY <1>4, <2>2, <2>3 DEF Only, Kept, KeptStream, Alone, RegisteredAs, sockets
  <2>6. ClientOK(c)'
    <3>1. LinkedOK(c)' /\ StreamOK(c)'
      BY <1>2, <1>3, <1>4, <2>2 DEF ClientOK, LinkedOK, StreamOK, Holds, Cut, sockets
    <3>2. TaskOK(c)' /\ FlowOK(c)'
      BY <1>2, <1>3, <1>4, <2>1, <2>2 DEF ClientOK, TaskOK, FlowOK, Reactor, sockets
    <3> QED BY <3>1, <3>2 DEF ClientOK
  <2>7. ConnOK(fd)'
    <3>1. /\ sock'[fd] = c /\ reader'[fd] = NoClient /\ writer'[fd] = writer[fd]
          /\ batch'[fd] = batch[fd] \ {"in"} /\ buf'[c] = buf[c] /\ stage'[c] = "open"
      BY <1>2, <1>4, <2>2, <2>3 DEF RegisteredAs
    <3>2. writer[fd] \in {c, NoClient} /\ (writer[fd] = c <=> buf[c] # <<>>)
      BY <1>2, <1>3 DEF ConnOK, Lost
    <3>3. "out" \in batch[fd] => writer[fd] # NoClient /\ Writable(c)'
      BY <1>2, <1>3, <1>4 DEF ConnOK, Writable, sockets
    <3> QED BY <3>1, <3>2, <3>3 DEF ConnOK, Open, Lost
  <2>8. sock'[fd] = c /\ link'[c] = link[c]
    BY <1>2, <1>4 DEF sockets
  <2> QED BY <1>2, <2>4, <2>5, <2>6, <2>7, <2>8, ConnStep
<1> QED BY <1>5, <1>6

LEMMA StepReadEof == ASSUME IInv, NEW c \in Clients, ReadEof(c) PROVE IInv'
<1>1. /\ TypeOK /\ LinkInv /\ ClientOK(c) /\ task[c] = "read" /\ inbox[c] = <<>> /\ c \in eof
      /\ stage[c] = "open" /\ UNCHANGED <<sockets, kind, loop, sock, buf, inbox, eof, paused>>
  BY Parts DEF IInv, ReadEof
<1> PICK fd \in Fds : fd = FdOf(c) /\ sock[fd] = c /\ Open(fd)
  BY <1>1, ConnectionOf
<1>2. kind = "streams" /\ ~Reactor /\ ended[c] # "no"
  BY <1>1 DEF ClientOK, TaskOK, Reactor
<1>3. /\ stage' = [stage EXCEPT ![c] = IF buf[c] = <<>> THEN "lost" ELSE "closing"]
      /\ Register(fd, NoClient, writer[fd], batch[fd])
      /\ task' = [task EXCEPT ![c] = "wait_closed"]
  BY DEF ReadEof, CloseTransport, Goto
<1>4. batch[fd] = batch[fd] \ {"in"}
  <2>1. ConnOK(fd)
    BY Parts
  <2> QED BY <1>1, <2>1 DEF ConnOK
<1>5. Register(fd, NoClient, writer[fd], batch[fd] \ {"in"})
  BY <1>3, <1>4
<1> QED BY <1>1, <1>2, <1>3, <1>5, StepClose

--------------------------------------------------------------------------------
(* A connection breaks, while it is read, flushed or written to: what else  *)
(* the callback or the coroutine has changed is its own.                    *)
Others(c) == /\ DOMAIN inq' = Clients /\ DOMAIN inbox' = Clients
             /\ \A d \in Clients : inq'[d] \in Seq(Unit) /\ inbox'[d] \in Seq(Unit)
             /\ \A d \in Clients : d # c => /\ inq'[d] = inq[d] /\ inbox'[d] = inbox[d]
                                            /\ task'[d] = task[d]
             /\ task' \in [Clients -> Tasks]
             /\ kind # "streams" => task'[c] = task[c] /\ inbox'[c] = inbox[c]
             /\ UNCHANGED <<kind, loop, link, backlog, ended, sent, got, sock, eof>>

LEMMA StepBreak ==
  ASSUME IInv, NEW fd \in Fds, NEW c \in Clients, c = sock[fd], Open(fd), ~Reactor,
         stage[c] \in {"open", "closing"}, ended[c] = "reset", Break(c), Others(c),
         task'[c] \notin {"done", "failed"}
  PROVE  IInv'
<1>1. TypeOK /\ LinkInv /\ ClientOK(c) /\ FdOf(c) = fd
  <2>1. TypeOK /\ LinkInv /\ ClientOK(c)
    BY Parts DEF IInv
  <2> QED BY <2>1, OpenConnection
<1>2. /\ stage' = [stage EXCEPT ![c] = "broken"] /\ buf' = [buf EXCEPT ![c] = <<>>]
      /\ Register(fd, NoClient, NoClient, {}) /\ paused' = paused /\ outq' = outq
  BY <1>1 DEF Break, Unregister
<1>3. /\ stage' \in [Clients -> Stages] /\ stage'[c] = "broken"
      /\ \A d \in Clients : d # c => stage'[d] = stage[d]
  BY <1>1, <1>2 DEF TypeOK, Stages
<1>4. <<>> \in Seq(Unit)
  OBVIOUS
<1>5. /\ DOMAIN buf' = Clients /\ \A d \in Clients : buf'[d] \in Seq(Unit)
      /\ buf'[c] = <<>> /\ \A d \in Clients : d # c => buf'[d] = buf[d]
  BY <1>1, <1>2, <1>4, QueueSet DEF TypeOK
<1>6. RegisteredAs(fd, NoClient, NoClient, {})
  BY <1>1, <1>2, Registered
<1>7. TypeOK'
  <2>1. SocketsTypeOK'
    BY <1>1, <1>2 DEF TypeOK, SocketsTypeOK, Others
  <2> QED BY <1>1, <1>2, <1>3, <1>5, <1>6, <2>1 DEF TypeOK, Others, RegisteredAs, Stages, Tasks
<1>8. Only(fd, c)
  BY <1>2, <1>3, <1>5, <1>6 DEF Only, Others, Kept, KeptStream, Alone, RegisteredAs
<1>9. ClientOK(c)'
  <2>1. LinkedOK(c)'
    <3>1. link[c] = "open"
      BY <1>1 DEF ClientOK, LinkedOK
    <3> QED BY <1>3, <3>1 DEF LinkedOK, Others
  <2>2. StreamOK(c)'
    BY <1>1, <1>2 DEF ClientOK, StreamOK, Holds, Others
  <2>3. TaskOK(c)'
    BY <1>1, <1>3 DEF ClientOK, TaskOK, Reactor, Others
  <2>4. FlowOK(c)'
    <3>1. Len(<<>>) = 0 /\ HighWater \in Nat /\ ReadSize \in Nat
      BY EventServersAssumption
    <3>2. Len(buf'[c]) <= HighWater /\ Len(buf'[c]) <= HighWater + ReadSize
      BY <1>5, <3>1
    <3> QED BY <3>2 DEF FlowOK
  <2> QED BY <2>1, <2>2, <2>3, <2>4 DEF ClientOK
<1>10. ConnOK(fd)'
  <2>1. sock'[fd] = c
    BY DEF Others
  <2> QED BY <1>3, <1>6, <2>1 DEF ConnOK, Lost, RegisteredAs
<1>11. sock'[fd] = c /\ link'[c] = link[c]
  BY DEF Others
<1> QED BY <1>7, <1>8, <1>9, <1>10, <1>11, ConnStep

LEMMA StepBroken == ASSUME IInv, NEW fd \in Fds, ReadBreaks(fd) \/ FlushBreaks(fd) PROVE IInv'
<1>1. TypeOK /\ Typed
  BY Types DEF IInv
<1>2. PICK c \in Clients : /\ c = sock[fd] /\ Open(fd) /\ stage[c] \in {"open", "closing"}
                           /\ ~Reactor /\ ended[c] = "reset" /\ Break(c)
                           /\ UNCHANGED <<kind, loop, link, backlog, ended, sent, inq, got, sock,
                                          task, inbox, eof>>
  <2>1. CASE ReadBreaks(fd)
    BY <2>1, ReaderCalled DEF ReadBreaks, Called
  <2>2. CASE FlushBreaks(fd)
    BY <2>2, WriterCalled DEF FlushBreaks, Called
  <2> QED BY <2>1, <2>2
<1>3. Others(c)
  BY <1>1, <1>2 DEF Others, TypeOK, SocketsTypeOK, Tasks
<1>4. task'[c] \notin {"done", "failed"}
  <2>1. TaskOK(c)
    BY Parts DEF ClientOK
  <2> QED BY <1>2, <2>1 DEF TaskOK
<1> QED BY <1>2, <1>3, <1>4, StepBreak

--------------------------------------------------------------------------------
(* write() on a connection that has not broken: n of the units are sent at  *)
(* once, the others wait in the buffer.                                     *)
Sent(fd, c, u, n, r, q) ==
  /\ n \in 0..Len(u) /\ Len(outq[c]) + n <= Room
  /\ (buf[c] # <<>> => n = 0) /\ (ended[c] = "reset" => n = 0)
  /\ outq' = [outq EXCEPT ![c] = outq[c] \o SubSeq(u, 1, n)]
  /\ buf' = [buf EXCEPT ![c] = buf[c] \o SubSeq(u, n + 1, Len(u))]
  /\ paused' = IF Len(buf[c] \o SubSeq(u, n + 1, Len(u))) > HighWater
               THEN paused \cup {c} ELSE paused
  /\ Register(fd, r, IF buf[c] \o SubSeq(u, n + 1, Len(u)) = <<>> THEN writer[fd] ELSE c, q)
  /\ stage' = stage

LEMMA Writes ==
  ASSUME IInv, NEW fd \in Fds, NEW c \in Clients, FdOf(c) = fd, NEW u \in Seq(Unit), NEW r, NEW q,
         Write(c, u, r, q)
  PROVE  \/ buf[c] = <<>> /\ ended[c] = "reset" /\ Break(c)
         \/ \E n \in 0..Len(u) : Sent(fd, c, u, n, r, q)
<1>1. TypeOK /\ Typed /\ StreamOK(c) /\ Room \in Nat
  BY Types, Parts, SocketsAssumption DEF IInv, ClientOK
<1> DEFINE n == IF buf[c] = <<>> THEN Least(Len(u), Room - Len(outq[c])) ELSE 0
<1>2. n \in Nat /\ n \in 0..Len(u) /\ Len(outq[c]) + n <= Room
  <2>1. Len(outq[c]) \in Nat /\ Len(u) \in Nat /\ Len(outq[c]) <= Room
    BY <1>1 DEF Typed, StreamOK
  <2>2. CASE buf[c] = <<>>
    <3>1. /\ Least(Len(u), Room - Len(outq[c])) \in 0..Len(u)
          /\ Len(outq[c]) + Least(Len(u), Room - Len(outq[c])) <= Room
      BY <1>1, <2>1, LeastSent
    <3>2. n \in 0..Len(u) /\ Len(outq[c]) + n <= Room
      BY <2>2, <3>1
    <3> HIDE DEF n
    <3> QED BY <2>1, <3>2
  <2>3. CASE buf[c] # <<>>
    <3>1. n = 0
      BY <2>3
    <3> HIDE DEF n
    <3> QED BY <2>1, <3>1
  <2> QED BY <2>2, <2>3
<1>3. CASE buf[c] = <<>> /\ ended[c] = "reset"
  BY <1>3 DEF Write
<1>4. CASE ~(buf[c] = <<>> /\ ended[c] = "reset")
  <2>1. (buf[c] # <<>> => n = 0) /\ (ended[c] = "reset" => n = 0)
    BY <1>4
  <2>2. /\ outq' = [outq EXCEPT ![c] = @ \o SubSeq(u, 1, n)]
        /\ buf' = [buf EXCEPT ![c] = buf[c] \o SubSeq(u, n + 1, Len(u))]
        /\ paused' = IF Len(buf[c] \o SubSeq(u, n + 1, Len(u))) > HighWater
                     THEN paused \cup {c} ELSE paused
        /\ Register(fd, r, IF buf[c] \o SubSeq(u, n + 1, Len(u)) = <<>> THEN writer[fd] ELSE c, q)
        /\ stage' = stage
    BY <1>4 DEF Write, Unsent
  <2> HIDE DEF n
  <2>3. outq' = [outq EXCEPT ![c] = outq[c] \o SubSeq(u, 1, n)]
    BY <1>1, <2>2 DEF TypeOK, SocketsTypeOK
  <2>4. Sent(fd, c, u, n, r, q)
    BY <1>2, <2>1, <2>2, <2>3 DEF Sent
  <2> QED BY <1>2, <2>4
<1> QED BY <1>3, <1>4

(* The stream is whole when the units come out of what lies behind the      *)
(* buffer.                                                                  *)
WholeStream(c) == ended[c] # "reset" =>
  /\ Holds(outq'[c], c, Len(got[c])) /\ Len(got[c]) + Len(outq'[c]) <= sent[c]
  /\ Cut(c, Len(got[c]) + Len(outq'[c]), buf'[c], inbox'[c], inq'[c], sent[c])

LEMMA StepSent ==
  ASSUME IInv, NEW fd \in Fds, NEW c \in Clients, c = sock[fd], Open(fd), ~Reactor,
         stage[c] = "open", NEW u \in Seq(Unit), NEW n \in 0..Len(u),
         NEW r \in {c, NoClient},
         NEW q \in SUBSET batch[fd], Sent(fd, c, u, n, r, q), Others(c), WholeStream(c),
         c \in eof => r = NoClient,
         "in" \in q => r = c /\ (inq'[c] = inq[c] \/ ended[c] # "no" \/ inq'[c] # <<>>),
         kind = "streams" => task'[c] = "drain" /\ Len(buf[c]) <= HighWater /\ Len(u) <= ReadSize
  PROVE  IInv'
<1>1. TypeOK /\ Typed /\ ClientOK(c) /\ ConnOK(fd) /\ c # NoClient
  BY Types, Parts, EventServersAssumption DEF IInv
<1> PICK o \in Seq(Unit), b \in Seq(Unit) : o = outq[c] /\ b = buf[c]
  BY <1>1 DEF Typed
<1> DEFINE oo == o \o SubSeq(u, 1, n)
           bb == b \o SubSeq(u, n + 1, Len(u))
<1>2. /\ n \in 0..Len(u) /\ Len(o) + n <= Room /\ (b # <<>> => n = 0)
      /\ (ended[c] = "reset" => n = 0)
      /\ outq' = [outq EXCEPT ![c] = oo] /\ buf' = [buf EXCEPT ![c] = bb]
      /\ paused' = (IF Len(bb) > HighWater THEN paused \cup {c} ELSE paused)
      /\ Register(fd, r, IF bb = <<>> THEN writer[fd] ELSE c, q)
      /\ stage' = stage
  BY DEF Sent
<1>3. /\ oo \in Seq(Unit) /\ bb \in Seq(Unit) /\ Len(oo) = Len(o) + n
      /\ Len(bb) = Len(b) + (Len(u) - n)
  <2>1. oo \in Seq(Unit) /\ Len(oo) = Len(o) + n
    BY ShiftTypes
  <2> DEFINE w == SubSeq(u, n + 1, Len(u))
  <2>2. w \in Seq(Unit) /\ Len(w) = Len(u) - n
    BY CutBehind
  <2> HIDE DEF oo, w
  <2>3. \A v \in Seq(Unit) : b \o v \in Seq(Unit) /\ Len(b \o v) = Len(b) + Len(v)
    BY Joined
  <2> QED BY <2>1, <2>2, <2>3 DEF w
<1>4. ended[c] = "reset" => Holds(oo, c, Len(got[c])) /\ Len(oo) = Len(o)
  <2>1. Holds(o, c, Len(got[c]))
    BY <1>1 DEF ClientOK, StreamOK
  <2>2. Len(got[c]) \in Nat
    BY <1>1 DEF Typed
  <2> PICK m \in Nat : m = Len(got[c])
    BY <2>2
  <2>3. Holds(o \o SubSeq(u, 1, 0), c, m) /\ Len(o \o SubSeq(u, 1, 0)) = Len(o)
    BY <2>1, NothingSent
  <2> QED BY <1>2, <2>3
<1>5. bb = <<>> => b = <<>>
  <2>1. bb = <<>> => Len(bb) = 0
    OBVIOUS
  <2> HIDE DEF oo, bb
  <2>2. bb = <<>> => Len(b) = 0
    BY <1>2, <1>3, <2>1
  <2> QED BY <2>2
<1> HIDE DEF oo, bb
<1>6. /\ DOMAIN outq' = Clients /\ \A d \in Clients : outq'[d] \in Seq(Unit)
      /\ outq'[c] = oo /\ \A d \in Clients : d # c => outq'[d] = outq[d]
  BY <1>1, <1>2, <1>3, QueueSet DEF TypeOK, SocketsTypeOK
<1>7. /\ DOMAIN buf' = Clients /\ \A d \in Clients : buf'[d] \in Seq(Unit)
      /\ buf'[c] = bb /\ \A d \in Clients : d # c => buf'[d] = buf[d]
  BY <1>1, <1>2, <1>3, QueueSet DEF TypeOK
<1>8. RegisteredAs(fd, r, IF bb = <<>> THEN writer[fd] ELSE c, q)
  <2>1. /\ r \in Clients \cup {NoClient} /\ q \subseteq {"in", "out"}
        /\ (IF bb = <<>> THEN writer[fd] ELSE c) \in Clients \cup {NoClient}
    BY <1>1 DEF TypeOK
  <2> QED BY <1>1, <1>2, <2>1, Registered
<1>9. TypeOK'
  <2>1. SocketsTypeOK'
    BY <1>1, <1>6 DEF TypeOK, SocketsTypeOK, Others
  <2>2. paused' \subseteq Clients
    BY <1>1, <1>2 DEF TypeOK
  <2> QED BY <1>1, <1>2, <1>7, <1>8, <2>1, <2>2 DEF TypeOK, Others, RegisteredAs, Tasks
<1>10. Only(fd, c)
  <2>1. \A d \in Clients : d # c => (d \in paused' <=> d \in paused)
    BY <1>2
  <2> QED BY <1>2, <1>6, <1>7, <1>8, <2>1
      DEF Only, Others, Kept, KeptStream, Alone, RegisteredAs
<1>11. ClientOK(c)'
  <2>1. LinkedOK(c)'
    <3>1. link[c] = "open"
      BY <1>1 DEF ClientOK, LinkedOK
    <3> QED BY <1>2, <3>1 DEF LinkedOK, Others
  <2>2. StreamOK(c)'
    <3>0. got[c] \in Seq(Unit) /\ inbox'[c] \in Seq(Unit) /\ inq'[c] \in Seq(Unit) /\ sent[c] \in Nat
      BY <1>1 DEF Typed, Others
    <3> PICK g \in Seq(Unit), x \in Seq(Unit), i \in Seq(Unit), s \in Nat :
          g = got[c] /\ x = inbox'[c] /\ i = inq'[c] /\ s = sent[c]
      BY <3>0, Zenon
    <3>1. got'[c] = g /\ sent'[c] = s /\ ended'[c] = ended[c]
      BY DEF Others
    <3>2. Holds(g, c, 0) /\ Len(g) + Len(o) <= s
      BY <1>1 DEF ClientOK, StreamOK
    <3>3. Len(oo) <= Room
      BY <1>2, <1>3
    <3>4. Holds(oo, c, Len(g)) /\ Len(g) + Len(oo) <= s
      BY <1>4, <1>6, <3>2 DEF WholeStream
    <3>5. ended[c] # "reset" => Cut(c, Len(g) + Len(oo), bb, x, i, s)
      BY <1>6, <1>7 DEF WholeStream
    <3> QED BY <1>6, <1>7, <3>1, <3>2, <3>3, <3>4, <3>5, StreamThen
  <2>3. TaskOK(c)'
    <3>1. kind # "streams" => task'[c] = task[c] /\ inbox'[c] = inbox[c]
      BY DEF Others
    <3> QED BY <1>1, <1>2, <3>1 DEF ClientOK, TaskOK, Reactor, Others
  <2>4. FlowOK(c)'
    <3>1. /\ Len(bb) = Len(b) + (Len(u) - n) /\ Len(b) \in Nat /\ Len(u) \in Nat /\ n \in 0..Len(u)
          /\ Len(bb) \in Nat /\ HighWater \in Nat /\ ReadSize \in Nat
      <4>1. n \in 0..Len(u)
        BY <1>2
      <4>2. Len(bb) = Len(b) + (Len(u) - n) /\ Len(bb) \in Nat
        BY <1>3
      <4> QED BY <4>1, <4>2, EventServersAssumption
    <3>2. buf'[c] = bb /\ kind' = kind
      BY <1>7 DEF Others
    <3>3. c \notin paused' => Len(bb) <= HighWater
      BY <1>2, <3>1
    <3>4. kind = "streams" => Len(bb) <= HighWater + ReadSize
      BY <3>1
    <3>5. task'[c] # "read"
      BY <1>1 DEF ClientOK, TaskOK, Others
    <3> QED BY <3>2, <3>3, <3>4, <3>5 DEF FlowOK
  <2> QED BY <2>1, <2>2, <2>3, <2>4 DEF ClientOK
<1>12. ConnOK(fd)'
  <2>1. /\ sock'[fd] = c /\ reader'[fd] = r /\ batch'[fd] = q /\ buf'[c] = bb /\ stage'[c] = "open"
        /\ writer'[fd] = IF bb = <<>> THEN writer[fd] ELSE c
    BY <1>2, <1>7, <1>8 DEF RegisteredAs, Others
  <2>2. /\ writer[fd] \in {c, NoClient} /\ (writer[fd] = c <=> b # <<>>)
    BY <1>1 DEF ConnOK, Lost
  <2>3. writer'[fd] \in {c, NoClient} /\ (writer'[fd] = c <=> bb # <<>>)
    BY <1>5, <2>1, <2>2
  <2>4. "in" \in q => r # NoClient /\ Readable(c)'
    BY <1>1 DEF ConnOK, Readable, Others
  <2>5. "out" \in q => writer'[fd] # NoClient /\ Writable(c)'
    <3> HAVE "out" \in q
    <3>1. writer[fd] = c /\ Writable(c)
      BY <1>1, <2>2 DEF ConnOK
    <3>2. n = 0
      BY <1>2, <2>2, <3>1
    <3>3. Len(oo) = Len(o)
      BY <1>3, <3>2
    <3>4. Writable(c)'
      BY <1>6, <3>1, <3>3 DEF Writable, Others
    <3> QED BY <1>1, <2>1, <3>1, <3>4
  <2> QED BY <2>1, <2>3, <2>4, <2>5 DEF ConnOK, Lost, Readable, Writable, Others
<1>13. sock'[fd] = c /\ link'[c] = link[c]
  BY DEF Others
<1> QED BY <1>9, <1>10, <1>11, <1>12, <1>13, ConnStep

(* The units written are the first k of x.                                  *)
LEMMA CutMove ==
  ASSUME NEW c, NEW g \in Nat, NEW o \in Seq(Unit), NEW b \in Seq(Unit), NEW x \in Seq(Unit),
         NEW i \in Seq(Unit), NEW s \in Nat, Holds(o, c, g), Cut(c, g + Len(o), b, x, i, s),
         NEW k \in 0..Len(x), NEW u, u = SubSeq(x, 1, k), NEW n \in 0..Len(u), b # <<>> => n = 0
  PROVE  /\ Holds(o \o SubSeq(u, 1, n), c, g)
         /\ Cut(c, g + Len(o \o SubSeq(u, 1, n)), b \o SubSeq(u, n + 1, Len(u)),
                SubSeq(x, k + 1, Len(x)), i, s)
         /\ g + Len(o \o SubSeq(u, 1, n)) <= s
<1> DEFINE xx == SubSeq(x, k + 1, Len(x))
<1>1. u \in Seq(Unit) /\ Len(u) = k
  BY CutBefore
<1>2. xx \in Seq(Unit) /\ Len(xx) = Len(x) - k
  BY CutBehind
<1>3. g + Len(o) \in Nat
  OBVIOUS
<1>4. Holds(u, c, g + Len(o) + Len(b)) /\ Holds(xx, c, g + Len(o) + Len(b) + k)
  <2> PICK m \in Nat : m = g + Len(o)
    BY <1>3
  <2>1. Cut(c, m, b, x, i, s)
    OBVIOUS
  <2>2. Holds(SubSeq(x, 1, k), c, m + Len(b)) /\ Holds(SubSeq(x, k + 1, Len(x)), c, m + Len(b) + k)
    BY <2>1, CutTake
  <2> QED BY <2>2
<1> HIDE DEF xx
<1>5. Len(u) <= Len(x) /\ Len(xx) = Len(x) - Len(u)
  BY <1>1, <1>2
<1>6. Holds(xx, c, g + Len(o) + Len(b) + Len(u))
  BY <1>1, <1>4
<1>7. /\ Holds(o \o SubSeq(u, 1, n), c, g)
      /\ Cut(c, g + Len(o \o SubSeq(u, 1, n)), b \o SubSeq(u, n + 1, Len(u)), xx, i, s)
      /\ g + Len(o \o SubSeq(u, 1, n)) <= s
  BY <1>1, <1>2, <1>4, <1>5, <1>6, CutWrite
<1> QED BY <1>7 DEF xx

(* The same out of what has been received, when there is no stream reader.  *)
LEMMA CutPass ==
  ASSUME NEW c, NEW g \in Nat, NEW o \in Seq(Unit), NEW b \in Seq(Unit), NEW x \in Seq(Unit),
         NEW y \in Seq(Unit), NEW s \in Nat, Holds(o, c, g), Cut(c, g + Len(o), b, x, y, s), x = <<>>,
         NEW k \in 0..Len(y), NEW u \in Seq(Unit), u = SubSeq(y, 1, k),
         NEW n \in 0..Len(u), b # <<>> => n = 0
  PROVE  /\ Holds(o \o SubSeq(u, 1, n), c, g)
         /\ Cut(c, g + Len(o \o SubSeq(u, 1, n)), b \o SubSeq(u, n + 1, Len(u)), x,
                SubSeq(y, k + 1, Len(y)), s)
         /\ g + Len(o \o SubSeq(u, 1, n)) <= s
<1>1. Cut(c, g + Len(o), b, y, x, s)
  <2> PICK m \in Nat : m = g + Len(o)
    OBVIOUS
  <2>1. Cut(c, m, b, y, x, s)
    BY CutSwap
  <2> QED BY <2>1
<1> DEFINE oo == o \o SubSeq(u, 1, n)
           bb == b \o SubSeq(u, n + 1, Len(u))
           yy == SubSeq(y, k + 1, Len(y))
<1>2. Holds(oo, c, g) /\ Cut(c, g + Len(oo), bb, yy, x, s) /\ g + Len(oo) <= s
  BY <1>1, CutMove
<1>3. bb \in Seq(Unit) /\ oo \in Seq(Unit)
  BY WriteTypes
<1>4. yy \in Seq(Unit)
  BY CutBehind
<1> HIDE DEF oo, bb, yy
<1>5. Cut(c, g + Len(oo), bb, x, yy, s)
  <2> PICK m \in Nat : m = g + Len(oo)
    BY <1>3
  <2>1. Cut(c, m, bb, x, yy, s)
    BY <1>2, <1>3, <1>4, CutSwap
  <2> QED BY <2>1
<1> QED BY <1>2, <1>5 DEF oo, bb, yy

LEMMA PassedStream ==
  ASSUME Typed, NEW c \in Clients, StreamOK(c), ended[c] # "reset", inbox[c] = <<>>,
         NEW k \in 0..Len(inq[c]), NEW u \in Seq(Unit), u = SubSeq(inq[c], 1, k),
         NEW n \in 0..Len(u), buf[c] # <<>> => n = 0
  PROVE  /\ Holds(outq[c] \o SubSeq(u, 1, n), c, Len(got[c]))
         /\ Cut(c, Len(got[c]) + Len(outq[c] \o SubSeq(u, 1, n)),
                buf[c] \o SubSeq(u, n + 1, Len(u)), inbox[c],
                SubSeq(inq[c], k + 1, Len(inq[c])), sent[c])
         /\ Len(got[c]) + Len(outq[c] \o SubSeq(u, 1, n)) <= sent[c]
<1>1. /\ Len(got[c]) \in Nat /\ outq[c] \in Seq(Unit) /\ buf[c] \in Seq(Unit)
      /\ inbox[c] \in Seq(Unit) /\ inq[c] \in Seq(Unit) /\ sent[c] \in Nat
  BY DEF Typed
<1>2. /\ Holds(outq[c], c, Len(got[c]))
      /\ Cut(c, Len(got[c]) + Len(outq[c]), buf[c], inbox[c], inq[c], sent[c])
  BY DEF StreamOK
<1> QED BY <1>1, <1>2, CutPass

LEMMA StepDataReceived == ASSUME IInv, NEW fd \in Fds, DataReceived(fd) PROVE IInv'
<1>1. TypeOK /\ Typed /\ kind = "protocol" /\ ~Reactor /\ "in" \in batch[fd]
  BY Types DEF IInv, DataReceived, Called, Reactor
<1> PICK c \in Clients : c = reader[fd]
  BY <1>1, ReaderCalled
<1>2. c = sock[fd] /\ Open(fd) /\ stage[c] = "open" /\ c \notin eof /\ FdOf(c) = fd
  BY <1>1, ReaderCalled
<1>3. StreamOK(c) /\ inbox[c] = <<>> /\ task[c] = "none"
  BY <1>1, Parts DEF ClientOK, TaskOK
<1> PICK y \in Seq(Unit) : y = inq[c]
  BY <1>1 DEF Typed
<1>4. PICK k \in 1..Len(y) : /\ inq' = [inq EXCEPT ![c] = SubSeq(@, k + 1, Len(@))]
                             /\ UNCHANGED <<link, backlog, ended, sent, got>>
                             /\ Write(c, SubSeq(y, 1, k), c, batch[fd] \ {"in"})
  BY DEF DataReceived, Take, Left
<1>5. UNCHANGED <<kind, loop, sock, task, inbox, eof>>
  BY DEF DataReceived
<1>6. k \in 0..Len(y)
  OBVIOUS
<1>7. SubSeq(y, 1, k) \in Seq(Unit) /\ SubSeq(y, k + 1, Len(y)) \in Seq(Unit)
  BY <1>6, CutBefore, CutBehind
<1>8. /\ DOMAIN inq' = Clients /\ \A d \in Clients : inq'[d] \in Seq(Unit)
      /\ inq'[c] = SubSeq(y, k + 1, Len(y)) /\ \A d \in Clients : d # c => inq'[d] = inq[d]
  BY <1>1, <1>4, <1>7, QueueSet DEF TypeOK, SocketsTypeOK
<1>9. Others(c)
  BY <1>1, <1>4, <1>5, <1>8 DEF Others, TypeOK, SocketsTypeOK, Tasks
<1> PICK u \in Seq(Unit) : u = SubSeq(y, 1, k)
  BY <1>7
<1>10. Write(c, u, c, batch[fd] \ {"in"})
  BY <1>4
<1>11. CASE ended[c] = "reset" /\ Break(c)
  BY <1>1, <1>2, <1>3, <1>5, <1>9, <1>11, StepBreak
<1>12. ASSUME NEW n \in 0..Len(u), Sent(fd, c, u, n, c, batch[fd] \ {"in"}) PROVE IInv'
  <2>1. WholeStream(c)
    <3> SUFFICES ASSUME ended[c] # "reset"
                 PROVE  /\ Holds(outq'[c], c, Len(got[c]))
                        /\ Len(got[c]) + Len(outq'[c]) <= sent[c]
                        /\ Cut(c, Len(got[c]) + Len(outq'[c]), buf'[c], inbox'[c], inq'[c], sent[c])
      BY DEF WholeStream
    <3>1. buf[c] # <<>> => n = 0
      BY <1>12 DEF Sent
    <3>2. /\ Holds(outq[c] \o SubSeq(u, 1, n), c, Len(got[c]))
          /\ Cut(c, Len(got[c]) + Len(outq[c] \o SubSeq(u, 1, n)),
                 buf[c] \o SubSeq(u, n + 1, Len(u)), inbox[c],
                 SubSeq(y, k + 1, Len(y)), sent[c])
          /\ Len(got[c]) + Len(outq[c] \o SubSeq(u, 1, n)) <= sent[c]
      BY <1>1, <1>3, <1>6, <3>1, PassedStream
    <3>3. /\ outq'[c] = outq[c] \o SubSeq(u, 1, n) /\ buf'[c] = buf[c] \o SubSeq(u, n + 1, Len(u))
          /\ inq'[c] = SubSeq(y, k + 1, Len(y)) /\ inbox'[c] = inbox[c]
      BY <1>1, <1>5, <1>8, <1>12 DEF Sent, TypeOK, SocketsTypeOK
    <3> QED BY <3>2, <3>3
  <2>2. batch[fd] \ {"in"} \in SUBSET batch[fd] /\ c \in {c, NoClient} /\ "in" \notin batch[fd] \ {"in"}
    OBVIOUS
  <2> QED BY <1>1, <1>2, <1>9, <1>12, <2>1, <2>2, StepSent
<1> QED BY <1>2, <1>10, <1>11, <1>12, Writes

(* The coroutine writes what it has read out of the stream reader.          *)
LEMMA ReadStream ==
  ASSUME Typed, NEW c \in Clients, StreamOK(c), ended[c] # "reset",
         NEW k \in 0..Len(inbox[c]), NEW u \in Seq(Unit), u = SubSeq(inbox[c], 1, k),
         NEW n \in 0..Len(u), buf[c] # <<>> => n = 0
  PROVE  /\ Holds(outq[c] \o SubSeq(u, 1, n), c, Len(got[c]))
         /\ Cut(c, Len(got[c]) + Len(outq[c] \o SubSeq(u, 1, n)),
                buf[c] \o SubSeq(u, n + 1, Len(u)), SubSeq(inbox[c], k + 1, Len(inbox[c])),
                inq[c], sent[c])
         /\ Len(got[c]) + Len(outq[c] \o SubSeq(u, 1, n)) <= sent[c]
<1>1. /\ Len(got[c]) \in Nat /\ outq[c] \in Seq(Unit) /\ buf[c] \in Seq(Unit)
      /\ inbox[c] \in Seq(Unit) /\ inq[c] \in Seq(Unit) /\ sent[c] \in Nat
  BY DEF Typed
<1>2. /\ Holds(outq[c], c, Len(got[c]))
      /\ Cut(c, Len(got[c]) + Len(outq[c]), buf[c], inbox[c], inq[c], sent[c])
  BY DEF StreamOK
<1> QED BY <1>1, <1>2, CutMove

LEMMA StepReadData == ASSUME IInv, NEW c \in Clients, ReadData(c), ~Lost(c) PROVE IInv'
<1>1. TypeOK /\ LinkInv /\ Typed /\ ClientOK(c)
  BY Types, Parts DEF IInv
<1>2. task[c] = "read" /\ stage[c] = "open" /\ kind = "streams" /\ ~Reactor
  <2>1. task[c] = "read" /\ stage[c] \in {"none", "open", "closing"}
    BY <1>1 DEF ReadData, Lost, TypeOK
  <2> QED BY <1>1, <2>1 DEF ClientOK, TaskOK, LinkedOK, Reactor
<1> PICK fd \in Fds : fd = FdOf(c) /\ sock[fd] = c /\ Open(fd)
  BY <1>1, <1>2, ConnectionOf
<1>3. ConnOK(fd)
  BY Parts
<1>4. PICK k \in 0..Len(inbox[c]) : k <= ReadSize /\ k = Least(ReadSize, Len(inbox[c]))
  <2>1. \A m, n \in Nat : Least(m, n) \in 0..n /\ Least(m, n) <= m
    BY DEF Least
  <2>2. ReadSize \in Nat /\ Len(inbox[c]) \in Nat
    BY <1>1, EventServersAssumption DEF Typed
  <2> QED BY <2>1, <2>2
<1>5. /\ inbox' = [inbox EXCEPT ![c] = SubSeq(@, k + 1, Len(@))]
      /\ task' = [task EXCEPT ![c] = "drain"]
      /\ \E r \in {c, reader[fd]} : /\ r = c => c \notin eof \/ r = reader[fd]
                                    /\ Write(c, SubSeq(inbox[c], 1, k), r, batch[fd])
      /\ UNCHANGED <<kind, loop, link, backlog, ended, sent, inq, got, sock, eof>>
  BY <1>4 DEF ReadData, Goto
<1>a. PICK r \in {c, reader[fd]} : /\ r = c => c \notin eof \/ r = reader[fd]
                                  /\ Write(c, SubSeq(inbox[c], 1, k), r, batch[fd])
  BY <1>5
<1>6. /\ SubSeq(inbox[c], 1, k) \in Seq(Unit) /\ SubSeq(inbox[c], k + 1, Len(inbox[c])) \in Seq(Unit)
      /\ Len(SubSeq(inbox[c], 1, k)) = k
  <2> PICK x \in Seq(Unit) : x = inbox[c]
    BY <1>1 DEF Typed
  <2>1. k \in 0..Len(x)
    OBVIOUS
  <2> QED BY <2>1, CutBefore, CutBehind
<1>b. PICK u \in Seq(Unit) : u = SubSeq(inbox[c], 1, k)
  BY <1>6
<1>7. /\ DOMAIN inbox' = Clients /\ \A d \in Clients : inbox'[d] \in Seq(Unit)
      /\ inbox'[c] = SubSeq(inbox[c], k + 1, Len(inbox[c]))
      /\ \A d \in Clients : d # c => inbox'[d] = inbox[d]
  BY <1>1, <1>5, <1>6, QueueSet DEF TypeOK
<1>8. task'[c] = "drain"
  BY <1>1, <1>5 DEF TypeOK
<1>9. Others(c)
  BY <1>1, <1>2, <1>5, <1>7 DEF Others, TypeOK, SocketsTypeOK, Tasks
<1>10. Write(c, u, r, batch[fd])
  BY <1>a, <1>b
<1>11. CASE ended[c] = "reset" /\ Break(c)
  BY <1>2, <1>8, <1>9, <1>11, StepBreak
<1>12. ASSUME NEW n \in 0..Len(u), Sent(fd, c, u, n, r, batch[fd]) PROVE IInv'
  <2>1. WholeStream(c)
    <3> SUFFICES ASSUME ended[c] # "reset"
                 PROVE  /\ Holds(outq'[c], c, Len(got[c]))
                        /\ Len(got[c]) + Len(outq'[c]) <= sent[c]
                        /\ Cut(c, Len(got[c]) + Len(outq'[c]), buf'[c], inbox'[c], inq'[c], sent[c])
      BY DEF WholeStream
    <3>1. buf[c] # <<>> => n = 0
      BY <1>12 DEF Sent
    <3>2. StreamOK(c)
      BY <1>1 DEF ClientOK
    <3>3. /\ Holds(outq[c] \o SubSeq(u, 1, n), c, Len(got[c]))
          /\ Cut(c, Len(got[c]) + Len(outq[c] \o SubSeq(u, 1, n)),
                 buf[c] \o SubSeq(u, n + 1, Len(u)), SubSeq(inbox[c], k + 1, Len(inbox[c])),
                 inq[c], sent[c])
          /\ Len(got[c]) + Len(outq[c] \o SubSeq(u, 1, n)) <= sent[c]
      BY <1>1, <1>b, <3>1, <3>2, ReadStream
    <3>4. /\ outq'[c] = outq[c] \o SubSeq(u, 1, n) /\ buf'[c] = buf[c] \o SubSeq(u, n + 1, Len(u))
          /\ inbox'[c] = SubSeq(inbox[c], k + 1, Len(inbox[c])) /\ inq'[c] = inq[c]
      BY <1>1, <1>5, <1>7, <1>12 DEF Sent, TypeOK, SocketsTypeOK
    <3> QED BY <3>3, <3>4
  <2>0. PICK q \in SUBSET batch[fd] : q = batch[fd]
    OBVIOUS
  <2>2. /\ r \in {c, NoClient} /\ (c \in eof => r = NoClient)
        /\ "in" \in batch[fd] => r = c
    BY <1>2, <1>3, <1>a DEF ConnOK
  <2>3. Len(buf[c]) <= HighWater /\ Len(u) <= ReadSize
    BY <1>1, <1>2, <1>4, <1>6, <1>b DEF ClientOK, FlowOK
  <2>4. inq'[c] = inq[c]
    BY <1>5
  <2>5. /\ kind = "streams" => task'[c] = "drain" /\ Len(buf[c]) <= HighWater /\ Len(u) <= ReadSize
        /\ "in" \in q => r = c /\ (inq'[c] = inq[c] \/ ended[c] # "no" \/ inq'[c] # <<>>)
        /\ c = sock[fd] /\ Open(fd)
    BY <1>8, <2>0, <2>2, <2>3, <2>4
  <2>6. Sent(fd, c, u, n, r, q)
    BY <1>12, <2>0
  <2>7. /\ q \in SUBSET batch[fd] /\ r \in {c, NoClient} /\ (c \in eof => r = NoClient)
        /\ ~Reactor /\ stage[c] = "open"
    BY <1>2, <2>2
  <2>8. \A v \in Seq(Unit) : \A m : m \in 0..Len(v) /\ Sent(fd, c, v, m, r, q) /\ Len(v) <= ReadSize => IInv'
    BY <1>9, <2>1, <2>5, <2>7, StepSent
  <2>9. u \in Seq(Unit) /\ n \in 0..Len(u) /\ Len(u) <= ReadSize
    BY <2>3
  <2> QED BY <2>6, <2>8, <2>9, Zenon
<1> QED BY <1>10, <1>11, <1>12, Writes

--------------------------------------------------------------------------------
LEMMA StepStutter == ASSUME IInv, UNCHANGED vars PROVE IInv'
<1> USE DEF vars, sockets, server, streams
<1>1. TypeOK'
  BY DEF IInv, TypeOK, SocketsTypeOK
<1>2. BacklogOK' /\ SocksOK'
  BY Parts DEF BacklogOK, SocksOK, Open
<1>3. ASSUME NEW c \in Clients PROVE ClientOK(c)'
  BY Parts, ClientSame DEF Kept, KeptStream
<1>4. ASSUME NEW fd \in Fds PROVE ConnOK(fd)'
  BY Parts DEF ConnOK, Open, Lost, Readable, Writable
<1> QED BY <1>1, <1>2, <1>3, <1>4, PartsNext

LEMMA StepClient ==
  ASSUME IInv, NEW c \in Clients,
         ClientStep(c) \/ ClientReads(c) \/ ConnectionLost(c) \/ Coroutine(c)
  PROVE  IInv'
<1>1. CASE ClientStep(c) \/ ClientReads(c)
  BY <1>1, StepConnect, StepSend, StepFin, StepReset, StepReceive DEF ClientStep, ClientReads
<1>2. CASE ConnectionLost(c)
  BY <1>2, StepLost
<1>3. CASE Coroutine(c)
  <2>1. CASE ReadData(c)
    BY <2>1, StepReadBroken, StepReadData
  <2>2. CASE Drained(c) \/ Raised(c) \/ WaitClosed(c)
    BY <2>2, StepTask
  <2>3. CASE ReadEof(c)
    BY <2>3, StepReadEof
  <2> QED BY <1>3, <2>1, <2>2, <2>3 DEF Coroutine
<1> QED BY <1>1, <1>2, <1>3

LEMMA StepCallback == ASSUME IInv, NEW fd \in Fds, Callback(fd) PROVE IInv'
<1>1. CASE OnRead(fd)
  BY <1>1, StepOnRead
<1>2. CASE OnReadEnd(fd) \/ OnWriteError(fd)
  BY <1>2, StepReactorEnds
<1>3. CASE OnWrite(fd) \/ Flush(fd)
  <2>1. writer[fd] \in Clients
    BY <1>3, WriterCalled DEF OnWrite, Flush, Called
  <2>2. PICK n \in Nat : Flushing(fd, writer[fd], n)
    BY <1>3, Flushes
  <2> QED BY <2>1, <2>2, StepFlushing
<1>4. CASE DataReceived(fd)
  BY <1>4, StepDataReceived
<1>5. CASE FeedData(fd)
  BY <1>5, StepFeedData
<1>6. CASE EofReceived(fd)
  BY <1>6, StepEofReceived
<1>7. CASE ReadBreaks(fd) \/ FlushBreaks(fd)
  BY <1>7, StepBroken
<1> QED BY <1>1, <1>2, <1>3, <1>4, <1>5, <1>6, <1>7 DEF Callback

LEMMA Initially == Init => IInv
<1> SUFFICES ASSUME Init PROVE IInv
  OBVIOUS
<1>1. TypeOK
  <2>1. SocketsTypeOK
    <3>1. \A c \in Clients : 0 <= MaxUnits[c]
      BY SocketsAssumption
    <3>2. <<>> \in Seq(Clients) /\ <<>> \in Seq(Unit)
      OBVIOUS
    <3> QED BY <3>1, <3>2 DEF Init, SocketsInit, SocketsTypeOK
  <2>2. batch \in [Fds \cup {Listener} -> SUBSET {"in", "out"}]
    BY DEF Init, NoEvents
  <2>3. <<>> \in Seq(Unit)
    OBVIOUS
  <2> QED BY <2>1, <2>2, <2>3 DEF Init, TypeOK
<1>2. BacklogOK
  BY DEF Init, SocketsInit, BacklogOK, NoEvents
<1>3. SocksOK
  BY EventServersAssumption DEF Init, SocketsInit, SocksOK, Open
<1>4. ASSUME NEW c \in Clients PROVE ClientOK(c)
  <2>1. /\ got[c] = <<>> /\ outq[c] = <<>> /\ inq[c] = <<>> /\ buf[c] = <<>> /\ inbox[c] = <<>>
        /\ sent[c] = 0 /\ stage[c] = "none" /\ task[c] = "none" /\ link[c] = "away"
        /\ eof = {} /\ paused = {}
    BY DEF Init, SocketsInit
  <2>2. /\ Len(<<>>) = 0 /\ Room \in Nat /\ HighWater \in Nat /\ ReadSize \in Nat
    BY SocketsAssumption, EventServersAssumption
  <2>3. LinkedOK(c) /\ TaskOK(c)
    BY <2>1 DEF LinkedOK, TaskOK
  <2>4. StreamOK(c)
    <3>1. Cut(c, 0, <<>>, <<>>, <<>>, 0)
      BY HoldsNothing DEF Cut
    <3>2. Len(got[c]) = 0 /\ Len(outq[c]) = 0 /\ 0 + 0 = 0 /\ 0 <= Room
      BY <2>1, <2>2
    <3> QED BY <2>1, <3>1, <3>2, HoldsNothing DEF StreamOK
  <2>5. FlowOK(c)
    <3>1. Len(buf[c]) <= HighWater /\ Len(buf[c]) <= HighWater + ReadSize
      BY <2>1, <2>2
    <3> QED BY <3>1 DEF FlowOK
  <2> QED BY <2>3, <2>4, <2>5 DEF ClientOK
<1>5. ASSUME NEW fd \in Fds PROVE ConnOK(fd)
  BY DEF Init, ConnOK, Open, NoEvents
<1> QED BY <1>1, <1>2, <1>3, <1>4, <1>5, Parts

LEMMA Inductive == IInv /\ [Next]_vars => IInv'
<1> SUFFICES ASSUME IInv, [Next]_vars PROVE IInv'
  OBVIOUS
<1>1. CASE \E c \in Clients : \/ ClientStep(c) \/ ClientReads(c)
                              \/ ConnectionLost(c) \/ Coroutine(c)
  BY <1>1, StepClient
<1>2. CASE Ask
  BY <1>2, StepAsk
<1>3. CASE Accept
  BY <1>3, StepAccept
<1>4. CASE \E fd \in Fds : Callback(fd)
  BY <1>4, StepCallback
<1>5. CASE Stop
  BY <1>5, StepStop
<1>6. CASE Idle \/ UNCHANGED vars
  BY <1>6, StepStutter DEF Idle
<1> QED BY <1>1, <1>2, <1>3, <1>4, <1>5, <1>6 DEF Next

(* Of every client at any time: which connection is its and where its       *)
(* handler or transport and its coroutine are, where its units are, how     *)
(* many are buffered, and which callbacks are registered and queued.        *)
THEOREM Invariance == Spec => []IInv
BY Initially, Inductive, PTL DEF Spec

(* No callback, registered or queued in the loop, outlives its connection:  *)
(* on_read, on_write and the transport's are run only on a socket that is   *)
(* theirs and that is still as the selector has said.                       *)
THEOREM CallbacksAreOfTheOpen == Spec => []NoCallbackOfTheClosed
<1>1. IInv => NoCallbackOfTheClosed
  BY DEF IInv
<1> QED BY <1>1, Invariance, PTL

(* The coroutine that awaits drain() keeps the buffer of its transport      *)
(* within the high-water mark and one read.                                 *)
THEOREM BufferIsBounded == Spec => []DrainHoldsBack
<1>1. IInv => DrainHoldsBack
  BY DEF IInv, FlowInv, DrainHoldsBack
<1> QED BY <1>1, Invariance, PTL

(* To its clients each server is the EchoService: Send is its Send, the     *)
(* client's Receive its GiveBack, and every other step a stutter.           *)
THEOREM EveryServerEchoes == Spec => IsEchoService
<1>1. Init => Service!Init
  BY DEF Init, SocketsInit, Service!Init
<1>2. IInv /\ [Next]_vars => [Service!Next]_Service!vars
  <2> SUFFICES ASSUME IInv, [Next]_vars PROVE Service!Next \/ UNCHANGED <<sent, got>>
    BY DEF Service!vars
  <2>1. TypeOK /\ \A c \in Clients : StreamOK(c)
    BY Parts DEF ClientOK
  <2>2. ASSUME NEW c \in Clients, Send(c) PROVE Service!Send(c)
    BY <2>2 DEF Send, Service!Send
  <2>3. ASSUME NEW c \in Clients, Receive(c) PROVE Service!GiveBack(c)
    <3>1. /\ got' = [got EXCEPT ![c] = Append(got[c], <<c, Len(got[c]) + 1>>)]
          /\ Len(got[c]) \in Nat /\ Len(outq[c]) \in Nat /\ Len(outq[c]) > 0 /\ sent' = sent
      BY <2>1, <2>3, ReceiveTakes DEF StreamOK
    <3>2. Len(got[c]) < sent[c]
      <4>1. \A m, n, s \in Nat : n > 0 /\ m + n <= s => m < s
        OBVIOUS
      <4>2. Len(got[c]) + Len(outq[c]) <= sent[c] /\ sent[c] \in Nat
        BY <2>1 DEF StreamOK, TypeOK, SocketsTypeOK
      <4> QED BY <3>1, <4>1, <4>2
    <3> QED BY <2>1, <3>1, <3>2 DEF Service!GiveBack, TypeOK, SocketsTypeOK
  <2>4. CASE \E c \in Clients : Send(c) \/ Receive(c)
    BY <2>2, <2>3, <2>4 DEF Service!Next
  <2>5. ASSUME NEW c \in Clients, ~Send(c), ~Receive(c),
               ClientStep(c) \/ ClientReads(c) \/ ConnectionLost(c) \/ Coroutine(c)
        PROVE  UNCHANGED <<sent, got>>
    <3>1. CASE ClientStep(c) \/ ClientReads(c)
      BY <2>5, <3>1 DEF ClientStep, ClientReads, Connect, Fin, Reset
    <3>2. CASE ConnectionLost(c)
      BY <3>2 DEF ConnectionLost
    <3>3. CASE Coroutine(c)
      BY <3>3 DEF Coroutine, ReadData, Drained, ReadEof, Raised, WaitClosed, sockets
    <3> QED BY <2>5, <3>1, <3>2, <3>3
  <2>6. ASSUME NEW fd \in Fds, Callback(fd) PROVE UNCHANGED <<sent, got>>
    <3>1. CASE OnRead(fd) \/ OnReadEnd(fd) \/ OnWrite(fd) \/ OnWriteError(fd)
      BY <3>1 DEF OnRead, OnReadEnd, OnWrite, OnWriteError, HandlerCloses, Take
    <3>2. CASE DataReceived(fd) \/ FeedData(fd) \/ EofReceived(fd)
      BY <3>2 DEF DataReceived, FeedData, EofReceived, Take, sockets
    <3>3. CASE ReadBreaks(fd) \/ Flush(fd) \/ FlushBreaks(fd)
      BY <3>3 DEF ReadBreaks, Flush, FlushBreaks
    <3> QED BY <2>6, <3>1, <3>2, <3>3 DEF Callback
  <2>7. CASE Ask \/ Accept \/ Stop \/ Idle \/ UNCHANGED vars
    BY <2>7 DEF Ask, Accept, Stop, Idle, vars, sockets
  <2> QED BY <2>4, <2>5, <2>6, <2>7 DEF Next
<1> QED BY <1>1, <1>2, Invariance, PTL DEF Spec, IsEchoService, Service!Spec
================================================================================
