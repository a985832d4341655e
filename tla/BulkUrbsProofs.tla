--------------------------- MODULE BulkUrbsProofs ---------------------------
(***************************************************************************)
(* The safety of a bulk URB, for a series of any length, any number of     *)
(* submissions and any number of faults, with a client that submits it     *)
(* again only when it was good (CarefulClient).                            *)
(*                                                                         *)
(* Each part of a round is in one place: still to be submitted, with the   *)
(* device, waiting to be reaped, or reaped.  The device takes the parts in *)
(* order, so when the last one comes back good no other is left, and the   *)
(* whole series may be submitted again.                                    *)
(***************************************************************************)
EXTENDS BulkUrbs, BulkTransferProofs, SequenceTheorems

\* A client that resubmits after a success only.
CarefulClient == Resubmits \subseteq {TRUE}

-----------------------------------------------------------------------------
(***************************************************************************)
(* The inductive invariant.                                                *)
(***************************************************************************)

Holding == {"submit", "undo", "kill", "join"}

\* Who has the mutex, and what the two threads cannot do at one time.
Mutex ==
  /\ mutex = {"caller"} <=> user \in Holding
  /\ mutex = {"reader"} => reader = "resubmit"
  /\ reader = "resubmit" => user \notin {"idle", "submit"}
  /\ reader = "resubmit" /\ parts > 1 => mutex = {"reader"}

\* Before the URB is submitted there is nothing of it.
Fresh ==
  user = "idle" =>
    /\ flight = <<>> /\ done = <<>> /\ length = 0 /\ calls = 0 /\ ~disturbed
    /\ reader \notin {"callback", "lock", "resubmit"} /\ parts = 1

\* How many parts of this round were submitted or refused.
Begun == IF user = "idle" THEN 0
         ELSE IF user = "submit" THEN next - 1
         ELSE IF reader = "resubmit" THEN rnext - 1
         ELSE parts

\* Parts are with the device in order, and none is in two places.
Apart(f, d) ==
  /\ \A i, j \in 1..Len(f) : i < j => f[i] < f[j]
  /\ \A i, j \in 1..Len(d) : d[i].part = d[j].part => i = j
  /\ \A i \in 1..Len(f), j \in 1..Len(d) : f[i] # d[j].part

UpTo(f, d, n) ==
  /\ \A i \in 1..Len(f) : f[i] <= n
  /\ \A j \in 1..Len(d) : d[j].part <= n

\* When the last part comes back good it is the end of the round.
GoodLast(f, d) ==
  \A j \in 1..Len(d) : d[j].good /\ d[j].part = parts => j = Len(d) /\ f = <<>>

Nothing == flight = <<>> /\ done = <<>>

\* So nothing is left when its callback comes.
Cleared == reader \in {"callback", "lock"} /\ ok => Nothing /\ Begun = parts

Resubmitting == reader = "lock" => ok /\ rounds < MaxRounds

\* A part has its length counted once.
Counted == length + Len(done) + Len(flight) <= Begun

\* Of a round in which nothing was refused or discarded, either all has gone
\* well so far, and the callback is still to come ...
Whole ==
  /\ \A j \in 1..Len(done) : done[j].good
  /\ calls = 0 /\ (reader = "callback" => ok)
  /\ length + Len(done) + Len(flight) = Begun

\* ... or the last part is not to come back good: it was reaped, or was
\* cancelled, or will be refused.
Over ==
  /\ \A j \in 1..Len(done) : done[j].part = parts => ~done[j].good
  /\ \A i \in 1..Len(flight) : flight[i] # parts
  /\ Begun = parts \/ (disabled /\ Begun >= 1)
  /\ reader = "callback" => ~ok

Undisturbed == ~disturbed => Whole \/ Over

Placed ==
  /\ Apart(flight, done) /\ UpTo(flight, done, Begun) /\ GoodLast(flight, done)

UInv == /\ TransferInv /\ TypeOK /\ Mutex /\ Fresh /\ Begun <= parts
        /\ Placed /\ Cleared /\ Resubmitting /\ Counted /\ Undisturbed

-----------------------------------------------------------------------------
(***************************************************************************)
(* What usbdevfs and the reader do to the order of the parts.              *)
(***************************************************************************)

Series == Seq(1..parts)
Reaped == Seq([part : 1..parts, good : BOOLEAN])

\* What is with the device and what waits for the reader, after n parts.
Ordered(f, d, n) ==
  /\ parts \in Nat /\ f \in Series /\ d \in Reaped /\ n \in 0..parts
  /\ Apart(f, d) /\ UpTo(f, d, n) /\ GoodLast(f, d)

LEMMA Elements ==
  ASSUME NEW f \in Series, NEW d \in Reaped, parts \in Nat
  PROVE  /\ Len(f) \in Nat /\ \A i \in 1..Len(f) : f[i] \in 1..parts
         /\ Len(d) \in Nat
         /\ \A j \in 1..Len(d) : d[j].part \in 1..parts /\ d[j].good \in BOOLEAN
<1>1. Len(f) \in Nat /\ f \in [1..Len(f) -> 1..parts]
  BY LenProperties DEF Series
<1>2. /\ Len(d) \in Nat
      /\ d \in [1..Len(d) -> [part : 1..parts, good : BOOLEAN]]
  BY LenProperties DEF Reaped
<1> QED  BY <1>1, <1>2

\* A part is submitted after those before it.
LEMMA PlacedSubmit ==
  ASSUME NEW f, NEW d, NEW n, Ordered(f, d, n), n < parts
  PROVE  LET g == Append(f, n + 1)
         IN  /\ g \in Series /\ Len(g) = Len(f) + 1
             /\ Apart(g, d) /\ UpTo(g, d, n + 1) /\ GoodLast(g, d)
             /\ \A i \in 1..Len(g) : (i \in 1..Len(f) /\ g[i] = f[i]) \/ g[i] = n + 1
<1> USE DEF Ordered
<1> DEFINE g == Append(f, n + 1)
<1>0. /\ Len(f) \in Nat /\ Len(d) \in Nat /\ n \in Nat /\ n + 1 <= parts
      /\ \A i \in 1..Len(f) : f[i] \in Nat /\ f[i] <= n
      /\ \A j \in 1..Len(d) : d[j].part \in Nat /\ d[j].part <= n
  BY Elements DEF UpTo
<1>1. /\ g \in Series /\ Len(g) = Len(f) + 1 /\ g[Len(f) + 1] = n + 1
      /\ \A i \in 1..Len(f) : g[i] = f[i]
  BY AppendProperties DEF Series
<1> HIDE DEF g
<1>2. \A i \in 1..Len(g) : \/ i \in 1..Len(f) /\ g[i] = f[i] /\ g[i] <= n
                           \/ i = Len(f) + 1 /\ g[i] = n + 1
  BY <1>0, <1>1
<1>3. Apart(g, d)
  <2>1. \A i, j \in 1..Len(g) : i < j => g[i] < g[j]
    <3> SUFFICES ASSUME NEW i \in 1..Len(g), NEW j \in 1..Len(g), i < j
                 PROVE  g[i] < g[j]
      OBVIOUS
    <3>1. i \in 1..Len(f) /\ g[i] = f[i]
      BY <1>0, <1>1, <1>2
    <3> QED  BY <1>0, <1>1, <1>2, <3>1 DEF Apart
  <2>2. \A i \in 1..Len(g), j \in 1..Len(d) : g[i] # d[j].part
    <3> SUFFICES ASSUME NEW i \in 1..Len(g), NEW j \in 1..Len(d)
                 PROVE  g[i] # d[j].part
      OBVIOUS
    <3> QED  BY <1>0, <1>2 DEF Apart
  <2> QED  BY <2>1, <2>2 DEF Apart
<1>4. UpTo(g, d, n + 1)
  <2>1. \A i \in 1..Len(g) : g[i] <= n + 1
    BY <1>0, <1>2
  <2>2. \A j \in 1..Len(d) : d[j].part <= n + 1
    BY <1>0
  <2> QED  BY <2>1, <2>2 DEF UpTo
<1>5. GoodLast(g, d)
  <2>1. \A j \in 1..Len(d) : d[j].part # parts
    BY <1>0
  <2> QED  BY <2>1 DEF GoodLast
<1> QED  BY <1>1, <1>2, <1>3, <1>4, <1>5 DEF g

\* The reader takes the oldest.
LEMMA PlacedReap ==
  ASSUME NEW f, NEW d, NEW n, Ordered(f, d, n), d # <<>>
  PROVE  LET e == Tail(d)
         IN  /\ e \in Reaped /\ Len(e) = Len(d) - 1 /\ Len(d) > 0
             /\ Apart(f, e) /\ UpTo(f, e, n) /\ GoodLast(f, e)
             /\ \A j \in 1..Len(e) : j + 1 \in 1..Len(d) /\ e[j] = d[j + 1]
             /\ Head(d) = d[1]
<1> USE DEF Ordered
<1> DEFINE e == Tail(d)
<1>0. /\ Len(f) \in Nat /\ Len(d) \in Nat
  BY Elements
<1>1. /\ e \in Reaped /\ Len(e) = Len(d) - 1
      /\ \A j \in 1..Len(e) : e[j] = d[j + 1]
  BY HeadTailProperties DEF Reaped
<1>2. Len(d) > 0 /\ Head(d) = d[1] /\ \A j \in 1..Len(e) : j + 1 \in 1..Len(d)
  BY <1>0, <1>1, EmptySeq DEF Reaped
<1> HIDE DEF e
<1>3. Apart(f, e)
  <2>1. \A i, j \in 1..Len(e) : e[i].part = e[j].part => i = j
    <3> SUFFICES ASSUME NEW i \in 1..Len(e), NEW j \in 1..Len(e),
                        e[i].part = e[j].part
                 PROVE  i = j
      OBVIOUS
    <3>1. i + 1 = j + 1
      BY <1>1, <1>2 DEF Apart
    <3> QED  BY <3>1
  <2>2. \A i \in 1..Len(f), j \in 1..Len(e) : f[i] # e[j].part
    BY <1>1, <1>2 DEF Apart
  <2> QED  BY <2>1, <2>2 DEF Apart
<1>4. UpTo(f, e, n)
  BY <1>1, <1>2 DEF UpTo
<1>5. GoodLast(f, e)
  <2> SUFFICES ASSUME NEW j \in 1..Len(e), e[j].good, e[j].part = parts
               PROVE  j = Len(e) /\ f = <<>>
    BY DEF GoodLast
  <2>1. j + 1 = Len(d) /\ f = <<>>
    BY <1>1, <1>2 DEF GoodLast
  <2> QED  BY <1>0, <1>1, <2>1
<1> QED  BY <1>1, <1>2, <1>3, <1>4, <1>5 DEF e

\* The device is done with a part, or has to give it back.  Only the oldest
\* comes back good.
GivesBack(f, d, k, urb, g, e) ==
  /\ k \in 1..Len(f) /\ urb \in [part : 1..parts, good : BOOLEAN]
  /\ urb.part = f[k] /\ (urb.good => k = 1)
  /\ g \in Series /\ Len(g) = Len(f) - 1
  /\ \A i \in 1..Len(g) : g[i] = f[IF i < k THEN i ELSE i + 1]
  /\ e = Append(d, urb)

LEMMA PlacedBack ==
  ASSUME NEW f, NEW d, NEW n, Ordered(f, d, n),
         NEW k, NEW urb, NEW g, NEW e, GivesBack(f, d, k, urb, g, e)
  PROVE  /\ e \in Reaped /\ Len(e) = Len(d) + 1
         /\ Apart(g, e) /\ UpTo(g, e, n) /\ GoodLast(g, e)
         /\ \A i \in 1..Len(g) : \E m \in 1..Len(f) : g[i] = f[m]
         /\ \A j \in 1..Len(e) : \/ j \in 1..Len(d) /\ e[j] = d[j]
                                 \/ e[j] = urb
<1> USE DEF Ordered, GivesBack
<1> DEFINE At(i) == IF i < k THEN i ELSE i + 1
<1>0. /\ Len(f) \in Nat /\ Len(d) \in Nat /\ n \in Nat /\ n <= parts
      /\ \A i \in 1..Len(f) : f[i] \in 1..parts /\ f[i] <= n
      /\ \A j \in 1..Len(d) : d[j].part \in Nat /\ d[j].part <= n
  BY Elements DEF UpTo
<1>2. /\ e \in Reaped /\ Len(e) = Len(d) + 1 /\ e[Len(d) + 1] = urb
      /\ \A j \in 1..Len(d) : e[j] = d[j]
  BY AppendProperties DEF Reaped
<1>4. \A i \in 1..Len(g) : /\ At(i) \in 1..Len(f) /\ At(i) # k
                           /\ g[i] = f[At(i)]
  BY <1>0
<1>5. \A j \in 1..Len(e) : \/ j \in 1..Len(d) /\ e[j] = d[j]
                           \/ j = Len(d) + 1 /\ e[j] = urb
  BY <1>0, <1>2
<1>6. Apart(g, e)
  <2>1. \A i, j \in 1..Len(g) : i < j => g[i] < g[j]
    <3> SUFFICES ASSUME NEW i \in 1..Len(g), NEW j \in 1..Len(g), i < j
                 PROVE  g[i] < g[j]
      OBVIOUS
    <3>1. At(i) < At(j)
      BY <1>0
    <3> QED  BY <1>4, <3>1 DEF Apart
  <2>2. \A i, j \in 1..Len(e) : e[i].part = e[j].part => i = j
    <3> SUFFICES ASSUME NEW i \in 1..Len(e), NEW j \in 1..Len(e),
                        e[i].part = e[j].part
                 PROVE  i = j
      OBVIOUS
    <3> QED  BY <1>0, <1>5 DEF Apart
  <2>3. \A i \in 1..Len(g), j \in 1..Len(e) : g[i] # e[j].part
    <3> SUFFICES ASSUME NEW i \in 1..Len(g), NEW j \in 1..Len(e)
                 PROVE  g[i] # e[j].part
      OBVIOUS
    <3>1. f[At(i)] # f[k]
      <4>1. At(i) < k \/ k < At(i)
        BY <1>0, <1>4
      <4>2. f[At(i)] < f[k] \/ f[k] < f[At(i)]
        BY <1>4, <4>1 DEF Apart
      <4>3. f[At(i)] \in Nat /\ f[k] \in Nat
        BY <1>0, <1>4
      <4> QED  BY <4>2, <4>3
    <3>2. /\ At(i) \in 1..Len(f) /\ g[i] = f[At(i)]
          /\ \A m \in 1..Len(d) : f[At(i)] # d[m].part
      BY <1>4 DEF Apart
    <3> QED  BY <1>5, <3>1, <3>2
  <2> QED  BY <2>1, <2>2, <2>3 DEF Apart
<1>7. UpTo(g, e, n)
  <2>1. \A i \in 1..Len(g) : g[i] <= n
    BY <1>0, <1>4
  <2>2. \A j \in 1..Len(e) : e[j].part <= n
    BY <1>0, <1>5
  <2> QED  BY <2>1, <2>2 DEF UpTo
<1>8. GoodLast(g, e)
  <2> SUFFICES ASSUME NEW j \in 1..Len(e), e[j].good, e[j].part = parts
               PROVE  j = Len(e) /\ g = <<>>
    BY DEF GoodLast
  <2>1. j \notin 1..Len(d) \/ e[j] # d[j]
    <3> SUFFICES ASSUME j \in 1..Len(d), e[j] = d[j]
                 PROVE  FALSE
      OBVIOUS
    <3>1. f = <<>>
      BY DEF GoodLast
    <3> QED  BY <3>1, <1>0
  <2>2. j = Len(e) /\ urb.good /\ k = 1 /\ f[1] = parts
    BY <1>2, <1>5, <2>1
  <2>3. ASSUME Len(g) # 0 PROVE FALSE
    <3>1. 2 \in 1..Len(f) /\ 1 \in 1..Len(f)
      BY <1>0, <2>3, Elements
    <3>2. f[1] < f[2] /\ f[2] \in Nat /\ f[2] <= parts
      BY <1>0, <3>1 DEF Apart
    <3> QED  BY <1>0, <2>2, <3>2
  <2> QED  BY <2>2, <2>3, EmptySeq DEF Series
<1>9. \A i \in 1..Len(g) : \E m \in 1..Len(f) : g[i] = f[m]
  BY <1>4
<1> QED  BY <1>2, <1>5, <1>6, <1>7, <1>8, <1>9

LEMMA Removed ==
  ASSUME NEW f \in Series, NEW k \in 1..Len(f), parts \in Nat
  PROVE  LET g == RemoveAt(f, k)
         IN  /\ g \in Series /\ Len(g) = Len(f) - 1
             /\ \A i \in 1..Len(g) : g[i] = f[IF i < k THEN i ELSE i + 1]
<1> DEFINE a == SubSeq(f, 1, k - 1)
           b == SubSeq(f, k + 1, Len(f))
<1>0. Len(f) \in Nat /\ \A i \in 1..Len(f) : f[i] \in 1..parts
  BY LenProperties DEF Series
<1>1. /\ a \in Series /\ Len(a) = k - 1 /\ \A i \in 1..(k - 1) : a[i] = f[i]
  <2>1. \A i \in 1..(k - 1) : f[i] \in 1..parts
    BY <1>0
  <2>2. /\ a \in Series /\ Len(a) = IF 1 <= k - 1 THEN k - 1 - 1 + 1 ELSE 0
        /\ \A i \in 1..(k - 1 - 1 + 1) : a[i] = f[1 + i - 1]
    BY <1>0, <2>1, SubSeqProperties DEF Series
  <2> QED  BY <1>0, <2>2
<1>2. /\ b \in Series /\ Len(b) = Len(f) - k
      /\ \A i \in 1..(Len(f) - k) : b[i] = f[k + i]
  <2>1. \A i \in (k + 1)..Len(f) : f[i] \in 1..parts
    BY <1>0
  <2>2. /\ b \in Series
        /\ Len(b) = IF k + 1 <= Len(f) THEN Len(f) - (k + 1) + 1 ELSE 0
        /\ \A i \in 1..(Len(f) - (k + 1) + 1) : b[i] = f[k + 1 + i - 1]
    BY <1>0, <2>1, SubSeqProperties DEF Series
  <2>3. Len(b) = Len(f) - k
    BY <1>0, <2>2
  <2>4. \A i \in 1..(Len(f) - k) : b[i] = f[k + i]
    BY <1>0, <2>2
  <2> QED  BY <2>2, <2>3, <2>4
<1> HIDE DEF a, b
<1>3. /\ a \o b \in Series /\ Len(a \o b) = Len(a) + Len(b)
      /\ \A i \in 1..(Len(a) + Len(b)) :
           (a \o b)[i] = IF i <= Len(a) THEN a[i] ELSE b[i - Len(a)]
  BY <1>1, <1>2, ConcatProperties DEF Series
<1>4. \A i \in 1..(Len(f) - 1) : (a \o b)[i] = f[IF i < k THEN i ELSE i + 1]
  <2> SUFFICES ASSUME NEW i \in 1..(Len(f) - 1)
               PROVE  (a \o b)[i] = f[IF i < k THEN i ELSE i + 1]
    OBVIOUS
  <2>1. CASE i < k
    BY <1>0, <1>1, <1>2, <1>3, <2>1
  <2>2. CASE ~(i < k)
    <3>1. (a \o b)[i] = b[i - (k - 1)] /\ i - (k - 1) \in 1..(Len(f) - k)
      BY <1>0, <1>1, <1>2, <1>3, <2>2
    <3>2. k + (i - (k - 1)) = i + 1
      OBVIOUS
    <3> QED  BY <1>2, <2>2, <3>1, <3>2
  <2> QED  BY <2>1, <2>2
<1>5. RemoveAt(f, k) = a \o b
  BY DEF RemoveAt, a, b
<1>6. a \o b \in Series /\ Len(a \o b) = Len(f) - 1
  BY <1>0, <1>1, <1>2, <1>3
<1> HIDE DEF RemoveAt
<1> QED  BY <1>4, <1>5, <1>6

\* The device gives all parts back.
LEMMA PlacedCancelled ==
  ASSUME NEW f, NEW d, NEW n, Ordered(f, d, n), f # <<>>
  PROVE  LET e == d \o [i \in 1..Len(f) |-> Failed(f[i])]
         IN  /\ e \in Reaped /\ Len(e) = Len(d) + Len(f)
             /\ Apart(<<>>, e) /\ UpTo(<<>>, e, n) /\ GoodLast(<<>>, e)
             /\ \A j \in 1..Len(e) : e[j].part = parts => ~e[j].good
<1> USE DEF Ordered
<1> DEFINE c == [i \in 1..Len(f) |-> Failed(f[i])]
           e == d \o c
<1>0. /\ Len(f) \in Nat /\ Len(d) \in Nat /\ n \in Nat /\ n <= parts
      /\ \A i \in 1..Len(f) : f[i] \in 1..parts /\ f[i] <= n
      /\ \A j \in 1..Len(d) : d[j].part \in Nat /\ d[j].part <= n
  BY Elements DEF UpTo
<1>1. \A p \in 1..parts : /\ Failed(p) \in [part : 1..parts, good : BOOLEAN]
                          /\ Failed(p).part = p /\ Failed(p).good = FALSE
  BY DEF Failed
<1>2. c \in Reaped /\ Len(c) = Len(f)
  BY <1>0, <1>1 DEF Reaped
<1>3. \A i \in 1..Len(f) : c[i].part = f[i] /\ c[i].good = FALSE
  BY <1>0, <1>1
<1> HIDE DEF c
<1>4. /\ e \in Reaped /\ Len(e) = Len(d) + Len(f)
      /\ \A j \in 1..(Len(d) + Len(f)) :
           e[j] = IF j <= Len(d) THEN d[j] ELSE c[j - Len(d)]
  <2>1. /\ e \in Reaped /\ Len(e) = Len(d) + Len(c)
        /\ \A j \in 1..(Len(d) + Len(c)) :
             e[j] = IF j <= Len(d) THEN d[j] ELSE c[j - Len(d)]
    BY <1>2, ConcatProperties DEF Reaped
  <2> QED  BY <1>2, <2>1
<1> HIDE DEF e
<1>5. \A j \in 1..Len(e) :
         \/ j \in 1..Len(d) /\ e[j] = d[j]
         \/ /\ j - Len(d) \in 1..Len(f) /\ e[j].part = f[j - Len(d)]
            /\ e[j].good = FALSE
  <2> SUFFICES ASSUME NEW j \in 1..Len(e)
               PROVE  \/ j \in 1..Len(d) /\ e[j] = d[j]
                      \/ /\ j - Len(d) \in 1..Len(f)
                         /\ e[j].part = f[j - Len(d)] /\ e[j].good = FALSE
    OBVIOUS
  <2>1. CASE j <= Len(d)
    BY <1>0, <1>4, <2>1
  <2>2. CASE ~(j <= Len(d))
    <3>1. j - Len(d) \in 1..Len(f) /\ e[j] = c[j - Len(d)]
      BY <1>0, <1>4, <2>2
    <3> QED  BY <1>3, <3>1
  <2> QED  BY <2>1, <2>2
<1>6. Apart(<<>>, e)
  <2>1. ASSUME NEW i \in 1..Len(e), NEW j \in 1..Len(e), i < j
        PROVE  e[i].part # e[j].part
    <3>1. CASE i \in 1..Len(d) /\ e[i] = d[i]
      <4>1. CASE j \in 1..Len(d) /\ e[j] = d[j]
        BY <1>0, <2>1, <3>1, <4>1 DEF Apart
      <4>2. CASE j - Len(d) \in 1..Len(f) /\ e[j].part = f[j - Len(d)]
        <5>1. f[j - Len(d)] # d[i].part
          BY <3>1, <4>2 DEF Apart
        <5> QED  BY <3>1, <4>2, <5>1
      <4> QED  BY <1>5, <4>1, <4>2
    <3>2. CASE /\ i - Len(d) \in 1..Len(f) /\ e[i].part = f[i - Len(d)]
      <4>1. /\ j - Len(d) \in 1..Len(f) /\ e[j].part = f[j - Len(d)]
            /\ i - Len(d) < j - Len(d)
        <5>1. ~(j \in 1..Len(d))
          BY <1>0, <2>1, <3>2
        <5>2. j - Len(d) \in 1..Len(f) /\ e[j].part = f[j - Len(d)]
          BY <1>5, <5>1
        <5> QED  BY <1>0, <1>4, <2>1, <5>2
      <4>2. PICK a \in 1..Len(f), b \in 1..Len(f) :
              a < b /\ e[i].part = f[a] /\ e[j].part = f[b]
        BY <3>2, <4>1
      <4>3. f[a] < f[b]
        BY <4>2 DEF Apart
      <4>4. f[a] \in Nat /\ f[b] \in Nat
        BY <1>0
      <4> QED  BY <4>2, <4>3, <4>4
    <3> QED  BY <1>5, <3>1, <3>2
  <2>2. \A i, j \in 1..Len(e) : e[i].part = e[j].part => i = j
    <3>1. \A i, j \in 1..Len(e) : i = j \/ i < j \/ j < i
      BY <1>0, <1>4
    <3> QED  BY <2>1, <3>1
  <2>3. Len(<<>>) = 0
    BY EmptySeq
  <2> QED  BY <2>2, <2>3 DEF Apart
<1>7. UpTo(<<>>, e, n)
  <2>1. \A j \in 1..Len(e) : e[j].part <= n
    BY <1>0, <1>5
  <2>2. Len(<<>>) = 0
    BY EmptySeq
  <2> QED  BY <2>1, <2>2 DEF UpTo
<1>8. \A j \in 1..Len(e) : e[j].part = parts => ~e[j].good
  BY <1>5 DEF GoodLast
<1>9. GoodLast(<<>>, e)
  BY <1>8 DEF GoodLast
<1> QED  BY <1>4, <1>6, <1>7, <1>8, <1>9 DEF e, c

-----------------------------------------------------------------------------
LEMMA UrbInit == Init => UInv
<1> SUFFICES ASSUME Init PROVE UInv
  OBVIOUS
<1> USE TransferAssumption, BulkAssumption
<1>1. TransferInv
  BY DEF Init, TransferInit, TransferInv, TransferTypeOK
<1>2. TypeOK
  <2>1. flight \in Seq(1..parts) /\ done \in Seq([part : 1..parts, good : BOOLEAN])
    BY EmptySeq DEF Init
  <2>2. TransferTypeOK
    BY <1>1 DEF TransferInv
  <2>3. /\ user = "idle" /\ next \in 1..(Parts + 1) /\ rnext \in 1..(Parts + 1)
        /\ refused = FALSE /\ parts \in {1, Parts} /\ submitted = 0
        /\ deleted = FALSE /\ mutex = {} /\ running = FALSE
        /\ reader = "none" /\ length \in 0..parts /\ ok = TRUE
        /\ disabled = FALSE /\ faults \in 0..MaxFaults
        /\ rounds \in 0..MaxRounds /\ calls \in Nat /\ disturbed = FALSE
    BY DEF Init
  <2> QED  BY <2>1, <2>2, <2>3 DEF TypeOK
<1>3. Placed
  BY EmptySeq DEF Init, Placed, Apart, UpTo, GoodLast
<1>4. Counted /\ Undisturbed /\ Begun <= parts
  <2>1. /\ flight = <<>> /\ done = <<>> /\ length = 0 /\ calls = 0 /\ parts = 1
        /\ user = "idle" /\ reader = "none"
    BY DEF Init
  <2>2. Len(flight) = 0 /\ Len(done) = 0 /\ Begun = 0
    BY <2>1, EmptySeq DEF Begun
  <2> QED  BY <2>1, <2>2 DEF Counted, Undisturbed, Whole
<1>5. Mutex /\ Fresh /\ Cleared /\ Resubmitting
  BY DEF Init, Mutex, Holding, Fresh, Cleared, Resubmitting
<1> QED  BY <1>1, <1>2, <1>3, <1>4, <1>5 DEF UInv

\* What most steps of the caller and the thread leave alone.
LEMMA Steady ==
  ASSUME UInv, parts' = parts, flight' = flight, done' = done,
         disabled' = disabled, length' = length, ok' = ok, rounds' = rounds,
         calls' = calls, disturbed' = disturbed, Begun' = Begun,
         reader' = reader \/ reader' \notin {"callback", "lock", "resubmit"}
  PROVE  /\ Begun' <= parts' /\ Placed' /\ Cleared' /\ Resubmitting'
         /\ Counted' /\ Undisturbed'
<1> USE DEF UInv
<1>1. Begun' <= parts' /\ Counted'
  BY DEF Counted
<1>2. Placed'
  BY DEF Placed, Apart, UpTo, GoodLast
<1>3. Cleared' /\ Resubmitting'
  BY DEF Cleared, Nothing, Resubmitting
<1>4. Undisturbed'
  BY DEF Undisturbed, Whole, Over
<1> QED  BY <1>1, <1>2, <1>3, <1>4

LEMMA UrbTransfers ==
  ASSUME [Next]_vars
  PROVE  [TransferNext]_transferVars
<1> USE DEF transferVars
<1>1. CASE Transfers
  BY <1>1 DEF Transfers
<1>2. CASE Caller
  BY <1>2 DEF Caller, CallerSteps, SubmitBulkUrb, BeginDiscard, BeginKill,
     StartUrbAsyncRead, StopUrbAsyncRead, FreeBulkUrbs, SubmitPart,
     SubmitSucceeds, SubmitFails, DiscardPart, DiscardEnds, JoinUrbThread,
     callerOnly
<1>3. CASE UrbThread
  BY <1>3 DEF UrbThread, TestRunning, ReapUrb, ReapDeletedUrb, Callback,
     ResubmitUrb, ResubmitPart, ResubmitEnds, readerOnly
<1>4. CASE Completes \/ Fails
  BY <1>4 DEF Completes, Fails
<1> QED  BY <1>1, <1>2, <1>3, <1>4 DEF Next, vars

LEMMA UrbTransferStep ==
  ASSUME UInv, [Next]_vars
  PROVE  TransferInv' /\ TransferTypeOK'
<1>1. TransferInv'
  BY UrbTransfers, TransferStep DEF UInv
<1> QED  BY <1>1 DEF TransferInv

\* The steps of the caller that leave the parts alone.
LEMMA CallerIdles ==
  ASSUME UInv, TransferInv', TransferTypeOK',
         \/ SubmitSucceeds \/ SubmitFails \/ BeginDiscard \/ BeginKill
         \/ StartUrbAsyncRead \/ StopUrbAsyncRead \/ JoinUrbThread
         \/ FreeBulkUrbs \/ DiscardEnds
  PROVE  UInv'
<1> USE BulkAssumption
<1>0. TypeOK /\ Mutex /\ Fresh /\ Begun <= parts
  BY DEF UInv
<1>1. /\ parts' = parts /\ flight' = flight /\ done' = done
      /\ disabled' = disabled /\ length' = length /\ ok' = ok
      /\ rounds' = rounds /\ calls' = calls /\ disturbed' = disturbed
      /\ faults' = faults /\ rnext' = rnext
      /\ reader' = reader \/ reader' \notin {"callback", "lock", "resubmit"}
      /\ user' = "idle" => user = "idle"
  BY DEF SubmitSucceeds, SubmitFails, BeginDiscard, BeginKill,
     StartUrbAsyncRead, StopUrbAsyncRead, JoinUrbThread, FreeBulkUrbs,
     DiscardEnds, callerOnly, callerVars, readerVars, kernelVars, history
<1>2. TypeOK'
  <2>1. CASE SubmitSucceeds
    BY <1>0, <1>1, <2>1 DEF TypeOK, SubmitSucceeds, callerOnly, callerVars, readerVars
  <2>2. CASE SubmitFails
    BY <1>0, <1>1, <2>2 DEF TypeOK, SubmitFails, callerOnly, callerVars, readerVars
  <2>3. CASE BeginDiscard
    BY <1>0, <1>1, <2>3 DEF TypeOK, BeginDiscard, callerOnly, callerVars, readerVars
  <2>4. CASE BeginKill
    BY <1>0, <1>1, <2>4 DEF TypeOK, BeginKill, callerOnly, callerVars, readerVars
  <2>5. CASE StartUrbAsyncRead
    BY <1>0, <1>1, <2>5 DEF TypeOK, StartUrbAsyncRead, callerOnly, callerVars, readerVars
  <2>6. CASE StopUrbAsyncRead
    BY <1>0, <1>1, <2>6 DEF TypeOK, StopUrbAsyncRead, callerOnly, callerVars, readerVars
  <2>7. CASE JoinUrbThread
    BY <1>0, <1>1, <2>7 DEF TypeOK, JoinUrbThread, callerOnly, callerVars, readerVars
  <2>8. CASE FreeBulkUrbs
    BY <1>0, <1>1, <2>8 DEF TypeOK, FreeBulkUrbs, callerOnly, callerVars, readerVars
  <2>9. CASE DiscardEnds
    BY <1>0, <1>1, <2>9 DEF TypeOK, DiscardEnds, callerOnly, callerVars, readerVars
  <2> QED  BY <2>1, <2>2, <2>3, <2>4, <2>5, <2>6, <2>7, <2>8, <2>9
<1>3. Mutex'
  BY <1>0, <1>1 DEF Mutex, Holding, SubmitSucceeds, SubmitFails, BeginDiscard,
     BeginKill, StartUrbAsyncRead, StopUrbAsyncRead, JoinUrbThread,
     FreeBulkUrbs, DiscardEnds, callerOnly, callerVars, readerVars
<1>4. Fresh'
  BY <1>0, <1>1 DEF Fresh
<1>5. Begun' = Begun
  <2>1. CASE SubmitSucceeds
    BY <1>0, <1>1, <2>1 DEF TypeOK, Mutex, Begun, SubmitSucceeds, callerOnly,
       callerVars, readerVars
  <2>2. CASE SubmitFails
    BY <1>0, <1>1, <2>2 DEF TypeOK, Mutex, Begun, SubmitFails, callerOnly,
       callerVars, readerVars
  <2>3. CASE BeginDiscard
    BY <1>0, <1>1, <2>3 DEF TypeOK, Mutex, Begun, BeginDiscard, callerOnly,
       callerVars, readerVars
  <2>4. CASE BeginKill
    BY <1>0, <1>1, <2>4 DEF TypeOK, Mutex, Begun, BeginKill, callerOnly,
       callerVars, readerVars
  <2>5. CASE StartUrbAsyncRead
    BY <1>0, <1>1, <2>5 DEF TypeOK, Mutex, Begun, StartUrbAsyncRead, callerOnly,
       callerVars, readerVars
  <2>6. CASE StopUrbAsyncRead
    BY <1>0, <1>1, <2>6 DEF TypeOK, Mutex, Begun, StopUrbAsyncRead, callerOnly,
       callerVars, readerVars
  <2>7. CASE JoinUrbThread
    BY <1>0, <1>1, <2>7 DEF TypeOK, Mutex, Begun, JoinUrbThread, callerOnly,
       callerVars, readerVars
  <2>8. CASE FreeBulkUrbs
    BY <1>0, <1>1, <2>8 DEF TypeOK, Mutex, Begun, FreeBulkUrbs, callerOnly,
       callerVars, readerVars
  <2>9. CASE DiscardEnds
    BY <1>0, <1>1, <2>9 DEF TypeOK, Mutex, Begun, DiscardEnds, callerOnly,
       callerVars, readerVars
  <2> QED  BY <2>1, <2>2, <2>3, <2>4, <2>5, <2>6, <2>7, <2>8, <2>9
<1> QED  BY <1>1, <1>2, <1>3, <1>4, <1>5, Steady DEF UInv

\* The types that the lemmas on the order of the parts ask for.
LEMMA Typed ==
  ASSUME UInv
  PROVE  /\ flight \in Series /\ done \in Reaped /\ parts \in Nat \ {0}
         /\ Len(flight) \in Nat /\ Len(done) \in Nat /\ length \in Nat
         /\ Begun \in 0..parts
         /\ Ordered(flight, done, Begun)
         /\ \A j \in 1..Len(done) : /\ done[j].part \in 1..parts
                                    /\ done[j].good \in BOOLEAN
<1> USE BulkAssumption
<1>1. flight \in Series /\ done \in Reaped /\ parts \in Nat \ {0} /\ length \in Nat
  BY DEF UInv, TypeOK, Series, Reaped
<1>2. /\ Len(flight) \in Nat /\ Len(done) \in Nat
      /\ \A j \in 1..Len(done) : /\ done[j].part \in 1..parts
                                 /\ done[j].good \in BOOLEAN
  BY <1>1, Elements
<1>3. Begun \in 0..parts
  BY <1>1 DEF UInv, TypeOK, Begun
<1>4. Ordered(flight, done, Begun)
  BY <1>1, <1>3 DEF UInv, Placed, Ordered
<1> QED  BY <1>1, <1>2, <1>3, <1>4

\* A part of a round is submitted, or refused, by the caller or the thread.
Offered(p) ==
  /\ p = Begun + 1 /\ p \in 1..parts /\ Begun' = p
  /\ parts' = parts /\ length' = length /\ ok' = ok /\ reader' = reader
  /\ rounds' = rounds /\ calls' = calls

LEMMA PartOffered ==
  ASSUME UInv, NEW p, Offered(p),
         \/ Submit(p) /\ disturbed' = disturbed
         \/ Refuse(p) /\ disturbed' = TRUE
  PROVE  /\ flight' \in Seq(1..parts') /\ done' = done /\ disabled' \in BOOLEAN
         /\ faults' \in 0..MaxFaults /\ disturbed' \in BOOLEAN
         /\ Begun' <= parts' /\ Placed' /\ Cleared' /\ Resubmitting'
         /\ Counted' /\ Undisturbed'
<1> USE BulkAssumption DEF Offered
<1>0. /\ flight \in Series /\ done \in Reaped /\ parts \in Nat \ {0}
      /\ Len(flight) \in Nat /\ Len(done) \in Nat /\ length \in Nat
      /\ Begun \in 0..(parts - 1) /\ p = Begun + 1 /\ p \in 1..parts
      /\ faults \in 0..MaxFaults /\ disabled \in BOOLEAN /\ disturbed \in BOOLEAN
      /\ Series' = Series
  <2>1. /\ flight \in Series /\ done \in Reaped /\ parts \in Nat \ {0}
        /\ length \in Nat /\ faults \in 0..MaxFaults /\ disabled \in BOOLEAN
        /\ disturbed \in BOOLEAN
    BY DEF UInv, TypeOK, Series, Reaped
  <2>2. Len(flight) \in Nat /\ Len(done) \in Nat
    BY <2>1, Elements
  <2>3. Begun \in 0..(parts - 1) /\ p = Begun + 1 /\ p \in 1..parts
    BY <2>1 DEF UInv, TypeOK, Begun
  <2> QED  BY <2>1, <2>2, <2>3 DEF Series
<1>1. Cleared' /\ Resubmitting' /\ Begun' <= parts'
  <2>1. ~(reader \in {"callback", "lock"} /\ ok)
    BY <1>0 DEF UInv, Cleared
  <2> QED  BY <1>0, <2>1 DEF UInv, Cleared, Resubmitting
<1>2. CASE Submit(p) /\ disturbed' = disturbed
  <2>0. /\ flight' = Append(flight, p) /\ disabled' = (disabled /\ p # 1)
        /\ done' = done /\ faults' = faults /\ (p = 1 \/ ~disabled)
    BY <1>2 DEF Submit
  <2>1. /\ flight' \in Series /\ Len(flight') = Len(flight) + 1
        /\ Apart(flight', done) /\ UpTo(flight', done, p) /\ GoodLast(flight', done)
        /\ \A i \in 1..Len(flight') :
             (i \in 1..Len(flight) /\ flight'[i] = flight[i]) \/ flight'[i] = p
    BY <1>0, <2>0, Typed, PlacedSubmit
  <2>2. Placed'
    BY <2>0, <2>1 DEF Placed, Apart, UpTo, GoodLast
  <2>3. Counted'
    BY <1>0, <2>0, <2>1 DEF UInv, Counted
  <2>4. ASSUME ~disturbed PROVE Whole' \/ Over'
    <3>1. CASE Whole
      BY <1>0, <2>0, <2>1, <3>1 DEF Whole
    <3>2. CASE Over
      <4>1. disabled /\ Begun >= 1
        BY <1>0, <3>2 DEF Over
      <4> QED  BY <1>0, <2>0, <4>1
    <3> QED  BY <2>4, <3>1, <3>2 DEF UInv, Undisturbed
  <2>5. Undisturbed'
    BY <1>2, <2>4 DEF Undisturbed
  <2> QED  BY <1>0, <1>1, <2>0, <2>1, <2>2, <2>3, <2>5, Zenon DEF Series
<1>3. CASE Refuse(p) /\ disturbed' = TRUE
  <2>0. /\ flight' = flight /\ done' = done
        /\ faults' \in 0..MaxFaults
    BY <1>0, <1>3 DEF Refuse
  <2>1. Placed'
    <3>1. \A i \in 1..Len(flight) : flight[i] \in Nat /\ flight[i] <= Begun
      BY <1>0, Elements DEF UInv, Placed, UpTo
    <3>2. \A j \in 1..Len(done) : done[j].part \in Nat /\ done[j].part <= Begun
      BY <1>0, Elements DEF UInv, Placed, UpTo
    <3>3. UpTo(flight, done, p)
      BY <1>0, <3>1, <3>2 DEF UpTo
    <3> QED  BY <2>0, <3>3 DEF UInv, Placed, Apart, UpTo, GoodLast
  <2>2. Counted'
    BY <1>0, <2>0 DEF UInv, Counted
  <2>3. Undisturbed'
    BY <1>3 DEF Undisturbed
  <2>4. flight' \in Seq(1..parts')
    BY <1>0, <2>0 DEF Series
  <2>5. disabled' \in BOOLEAN /\ disturbed' \in BOOLEAN
    <3>1. disabled' = disabled \/ disabled' = (disabled /\ p # 1)
      BY <1>3, Zenon DEF Refuse
    <3>2. disabled \in BOOLEAN
      BY <1>0
    <3>3. disabled' \in BOOLEAN
      BY <3>1, <3>2, Zenon
    <3> QED  BY <1>3, <3>3, Zenon
  <2> QED  BY <1>1, <2>0, <2>1, <2>2, <2>3, <2>4, <2>5, Zenon
<1> QED  BY <1>2, <1>3

\* The first part, and the next one.
LEMMA CallerSubmits ==
  ASSUME UInv, TransferInv', TransferTypeOK', SubmitBulkUrb \/ SubmitPart
  PROVE  UInv'
<1> USE BulkAssumption
<1>0. TypeOK /\ Mutex /\ Fresh /\ Begun <= parts
  BY DEF UInv
<1>1. CASE SubmitBulkUrb
  <2> USE <1>1 DEF SubmitBulkUrb, readerVars, kernelVars
  <2>1. /\ flight = <<>> /\ done = <<>> /\ length = 0 /\ calls = 0
        /\ ~disturbed /\ reader \notin {"callback", "lock", "resubmit"}
        /\ parts = 1
    BY <1>0 DEF Fresh
  <2>2. /\ Len(flight') = 0 /\ Len(done') = 0 /\ flight' = <<>> /\ done' = <<>>
        /\ flight' \in Seq(1..parts')
        /\ done' \in Seq([part : 1..parts', good : BOOLEAN])
    BY <2>1, EmptySeq
  <2>3. TypeOK'
    BY <1>0, <2>1, <2>2 DEF TypeOK
  <2>4. Mutex' /\ Fresh'
    BY <1>0, <2>1 DEF Mutex, Fresh, Holding
  <2>5. Begun' = 0 /\ parts' \in Nat \ {0}
    BY DEF Begun
  <2>6. Placed' /\ Counted' /\ Begun' <= parts'
    BY <2>1, <2>2, <2>5 DEF Placed, Apart, UpTo, GoodLast, Counted
  <2>7. Cleared' /\ Resubmitting'
    BY <2>1 DEF Cleared, Resubmitting
  <2>8. Undisturbed'
    BY <2>1, <2>2, <2>5 DEF Undisturbed, Whole
  <2> QED  BY <2>3, <2>4, <2>6, <2>7, <2>8 DEF UInv
<1>2. CASE SubmitPart
  <2> USE DEF callerOnly, readerVars
  <2>0. /\ user = "submit" /\ next <= parts /\ next \in 1..parts /\ Begun = next - 1
        /\ user' = user /\ parts' = parts /\ next' = next + 1 /\ Begun' = Begun + 1
        /\ reader' = reader /\ reader # "resubmit" /\ parts \in Nat
        /\ length' = length /\ ok' = ok /\ rounds' = rounds /\ calls' = calls
        /\ done' = done /\ mutex' = mutex
    BY <1>0, <1>2 DEF SubmitPart, TypeOK, Mutex, Begun, Submit, Refuse
  <2>1. Offered(next)
    BY <1>0, <2>0 DEF Offered
  <2>2. \/ Submit(next) /\ disturbed' = disturbed
        \/ Refuse(next) /\ disturbed' = TRUE
    BY <1>2 DEF SubmitPart
  <2>3. /\ flight' \in Seq(1..parts') /\ done' = done /\ disabled' \in BOOLEAN
        /\ faults' \in 0..MaxFaults /\ disturbed' \in BOOLEAN
        /\ Begun' <= parts' /\ Placed' /\ Cleared' /\ Resubmitting'
        /\ Counted' /\ Undisturbed'
    BY <2>1, <2>2, PartOffered
  <2>4. TypeOK'
    <3>1. refused' \in BOOLEAN /\ submitted' = submitted /\ deleted' = deleted
          /\ running' = running /\ rnext' = rnext
      BY <1>0, <1>2 DEF TypeOK, SubmitPart
    <3>2. next' \in 1..(Parts + 1)
      BY <1>0, <2>0 DEF TypeOK
    <3> QED  BY <1>0, <2>0, <2>3, <3>1, <3>2 DEF TypeOK
  <2>5. Mutex' /\ Fresh'
    BY <1>0, <2>0 DEF Mutex, Fresh, Holding
  <2> QED  BY <2>3, <2>4, <2>5 DEF UInv
<1> QED  BY <1>1, <1>2

LEMMA CallerDiscards ==
  ASSUME UInv, TransferInv', TransferTypeOK', DiscardPart
  PROVE  UInv'
<1> USE BulkAssumption
<1>0. TypeOK /\ Mutex /\ Fresh /\ Begun <= parts
  BY DEF UInv
<1>1. /\ user \in {"undo", "discard", "kill", "destroy"} /\ user' = user
      /\ next <= parts /\ next' = next + 1 /\ parts' = parts
      /\ length' = length /\ ok' = ok /\ rounds' = rounds /\ calls' = calls
      /\ mutex' = mutex /\ disabled' = disabled /\ faults' = faults
      /\ reader' = reader /\ rnext' = rnext /\ running' = running
      /\ refused' = refused /\ submitted' = submitted /\ deleted' = deleted
  BY DEF DiscardPart, Discard, callerOnly, readerVars
<1>2. Begun' = Begun
  BY <1>1 DEF Begun
<1>3. next' \in 1..(Parts + 1)
  BY <1>0, <1>1 DEF TypeOK
<1>4. Mutex' /\ Fresh'
  BY <1>0, <1>1 DEF Mutex, Fresh, Holding
<1>5. CASE \A i \in DOMAIN flight : flight[i] # next
  <2>1. flight' = flight /\ done' = done /\ disturbed' = disturbed
    BY <1>5 DEF DiscardPart, Discard
  <2>2. TypeOK'
    BY <1>0, <1>1, <1>3, <2>1 DEF TypeOK
  <2> QED  BY <1>1, <1>2, <1>4, <2>1, <2>2, Steady DEF UInv
<1>6. CASE \E i \in DOMAIN flight : flight[i] = next
  <2>0. disturbed' = TRUE /\ done' = Append(done, Failed(next))
    BY <1>6 DEF DiscardPart, Discard
  <2>1. PICK k \in DOMAIN flight : flight[k] = next /\ flight' = RemoveAt(flight, k)
    BY <1>6 DEF DiscardPart, Discard
  <2>2. /\ k \in 1..Len(flight) /\ flight \in Series /\ done \in Reaped
        /\ Len(flight) \in Nat
    BY <2>1, Typed, LenProperties DEF Series
  <2>3. /\ flight' \in Series /\ Len(flight') = Len(flight) - 1
        /\ \A i \in 1..Len(flight') :
             flight'[i] = flight[IF i < k THEN i ELSE i + 1]
    BY <2>1, <2>2, Removed, Typed
  <2>4. PICK urb \in [part : 1..parts, good : BOOLEAN] :
           urb.part = flight[k] /\ urb.good = FALSE /\ done' = Append(done, urb)
    <3>1. Failed(next) \in [part : 1..parts, good : BOOLEAN]
      BY <1>0, <1>1 DEF Failed, TypeOK
    <3>2. Failed(next).part = flight[k] /\ Failed(next).good = FALSE
      BY <2>1 DEF Failed
    <3> QED  BY <2>0, <3>1, <3>2
  <2>5. /\ done' \in Reaped /\ Len(done') = Len(done) + 1
        /\ Apart(flight', done') /\ UpTo(flight', done', Begun)
        /\ GoodLast(flight', done')
    <3>1. GivesBack(flight, done, k, urb, flight', done')
      BY <2>2, <2>3, <2>4 DEF GivesBack
    <3> QED  BY <3>1, Typed, PlacedBack
  <2>6. TypeOK'
    <3>1. /\ flight' \in Seq(1..parts')
          /\ done' \in Seq([part : 1..parts', good : BOOLEAN])
      BY <1>1, <2>3, <2>5 DEF Series, Reaped
    <3> QED  BY <1>0, <1>1, <1>3, <2>0, <3>1 DEF TypeOK
  <2>7. Placed'
    BY <1>1, <1>2, <2>5 DEF Placed, Apart, UpTo, GoodLast
  <2>8. Counted'
    BY <1>1, <1>2, <2>3, <2>5, Typed DEF UInv, Counted
  <2>9. Cleared' /\ Resubmitting'
    <3>1. ~Nothing
      BY <2>2, EmptySeq DEF Nothing
    <3> QED  BY <1>1, <3>1 DEF UInv, Cleared, Resubmitting
  <2>10. Undisturbed' /\ Begun' <= parts'
    BY <1>0, <1>1, <1>2, <2>0 DEF Undisturbed
  <2> QED  BY <1>4, <2>6, <2>7, <2>8, <2>9, <2>10 DEF UInv
<1> QED  BY <1>5, <1>6

LEMMA DeviceCompletes ==
  ASSUME UInv, TransferInv', TransferTypeOK', Completes
  PROVE  UInv'
<1> USE BulkAssumption
<1>0. TypeOK /\ Mutex /\ Fresh /\ Begun <= parts
  BY DEF UInv
<1>1. /\ flight # <<>> /\ flight' = Tail(flight)
      /\ done' = Append(done, [part |-> Head(flight), good |-> TRUE])
      /\ user' = user /\ next' = next /\ parts' = parts
      /\ length' = length /\ ok' = ok /\ rounds' = rounds /\ calls' = calls
      /\ mutex' = mutex /\ disabled' = disabled /\ faults' = faults
      /\ reader' = reader /\ rnext' = rnext /\ running' = running
      /\ refused' = refused /\ submitted' = submitted /\ deleted' = deleted
      /\ disturbed' = disturbed
  BY DEF Completes, callerVars, readerVars, history
<1>2. Begun' = Begun /\ user # "idle"
  BY <1>0, <1>1 DEF Begun, Fresh
<1>3. /\ 1 \in 1..Len(flight) /\ Head(flight) = flight[1]
      /\ flight' \in Series /\ Len(flight') = Len(flight) - 1
      /\ \A i \in 1..Len(flight') :
           flight'[i] = flight[IF i < 1 THEN i ELSE i + 1]
  <2>1. /\ flight' \in Series /\ Len(flight') = Len(flight) - 1
        /\ \A i \in 1..Len(flight') : flight'[i] = flight[i + 1]
    BY <1>1, Typed, HeadTailProperties DEF Series
  <2>2. 1 \in 1..Len(flight) /\ Head(flight) = flight[1]
    BY <1>1, Typed, EmptySeq DEF Series
  <2>3. \A i \in 1..Len(flight') : ~(i < 1)
    OBVIOUS
  <2> QED  BY <2>1, <2>2, <2>3
<1>a. PICK urb \in [part : 1..parts, good : BOOLEAN] :
         urb.part = flight[1] /\ urb.good = TRUE /\ done' = Append(done, urb)
  <2> DEFINE urb == [part |-> Head(flight), good |-> TRUE]
  <2>1. flight[1] \in 1..parts
    BY <1>3, Typed, Elements
  <2>2. urb \in [part : 1..parts, good : BOOLEAN]
    BY <1>3, <2>1
  <2>3. urb.part = flight[1] /\ urb.good = TRUE /\ done' = Append(done, urb)
    BY <1>1, <1>3
  <2> QED  BY <2>2, <2>3
<1>4. /\ done' \in Reaped /\ Len(done') = Len(done) + 1
      /\ Apart(flight', done') /\ UpTo(flight', done', Begun)
      /\ GoodLast(flight', done')
      /\ \A i \in 1..Len(flight') : \E m \in 1..Len(flight) : flight'[i] = flight[m]
      /\ \A j \in 1..Len(done') : \/ j \in 1..Len(done) /\ done'[j] = done[j]
                                  \/ done'[j] = urb
  <2>1. GivesBack(flight, done, 1, urb, flight', done')
    BY <1>3, <1>a DEF GivesBack
  <2> QED  BY <2>1, Typed, PlacedBack
<1>5. TypeOK'
  <2>1. /\ flight' \in Seq(1..parts')
        /\ done' \in Seq([part : 1..parts', good : BOOLEAN])
    BY <1>1, <1>3, <1>4 DEF Series, Reaped
  <2> QED  BY <1>0, <1>1, <2>1 DEF TypeOK
<1>6. Mutex' /\ Fresh'
  BY <1>0, <1>1, <1>2 DEF Mutex, Fresh, Holding
<1>7. Placed'
  BY <1>1, <1>2, <1>4 DEF Placed, Apart, UpTo, GoodLast
<1>8. Counted' /\ Begun' <= parts'
  BY <1>0, <1>1, <1>2, <1>3, <1>4, Typed DEF UInv, Counted
<1>9. ~(reader \in {"callback", "lock"} /\ ok)
  BY <1>1 DEF UInv, Cleared, Nothing
<1>10. Cleared' /\ Resubmitting'
  BY <1>1, <1>9 DEF UInv, Cleared, Resubmitting
<1>11. Undisturbed'
  <2> SUFFICES ASSUME ~disturbed PROVE Whole' \/ Over'
    BY <1>1 DEF Undisturbed
  <2>1. CASE Whole
    <3>1. \A j \in 1..Len(done') : done'[j].good
      BY <1>4, <1>a, <2>1 DEF Whole
    <3>2. length' + Len(done') + Len(flight') = Begun'
      BY <1>1, <1>2, <1>3, <1>4, <2>1, Typed DEF Whole
    <3> QED  BY <1>1, <2>1, <3>1, <3>2 DEF Whole
  <2>2. CASE Over
    <3>1. \A j \in 1..Len(done') : done'[j].part = parts => ~done'[j].good
      BY <1>3, <1>4, <1>a, <2>2 DEF Over
    <3>2. \A i \in 1..Len(flight') : flight'[i] # parts
      BY <1>4, <2>2 DEF Over
    <3> QED  BY <1>1, <1>2, <2>2, <3>1, <3>2 DEF Over
  <2> QED  BY <2>1, <2>2 DEF UInv, Undisturbed
<1> QED  BY <1>5, <1>6, <1>7, <1>8, <1>10, <1>11 DEF UInv

LEMMA DeviceFails ==
  ASSUME UInv, TransferInv', TransferTypeOK', Fails
  PROVE  UInv'
<1> USE BulkAssumption
<1>0. TypeOK /\ Mutex /\ Fresh /\ Begun <= parts
  BY DEF UInv
<1>1. /\ flight # <<>> /\ flight' = <<>> /\ disabled' = TRUE
      /\ faults < MaxFaults /\ faults' = faults + 1
      /\ done' = done \o [i \in 1..Len(flight) |-> Failed(flight[i])]
      /\ user' = user /\ next' = next /\ parts' = parts
      /\ length' = length /\ ok' = ok /\ rounds' = rounds /\ calls' = calls
      /\ mutex' = mutex /\ disturbed' = disturbed
      /\ reader' = reader /\ rnext' = rnext /\ running' = running
      /\ refused' = refused /\ submitted' = submitted /\ deleted' = deleted
  BY DEF Fails, callerVars, readerVars, history
<1>2. Begun' = Begun /\ user # "idle" /\ Len(flight') = 0 /\ Len(flight) > 0
  <2>1. Begun' = Begun /\ user # "idle"
    BY <1>0, <1>1 DEF Begun, Fresh
  <2> QED  BY <1>1, <2>1, Typed, EmptySeq DEF Series
<1>3. /\ done' \in Reaped /\ Len(done') = Len(done) + Len(flight)
      /\ Apart(<<>>, done') /\ UpTo(<<>>, done', Begun) /\ GoodLast(<<>>, done')
      /\ \A j \in 1..Len(done') : done'[j].part = parts => ~done'[j].good
  BY <1>1, Typed, PlacedCancelled, Zenon
<1>4. TypeOK'
  <2>1. /\ flight' \in Seq(1..parts')
        /\ done' \in Seq([part : 1..parts', good : BOOLEAN])
    BY <1>1, <1>3, EmptySeq DEF Reaped
  <2>2. faults' \in 0..MaxFaults
    BY <1>0, <1>1 DEF TypeOK
  <2> QED  BY <1>0, <1>1, <2>1, <2>2 DEF TypeOK
<1>5. Mutex' /\ Fresh'
  BY <1>0, <1>1, <1>2 DEF Mutex, Fresh, Holding
<1>6. Placed'
  <2>1. /\ Apart(flight', done') /\ UpTo(flight', done', Begun)
        /\ GoodLast(flight', done')
    BY <1>1, <1>3
  <2>2. parts' = parts /\ Begun' = Begun
    BY <1>1, <1>2
  <2> QED  BY <2>1, <2>2 DEF Placed, Apart, UpTo, GoodLast
<1>7. Counted' /\ Begun' <= parts'
  BY <1>0, <1>1, <1>2, <1>3, Typed DEF UInv, Counted
<1>8. ~(reader \in {"callback", "lock"} /\ ok)
  BY <1>1 DEF UInv, Cleared, Nothing
<1>9. Cleared' /\ Resubmitting'
  BY <1>1, <1>8 DEF UInv, Cleared, Resubmitting
<1>10. Undisturbed'
  <2>1. Begun >= 1
    BY <1>2, Typed DEF UInv, Counted
  <2>2. Over'
    BY <1>1, <1>2, <1>3, <1>8, <2>1 DEF Over
  <2> QED  BY <2>2 DEF Undisturbed
<1> QED  BY <1>4, <1>5, <1>6, <1>7, <1>9, <1>10 DEF UInv

\* The steps of the thread that leave the parts alone.
LEMMA ReaderIdles ==
  ASSUME UInv, TransferInv', TransferTypeOK',
         TestRunning \/ ReapDeletedUrb \/ ResubmitEnds
  PROVE  UInv'
<1> USE BulkAssumption
<1>0. TypeOK /\ Mutex /\ Fresh /\ Begun <= parts
  BY DEF UInv
<1>1. /\ parts' = parts /\ flight' = flight /\ done' = done
      /\ disabled' = disabled /\ length' = length /\ ok' = ok
      /\ rounds' = rounds /\ calls' = calls /\ disturbed' = disturbed
      /\ faults' = faults /\ rnext' = rnext /\ user' = user /\ next' = next
      /\ refused' = refused /\ submitted' = submitted /\ deleted' = deleted
      /\ running' = running
      /\ reader' \in {"loop", "reap", "exit", "crashed"}
      /\ \/ mutex' = mutex /\ reader # "resubmit"
         \/ reader = "resubmit" /\ rnext > parts /\ mutex' = mutex \ {"reader"}
  BY DEF TestRunning, ReapDeletedUrb, ResubmitEnds, readerOnly, callerVars,
     kernelVars, history
<1>2. mutex' \in {{}, {"caller"}, {"reader"}}
  BY <1>0, <1>1 DEF TypeOK
<1>3. TypeOK'
  BY <1>0, <1>1, <1>2 DEF TypeOK
<1>4. Mutex' /\ Fresh'
  BY <1>0, <1>1 DEF TypeOK, Mutex, Fresh, Holding
<1>5. Begun' = Begun
  BY <1>0, <1>1 DEF TypeOK, Begun, Mutex
<1> QED  BY <1>1, <1>3, <1>4, <1>5, Steady DEF UInv

LEMMA ReaderCalls ==
  ASSUME UInv, TransferInv', TransferTypeOK', Callback, CarefulClient
  PROVE  UInv'
<1> USE BulkAssumption
<1>0. TypeOK /\ Mutex /\ Fresh /\ Begun <= parts
  BY DEF UInv
<1>1. /\ reader = "callback" /\ calls' = calls + 1
      /\ reader' = IF ok \in Resubmits /\ rounds < MaxRounds THEN "lock" ELSE "loop"
      /\ parts' = parts /\ flight' = flight /\ done' = done
      /\ disabled' = disabled /\ length' = length /\ ok' = ok
      /\ rounds' = rounds /\ disturbed' = disturbed /\ mutex' = mutex
      /\ faults' = faults /\ rnext' = rnext /\ user' = user /\ next' = next
      /\ refused' = refused /\ submitted' = submitted /\ deleted' = deleted
      /\ running' = running
  BY DEF Callback, readerOnly, callerVars, kernelVars
<1>2. user # "idle" /\ Begun' = Begun
  BY <1>0, <1>1 DEF Fresh, Begun
<1>3. TypeOK' /\ Mutex' /\ Fresh'
  <2>1. TypeOK'
    BY <1>0, <1>1 DEF TypeOK
  <2>2. Mutex' /\ Fresh'
    BY <1>0, <1>1, <1>2 DEF Mutex, Fresh, Holding
  <2> QED  BY <2>1, <2>2
<1>4. Placed' /\ Counted' /\ Begun' <= parts'
  BY <1>0, <1>1, <1>2 DEF UInv, Placed, Apart, UpTo, GoodLast, Counted
<1>5. reader' = "lock" => ok /\ rounds < MaxRounds
  BY <1>1 DEF CarefulClient
<1>6. Cleared' /\ Resubmitting'
  BY <1>1, <1>2, <1>5 DEF UInv, Cleared, Nothing, Resubmitting
<1>7. Undisturbed'
  <2> SUFFICES ASSUME ~disturbed PROVE Over'
    BY <1>1 DEF Undisturbed
  <2>1. CASE Whole
    <3>1. flight = <<>> /\ done = <<>> /\ Begun = parts
      BY <1>1, <2>1 DEF UInv, Cleared, Nothing, Whole
    <3>2. Len(flight) = 0 /\ Len(done) = 0
      BY <3>1, EmptySeq
    <3> QED  BY <1>1, <1>2, <3>1, <3>2 DEF Over
  <2>2. CASE Over
    BY <1>1, <1>2, <2>2 DEF Over
  <2> QED  BY <2>1, <2>2 DEF UInv, Undisturbed
<1> QED  BY <1>3, <1>4, <1>6, <1>7 DEF UInv

\* A part is reaped.
LEMMA ReaderReaps ==
  ASSUME UInv, TransferInv', TransferTypeOK', ReapUrb
  PROVE  UInv'
<1> USE BulkAssumption
<1> DEFINE urb == done[1]
           got == IF urb.good THEN 1 ELSE 0
<1>0. TypeOK /\ Mutex /\ Fresh /\ Begun <= parts
  BY DEF UInv
<1>1. /\ reader = "reap" /\ done # <<>> /\ done' = Tail(done)
      /\ parts' = parts /\ flight' = flight
      /\ disabled' = disabled
      /\ rounds' = rounds /\ calls' = calls /\ disturbed' = disturbed
      /\ faults' = faults /\ rnext' = rnext /\ user' = user /\ next' = next
      /\ refused' = refused /\ submitted' = submitted /\ deleted' = deleted
      /\ running' = running /\ mutex' = mutex /\ reader' # "resubmit"
  BY DEF ReapUrb, readerOnly, callerVars, history
<1>2. user # "idle" /\ Begun' = Begun
  BY <1>0, <1>1 DEF Fresh, Begun
<1>3. /\ done' \in Reaped /\ Len(done') = Len(done) - 1 /\ Len(done) > 0
      /\ Apart(flight, done') /\ UpTo(flight, done', Begun)
      /\ GoodLast(flight, done')
      /\ \A j \in 1..Len(done') : j + 1 \in 1..Len(done) /\ done'[j] = done[j + 1]
      /\ Head(done) = urb
  BY <1>1, Typed, PlacedReap
<1>4. /\ 1 \in 1..Len(done) /\ urb.part \in 1..parts /\ urb.good \in BOOLEAN
      /\ urb.part <= Begun
  <2>1. 1 \in 1..Len(done) /\ urb.part \in 1..parts /\ urb.good \in BOOLEAN
    BY <1>3, Typed
  <2> QED  BY <2>1, Typed DEF Ordered, UpTo
<1>5. /\ length' = (IF parts = 1 THEN 0 ELSE length) + got
      /\ \/ /\ parts = 1 \/ urb.part = parts \/ ~urb.good
            /\ ok' = urb.good /\ reader' = "callback"
         \/ /\ parts # 1 /\ urb.part # parts /\ urb.good
            /\ ok' = ok /\ reader' = "loop"
  BY <1>3 DEF ReapUrb, IsLast
<1>6. /\ length' \in Nat /\ length' + Len(done') <= length + Len(done)
      /\ parts # 1 /\ urb.good =>
           length' + Len(done') = length + Len(done)
  <2>1. got \in {0, 1} /\ (urb.good => got = 1)
    BY <1>4
  <2> HIDE DEF got
  <2> QED  BY <1>3, <1>5, <2>1, Typed
<1> HIDE DEF got
<1>7. Counted' /\ Begun' <= parts'
  <2>1. length + Len(done) + Len(flight) <= Begun
    BY DEF UInv, Counted
  <2>2. Len(done') \in Nat
    BY <1>3, Typed
  <2> QED  BY <1>0, <1>1, <1>2, <1>6, <2>1, <2>2, Typed DEF Counted
<1>8. TypeOK'
  <2>1. flight' \in Seq(1..parts')
    BY <1>0, <1>1 DEF TypeOK
  <2>2. done' \in Seq([part : 1..parts', good : BOOLEAN])
    BY <1>1, <1>3 DEF Reaped
  <2>3. length' \in 0..parts'
    <3>1. Len(done') \in Nat
      BY <1>3, Typed
    <3> QED  BY <1>1, <1>2, <1>6, <1>7, <3>1, Typed DEF Counted
  <2>4. ok' \in BOOLEAN /\ reader' \in {"callback", "loop"}
    BY <1>0, <1>4, <1>5 DEF TypeOK
  <2> QED  BY <1>0, <1>1, <2>1, <2>2, <2>3, <2>4 DEF TypeOK
<1>9. Mutex' /\ Fresh'
  <2>1. reader' \in {"callback", "loop"}
    BY <1>5
  <2> QED  BY <1>0, <1>1, <1>2, <2>1 DEF Mutex, Fresh, Holding
<1>10. Placed'
  BY <1>1, <1>2, <1>3 DEF Placed, Apart, UpTo, GoodLast
<1>11. ASSUME urb.good, urb.part = parts
       PROVE  done' = <<>> /\ flight = <<>> /\ Begun = parts
  <2>1. Len(done) = 1 /\ flight = <<>>
    BY <1>4, <1>11, Typed DEF Ordered, GoodLast
  <2>2. Len(done') = 0
    BY <1>3, <2>1
  <2>3. Begun = parts
    BY <1>0, <1>4, <1>11, Typed
  <2>4. done' = <<>>
    BY <1>3, <2>2, EmptySeq DEF Reaped
  <2> QED  BY <2>1, <2>3, <2>4
<1>12. Cleared' /\ Resubmitting'
  <2>1. ASSUME reader' = "callback", ok' PROVE Nothing' /\ Begun' = parts'
    <3>1. (parts = 1 \/ urb.part = parts \/ ~urb.good) /\ ok' = urb.good
      BY <1>5, <2>1
    <3>2. urb.good
      BY <2>1, <3>1, Zenon
    <3>3. urb.part = parts
      BY <1>4, <3>1, <3>2
    <3> QED  BY <1>1, <1>2, <1>11, <3>2, <3>3 DEF Nothing
  <2>2. reader' # "lock"
    BY <1>5
  <2> QED  BY <2>1, <2>2 DEF Cleared, Resubmitting
<1>13. Undisturbed'
  <2> SUFFICES ASSUME ~disturbed PROVE Whole' \/ Over'
    BY <1>1 DEF Undisturbed
  <2>1. CASE Whole
    <3>1. \A j \in 1..Len(done') : done'[j].good
      BY <1>3, <2>1 DEF Whole
    <3>2. urb.good
      BY <1>4, <2>1 DEF Whole
    <3>3. length + Len(done) + Len(flight) = Begun
      BY <2>1 DEF Whole
    <3>4. length' + Len(done') + Len(flight') = Begun'
      <4>1. CASE parts = 1
        <5>1. length' = 1
          BY <1>5, <3>2, <4>1 DEF got
        <5>2. Len(done') = 0 /\ Len(flight) = 0 /\ Begun = 1
          BY <1>3, <3>3, <4>1, Typed
        <5> QED  BY <1>1, <1>2, <5>1, <5>2
      <4>2. CASE parts # 1
        BY <1>1, <1>2, <1>3, <1>6, <3>2, <3>3, <4>2, Typed
      <4> QED  BY <4>1, <4>2
    <3>5. calls' = 0 /\ (reader' = "callback" => ok')
      BY <1>1, <1>5, <2>1, <3>2 DEF Whole
    <3> QED  BY <3>1, <3>4, <3>5 DEF Whole
  <2>2. CASE Over
    <3>1. \A j \in 1..Len(done') : done'[j].part = parts' => ~done'[j].good
      BY <1>1, <1>3, <2>2 DEF Over
    <3>2. reader' = "callback" => ~ok'
      <4>1. urb.part = parts => ~urb.good
        BY <1>4, <2>2 DEF Over
      <4>2. parts = 1 => urb.part = parts
        BY <1>4
      <4> QED  BY <1>5, <4>1, <4>2
    <3> QED  BY <1>1, <1>2, <2>2, <3>1, <3>2 DEF Over
  <2> QED  BY <2>1, <2>2 DEF UInv, Undisturbed
<1> QED  BY <1>7, <1>8, <1>9, <1>10, <1>12, <1>13 DEF UInv

\* A URB that is submitted again starts from nothing.
LEMMA ReaderResubmits ==
  ASSUME UInv, TransferInv', TransferTypeOK', ResubmitUrb
  PROVE  UInv'
<1> USE BulkAssumption
<1>0. TypeOK /\ Mutex /\ Fresh /\ Begun <= parts
  BY DEF UInv
<1>1. /\ reader = "lock" /\ mutex = {} /\ reader' = "resubmit" /\ rnext' = 1
      /\ length' = 0 /\ ok' = TRUE
      /\ mutex' = IF parts = 1 THEN {} ELSE {"reader"}
      /\ rounds' = rounds + 1 /\ calls' = 0 /\ disturbed' = FALSE
      /\ parts' = parts /\ flight' = flight /\ done' = done
      /\ disabled' = disabled /\ faults' = faults /\ user' = user /\ next' = next
      /\ refused' = refused /\ submitted' = submitted /\ deleted' = deleted
      /\ running' = running
  BY DEF ResubmitUrb, readerOnly, callerVars, kernelVars
<1>2. user \notin {"idle", "submit"} /\ ok /\ rounds < MaxRounds
  BY <1>0, <1>1 DEF UInv, Fresh, Mutex, Holding, Resubmitting
<1>3. flight = <<>> /\ done = <<>> /\ Len(flight) = 0 /\ Len(done) = 0
  BY <1>1, <1>2, EmptySeq DEF UInv, Cleared, Nothing
<1>4. Begun' = 0
  BY <1>1, <1>2 DEF Begun
<1>5. TypeOK'
  <2>1. rounds' \in 0..MaxRounds /\ rnext' \in 1..(Parts + 1) /\ length' \in 0..parts'
    BY <1>0, <1>1, <1>2 DEF TypeOK
  <2> QED  BY <1>0, <1>1, <2>1 DEF TypeOK
<1>6. Mutex' /\ Fresh'
  BY <1>0, <1>1, <1>2 DEF TypeOK, Mutex, Fresh, Holding
<1>7. Placed' /\ Counted' /\ Begun' <= parts'
  BY <1>1, <1>3, <1>4, Typed DEF Placed, Apart, UpTo, GoodLast, Counted
<1>8. Cleared' /\ Resubmitting'
  BY <1>1 DEF Cleared, Resubmitting
<1>9. Undisturbed'
  BY <1>1, <1>3, <1>4 DEF Undisturbed, Whole
<1> QED  BY <1>5, <1>6, <1>7, <1>8, <1>9 DEF UInv

LEMMA ReaderSubmits ==
  ASSUME UInv, TransferInv', TransferTypeOK', ResubmitPart
  PROVE  UInv'
<1> USE BulkAssumption
<1>0. TypeOK /\ Mutex /\ Fresh /\ Begun <= parts
  BY DEF UInv
<1>1. /\ reader = "resubmit" /\ rnext <= parts /\ rnext' = rnext + 1
      /\ reader' = reader /\ length' = length /\ ok' = ok
      /\ rounds' = rounds /\ calls' = calls /\ mutex' = mutex
      /\ parts' = parts /\ user' = user /\ next' = next
      /\ refused' = refused /\ submitted' = submitted /\ deleted' = deleted
      /\ running' = running
  BY DEF ResubmitPart, readerOnly, callerVars
<1>2. user \notin {"idle", "submit"} /\ Begun = rnext - 1 /\ Begun' = rnext
  BY <1>0, <1>1 DEF TypeOK, Mutex, Begun
<1>3. Offered(rnext)
  BY <1>0, <1>1, <1>2 DEF TypeOK, Offered
<1>4. \/ Submit(rnext) /\ disturbed' = disturbed
      \/ Refuse(rnext) /\ disturbed' = TRUE
  BY DEF ResubmitPart
<1>5. /\ flight' \in Seq(1..parts') /\ done' = done /\ disabled' \in BOOLEAN
      /\ faults' \in 0..MaxFaults /\ disturbed' \in BOOLEAN
      /\ Begun' <= parts' /\ Placed' /\ Cleared' /\ Resubmitting'
      /\ Counted' /\ Undisturbed'
  BY <1>3, <1>4, PartOffered
<1>6. TypeOK'
  <2>1. rnext' \in 1..(Parts + 1)
    BY <1>0, <1>1 DEF TypeOK
  <2> QED  BY <1>0, <1>1, <1>5, <2>1 DEF TypeOK
<1>7. Mutex' /\ Fresh'
  BY <1>0, <1>1, <1>2 DEF Mutex, Fresh, Holding
<1> QED  BY <1>5, <1>6, <1>7 DEF UInv

LEMMA UrbStep ==
  ASSUME CarefulClient, UInv, [Next]_vars
  PROVE  UInv'
<1>0. TransferInv' /\ TransferTypeOK'
  BY UrbTransferStep
<1>1. CASE Transfers \/ UNCHANGED vars
  <2>1. /\ parts' = parts /\ flight' = flight /\ done' = done
        /\ disabled' = disabled /\ length' = length /\ ok' = ok
        /\ rounds' = rounds /\ calls' = calls /\ disturbed' = disturbed
        /\ faults' = faults /\ rnext' = rnext /\ user' = user /\ next' = next
        /\ refused' = refused /\ submitted' = submitted /\ deleted' = deleted
        /\ running' = running /\ reader' = reader /\ mutex' = mutex
    BY <1>1 DEF Transfers, vars, urbVars, callerVars, readerVars, kernelVars,
       history
  <2>2. Begun' = Begun
    BY <2>1 DEF Begun
  <2>3. TypeOK' /\ Mutex' /\ Fresh'
    <3>1. TypeOK'
      BY <1>0, <2>1 DEF UInv, TypeOK
    <3> QED  BY <2>1, <3>1 DEF UInv, Mutex, Fresh, Holding
  <2> QED  BY <1>0, <2>1, <2>2, <2>3, Steady DEF UInv
<1>2. CASE Caller
  BY <1>0, <1>2, CallerIdles, CallerSubmits, CallerDiscards
     DEF Caller, CallerSteps
<1>3. CASE UrbThread
  BY <1>0, <1>3, ReaderIdles, ReaderReaps, ReaderCalls, ReaderResubmits,
     ReaderSubmits DEF UrbThread
<1>4. CASE Completes \/ Fails
  BY <1>0, <1>4, DeviceCompletes, DeviceFails
<1> QED  BY <1>1, <1>2, <1>3, <1>4 DEF Next

-----------------------------------------------------------------------------
LEMMA UrbInvariant ==
  ASSUME CarefulClient
  PROVE  Spec => []UInv
<1>1. UInv /\ [Next]_vars => UInv'
  BY UrbStep
<1> QED  BY UrbInit, <1>1, PTL DEF Spec

\* The variables keep their types: the length that is added up never exceeds
\* the parts, whatever fails, is cancelled or is submitted again.
THEOREM BulkTypeOK ==
  ASSUME CarefulClient
  PROVE  Spec => []TypeOK
<1>1. UInv => TypeOK
  BY DEF UInv
<1> QED  BY UrbInvariant, <1>1, PTL

\* A client that resubmits what was good gets one callback with the whole
\* length, or an error, of each round in which nothing was refused or discarded.
THEOREM SuccessesAreWhole ==
  ASSUME CarefulClient
  PROVE  Spec => []SuccessIsWhole
<1>1. UInv => SuccessIsWhole
  <2> SUFFICES ASSUME UInv, reader = "callback", ok, ~disturbed
               PROVE  length = parts /\ calls = 0
    BY DEF SuccessIsWhole
  <2>1. Whole
    BY DEF UInv, Undisturbed, Over
  <2>2. flight = <<>> /\ done = <<>> /\ Begun = parts
    BY DEF UInv, Cleared, Nothing
  <2>3. Len(flight) = 0 /\ Len(done) = 0
    BY <2>2, EmptySeq
  <2> QED  BY <2>1, <2>2, <2>3, Typed DEF Whole
<1> QED  BY UrbInvariant, <1>1, PTL

\* The buffer of a part is never with usbdevfs for two URBs.
THEOREM UrbsAreOnce ==
  ASSUME CarefulClient
  PROVE  Spec => []UrbOnce
<1>1. UInv => UrbOnce
  <2> SUFFICES ASSUME UInv PROVE UrbOnce
    OBVIOUS
  <2> DEFINE c   == [i \in 1..Len(done) |-> done[i].part]
             all == flight \o c
  <2>1. /\ flight \in Series /\ Len(flight) \in Nat /\ Len(done) \in Nat
        /\ \A i \in 1..Len(flight) : flight[i] \in Nat
        /\ \A j \in 1..Len(done) : done[j].part \in 1..parts
        /\ Apart(flight, done)
    BY Typed, Elements DEF Ordered
  <2>2. c \in Series /\ Len(c) = Len(done)
    BY <2>1 DEF Series
  <2>3. \A i \in 1..Len(done) : c[i] = done[i].part
    OBVIOUS
  <2> HIDE DEF c
  <2>4. /\ all \in Series /\ Len(all) = Len(flight) + Len(done)
        /\ \A i \in 1..(Len(flight) + Len(done)) :
             all[i] = IF i <= Len(flight) THEN flight[i] ELSE c[i - Len(flight)]
    <3>1. /\ all \in Series /\ Len(all) = Len(flight) + Len(c)
          /\ \A i \in 1..(Len(flight) + Len(c)) :
               all[i] = IF i <= Len(flight) THEN flight[i] ELSE c[i - Len(flight)]
      BY <2>1, <2>2, ConcatProperties DEF Series
    <3> QED  BY <2>2, <3>1
  <2>5. DOMAIN all = 1..(Len(flight) + Len(done))
    BY <2>4, LenProperties DEF Series
  <2> HIDE DEF all
  <2>6. ASSUME NEW a \in DOMAIN all, NEW b \in DOMAIN all, a < b
        PROVE  all[a] # all[b]
    <3>1. CASE b <= Len(flight)
      <4>1. /\ a \in 1..Len(flight) /\ b \in 1..Len(flight)
            /\ all[a] = flight[a] /\ all[b] = flight[b]
        BY <2>1, <2>4, <2>5, <2>6, <3>1
      <4>2. flight[a] < flight[b]
        BY <2>1, <2>6, <4>1 DEF Apart
      <4> QED  BY <2>1, <4>1, <4>2
    <3>2. CASE a <= Len(flight) /\ ~(b <= Len(flight))
      <4>1. PICK j \in 1..Len(done) :
              a \in 1..Len(flight) /\ all[a] = flight[a] /\ all[b] = done[j].part
        <5>1. b - Len(flight) \in 1..Len(done) /\ all[b] = c[b - Len(flight)]
          BY <2>1, <2>4, <2>5, <3>2
        <5> QED  BY <2>1, <2>3, <2>4, <2>5, <3>2, <5>1
      <4> QED  BY <2>1, <4>1 DEF Apart
    <3>3. CASE ~(a <= Len(flight))
      <4>1. PICK i \in 1..Len(done), j \in 1..Len(done) :
              i # j /\ all[a] = done[i].part /\ all[b] = done[j].part
        <5>1. /\ a - Len(flight) \in 1..Len(done) /\ all[a] = c[a - Len(flight)]
              /\ b - Len(flight) \in 1..Len(done) /\ all[b] = c[b - Len(flight)]
              /\ a - Len(flight) # b - Len(flight)
          BY <2>1, <2>4, <2>5, <2>6, <3>3
        <5> QED  BY <2>3, <5>1
      <4> QED  BY <2>1, <4>1 DEF Apart
    <3> QED  BY <2>1, <2>5, <2>6, <3>1, <3>2, <3>3
  <2>7. \A a, b \in DOMAIN all : all[a] = all[b] => a = b
    <3>1. \A a, b \in DOMAIN all : a = b \/ a < b \/ b < a
      BY <2>1, <2>5
    <3> QED  BY <2>6, <3>1
  <2> QED  BY <2>7 DEF UrbOnce, IsInjective, all, c
<1> QED  BY UrbInvariant, <1>1, PTL

=============================================================================
