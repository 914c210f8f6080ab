---------------------------- MODULE TcpClientProofs ----------------------------
(***************************************************************************)
(* Proofs about TimerQueue and TcpClient for any messages, buffers, delays *)
(* and bounds: no timer is lost, and messages cross the client whole.      *)
(***************************************************************************)
EXTENDS TcpClient, SequenceTheorems, NaturalsInduction, WellFoundedInduction,
        FiniteSetTheorems, TLAPS

-----------------------------------------------------------------------------
(* numbers *)

\* A set that has 0 and the successor of each of its numbers has them all.
LEMMA Counting ==
  ASSUME NEW S, 0 \in S, \A n \in Nat : n \in S => n + 1 \in S
  PROVE  Nat \subseteq S
<1> DEFINE T == Nat \ S
<1>1. SUFFICES ASSUME T # {} PROVE FALSE
  OBVIOUS
<1> DEFINE R == OpToRel(<, Nat)
<1>0. IsWellFoundedOn(R, Nat) /\ T \subseteq Nat
  BY NatLessThanWellFounded, Zenon
<1>5. ASSUME NEW a \in Nat, NEW b \in Nat, a < b PROVE <<a, b>> \in R
  BY <1>5 DEF OpToRel
<1> HIDE DEF R
<1>2. PICK x \in T : \A y \in T : ~ (<<y, x>> \in R)
  BY <1>0, <1>1, WFMin
<1>3. x \in Nat /\ x # 0 /\ x - 1 \in Nat /\ x - 1 < x /\ x - 1 + 1 = x
  BY DEF T
<1>4. x - 1 \in T
  BY <1>3 DEF T
<1> QED
  BY <1>2, <1>3, <1>4, <1>5

-----------------------------------------------------------------------------
(* flattened sequences *)

\* f[i] is the concatenation of the first i pieces: the recursion of FlattenSeq.
Adds(f, ss, n) ==
  f = [i \in 1..n |-> IF i = 1 THEN ss[i] ELSE f[i - 1] \o ss[i]]

\* The recursion has a solution.
LEMMA AddsExists ==
  ASSUME NEW ss, NEW n \in Nat
  PROVE  \E f : Adds(f, ss, n)
<1> DEFINE S == {k \in Nat : \E f : Adds(f, ss, k)}
<1>1. 0 \in S
  <2>1. Adds(<<>>, ss, 0)
    BY DEF Adds
  <2> QED
    BY <2>1
<1>2. ASSUME NEW k \in Nat, k \in S PROVE k + 1 \in S
  <2>1. PICK f : Adds(f, ss, k)
    BY <1>2
  <2> DEFINE g == [i \in 1..k + 1 |-> IF i \in 1..k THEN f[i]
                                     ELSE IF i = 1 THEN ss[i] ELSE f[i - 1] \o ss[i]]
  <2>2. g = [i \in 1..k + 1 |-> IF i = 1 THEN ss[i] ELSE g[i - 1] \o ss[i]]
    <3>1. ASSUME NEW i \in 1..k + 1 PROVE g[i] = IF i = 1 THEN ss[i] ELSE g[i - 1] \o ss[i]
      <4>1. CASE i \in 1..k
        <5>1. f[i] = IF i = 1 THEN ss[i] ELSE f[i - 1] \o ss[i]
          BY <2>1, <4>1 DEF Adds
        <5>2. i # 1 => i - 1 \in 1..k /\ i - 1 \in 1..k + 1
          BY <4>1
        <5> QED
          BY <4>1, <5>1, <5>2
      <4>2. CASE i = k + 1
        <5>1. i \notin 1..k /\ (i # 1 => i - 1 \in 1..k /\ i - 1 \in 1..k + 1)
          BY <4>2
        <5> QED
          BY <5>1
      <4> QED
        BY <4>1, <4>2
    <3> QED
      BY <3>1
  <2>3. Adds(g, ss, k + 1)
    BY <2>2 DEF Adds
  <2> QED
    BY <2>3
<1> QED
  BY <1>1, <1>2, Counting

\* FlattenSeq is the last value of a solution.
LEMMA FlattenIsSum ==
  ASSUME NEW ss, Len(ss) \in Nat \ {0}
  PROVE  \E f : Adds(f, ss, Len(ss)) /\ FlattenSeq(ss) = f[Len(ss)]
<1> DEFINE D(f) == f = [i \in 1..Len(ss) |-> IF i = 1 THEN ss[i] ELSE f[i - 1] \o ss[i]]
<1>1. \E f : D(f)
  BY AddsExists DEF Adds
<1>2. D(CHOOSE f : D(f))
  BY <1>1, Zenon
<1>3. FlattenSeq(ss) = (CHOOSE f : D(f))[Len(ss)]
  BY DEF FlattenSeq
<1> QED
  BY <1>2, <1>3, Zenon DEF Adds
\* Of no pieces.

\* The whole has the elements of the pieces.
LEMMA FlattenType ==
  ASSUME NEW S, NEW ss \in Seq(Seq(S))
  PROVE  FlattenSeq(ss) \in Seq(S)
<1>1. CASE ss = <<>>
  BY <1>1 DEF FlattenSeq
<1>2. CASE ss # <<>>
  <2>1. Len(ss) \in Nat \ {0}
    BY <1>2
  <2>2. PICK f : Adds(f, ss, Len(ss)) /\ FlattenSeq(ss) = f[Len(ss)]
    BY <2>1, FlattenIsSum
  <2> DEFINE T == {k \in Nat : k \in 1..Len(ss) => f[k] \in Seq(S)}
  <2>3. 0 \in T
    OBVIOUS
  <2>4. ASSUME NEW k \in Nat, k \in T PROVE k + 1 \in T
    <3>1. SUFFICES ASSUME k + 1 \in 1..Len(ss) PROVE f[k + 1] \in Seq(S)
      OBVIOUS
    <3>2. f[k + 1] = IF k + 1 = 1 THEN ss[k + 1] ELSE f[k] \o ss[k + 1]
      <4>1. k + 1 - 1 = k
        OBVIOUS
      <4>2. \A i \in 1..Len(ss) : f[i] = IF i = 1 THEN ss[i] ELSE f[i - 1] \o ss[i]
        BY <2>2 DEF Adds
      <4> QED
        BY <3>1, <4>1, <4>2
    <3>3. ss[k + 1] \in Seq(S)
      BY <3>1
    <3>4. CASE k = 0
      BY <3>2, <3>3, <3>4
    <3>5. CASE k # 0
      <4>1. f[k] \in Seq(S)
        BY <2>4, <3>1, <3>5
      <4>2. f[k] \o ss[k + 1] \in Seq(S)
        BY <3>3, <4>1, ConcatProperties, Zenon
      <4> QED
        BY <3>2, <3>5, <4>2
    <3> QED
      BY <3>4, <3>5
  <2> HIDE DEF T
  <2>5. Len(ss) \in T
    BY <2>1, <2>3, <2>4, Counting
  <2> QED
    BY <2>1, <2>2, <2>5 DEF T
<1> QED
  BY <1>1, <1>2


Timer == [id : Nat, ts : Nat, cb : {"user", "reconn"}]

\* The timers in a queue.
In(q) == {q.lst[i] : i \in DOMAIN q.lst}

\* A queue as the code keeps it, but for the order of the heap.
Sound(q) ==
  /\ q = [lst |-> q.lst, position |-> q.position, next |-> q.next, pioneer |-> q.pioneer,
          armed |-> q.armed]
  /\ q.lst \in Seq(Timer) /\ q.next \in Nat /\ q.pioneer \in Nat /\ q.armed = q.pioneer
  /\ PositionsMatch(q)
  /\ \A i \in DOMAIN q.lst : q.lst[i].id < q.next

\* The choice from a set of one element.
LEMMA OnlyIs == ASSUME NEW x PROVE Only({x}) = x
BY DEF Only

\* Positions tell timers apart.
LEMMA IdsDiffer ==
  ASSUME NEW q, Sound(q), NEW i \in DOMAIN q.lst, NEW j \in DOMAIN q.lst,
         q.lst[i].id = q.lst[j].id
  PROVE  i = j
BY DEF Sound, PositionsMatch

\* The time stamps of a queue.
LEMMA TimesOf ==
  ASSUME NEW q, Sound(q)
  PROVE  /\ DOMAIN q.lst = 1..Len(q.lst) /\ Len(q.lst) \in Nat
         /\ \E t \in [1..Len(q.lst) -> Nat] : \A k \in 1..Len(q.lst) : t[k] = q.lst[k].ts
<1>1. PICK n \in Nat : n = Len(q.lst) /\ DOMAIN q.lst = 1..n /\ q.lst \in [1..n -> Timer]
  BY DEF Sound
<1>2. \A k \in 1..n : q.lst[k].ts \in Nat
  BY <1>1 DEF Timer
<1>3. PICK t : t = [k \in 1..n |-> q.lst[k].ts]
  OBVIOUS
<1>4. t \in [1..n -> Nat] /\ \A k \in 1..n : t[k] = q.lst[k].ts
  BY <1>2, <1>3
<1> QED
  BY <1>1, <1>4

\* What Swap does, and that it keeps a queue sound.
LEMMA SwapIs ==
  ASSUME NEW q, Sound(q), NEW i \in DOMAIN q.lst, NEW j \in DOMAIN q.lst, i # j
  PROVE  LET r == Swap(q, i, j)
         IN /\ Sound(r) /\ Len(r.lst) = Len(q.lst) /\ In(r) = In(q)
            /\ r.lst[i] = q.lst[j] /\ r.lst[j] = q.lst[i]
            /\ \A k \in DOMAIN q.lst : k # i /\ k # j => r.lst[k] = q.lst[k]
            /\ r.next = q.next /\ r.pioneer = q.pioneer /\ r.armed = q.armed
<1>1. PICK l, pos, nx, pn, am :
           /\ q = [lst |-> l, position |-> pos, next |-> nx, pioneer |-> pn, armed |-> am]
           /\ l = q.lst /\ pos = q.position /\ nx = q.next /\ pn = q.pioneer /\ am = q.armed
  BY DEF Sound
<1>2. PICK n \in Nat : n = Len(l) /\ DOMAIN l = 1..n /\ l \in [1..n -> Timer]
  BY <1>1 DEF Sound
<1>3. PICK l2 : l2 = [[l EXCEPT ![i] = l[j]] EXCEPT ![j] = l[i]]
  OBVIOUS
<1>4. PICK pos2 : pos2 = [[pos EXCEPT ![l[i].id] = j] EXCEPT ![l[j].id] = i]
  OBVIOUS
<1>5. /\ l2 \in [1..n -> Timer] /\ l2[i] = l[j] /\ l2[j] = l[i]
      /\ \A k \in 1..n : k # i /\ k # j => l2[k] = l[k]
  BY <1>1, <1>2, <1>3
<1>6. l2 \in Seq(Timer) /\ Len(l2) = n /\ DOMAIN l2 = 1..n
  BY <1>2, <1>5
<1>7. l[i].id # l[j].id
  BY <1>1, IdsDiffer
<1>8. /\ DOMAIN pos = {l[k].id : k \in 1..n}
      /\ \A k \in 1..n : pos[l[k].id] = k
  BY <1>1, <1>2 DEF Sound, PositionsMatch
<1>9. /\ DOMAIN pos2 = DOMAIN pos /\ pos2[l[i].id] = j /\ pos2[l[j].id] = i
      /\ \A x \in DOMAIN pos : x # l[i].id /\ x # l[j].id => pos2[x] = pos[x]
  BY <1>1, <1>2, <1>4, <1>7, <1>8
<1>10. PICK r : r = Swap(q, i, j)
  OBVIOUS
<1>11. r = [lst |-> l2, position |-> pos2, next |-> nx, pioneer |-> pn, armed |-> am]
  BY <1>1, <1>3, <1>4, <1>10 DEF Swap
<1>12. \A k \in 1..n : pos2[l2[k].id] = k
  <2>1. \A k \in 1..n : k # i /\ k # j => l[k].id # l[i].id /\ l[k].id # l[j].id
    BY <1>1, <1>2, IdsDiffer
  <2> QED
    BY <1>1, <1>2, <1>5, <1>8, <1>9, <2>1
<1>13. /\ {l2[k].id : k \in 1..n} = {l[k].id : k \in 1..n}
       /\ {l2[k] : k \in 1..n} = {l[k] : k \in 1..n}
  <2>1. \A k \in 1..n : \E m \in 1..n : l2[k] = l[m]
    BY <1>1, <1>2, <1>5
  <2>2. \A k \in 1..n : \E m \in 1..n : l[k] = l2[m]
    <3>1. l[i] = l2[j] /\ l[j] = l2[i] /\ i \in 1..n /\ j \in 1..n
      BY <1>1, <1>2, <1>5
    <3>2. \A k \in 1..n : k # i /\ k # j => l[k] = l2[k]
      BY <1>5
    <3> QED
      BY <3>1, <3>2
  <2> QED
    BY <2>1, <2>2
<1>14. PositionsMatch(r)
  <2>1. r.lst = l2 /\ r.position = pos2
    BY <1>11
  <2>2. DOMAIN pos2 = {l2[k].id : k \in 1..n}
    BY <1>8, <1>9, <1>13
  <2> QED
    BY <1>6, <1>12, <2>1, <2>2 DEF PositionsMatch
<1>15. \A k \in 1..n : l2[k].id < nx
  BY <1>1, <1>2, <1>5 DEF Sound
<1>16. Sound(r)
  BY <1>1, <1>6, <1>11, <1>14, <1>15 DEF Sound
<1> QED
  BY <1>1, <1>2, <1>5, <1>6, <1>10, <1>11, <1>13, <1>16 DEF In

-----------------------------------------------------------------------------
(* heap_add *)

\* A heap but for what is at i, which may have to rise.
Rising(q, i) ==
  /\ \A k \in DOMAIN q.lst : k > 1 /\ k # i => q.lst[k \div 2].ts <= q.lst[k].ts
  /\ i > 1 => \A k \in DOMAIN q.lst : k \div 2 = i => q.lst[i \div 2].ts <= q.lst[k].ts

\* A timer that rises leaves a heap behind it.
LEMMA RisingSwap ==
  ASSUME NEW q, Sound(q), NEW i \in DOMAIN q.lst, i > 1, Rising(q, i),
         q.lst[i].ts < q.lst[i \div 2].ts
  PROVE  i \div 2 \in DOMAIN q.lst /\ i # i \div 2 /\ Rising(Swap(q, i, i \div 2), i \div 2)
<1>1. PICK n \in Nat : n = Len(q.lst) /\ DOMAIN q.lst = 1..n
  BY DEF Sound
<1>2. PICK p \in 1..n : p = i \div 2 /\ p < i
  BY <1>1
<1>3. PICK t \in [1..n -> Nat] : \A k \in 1..n : t[k] = q.lst[k].ts
  BY <1>1, TimesOf
<1>4. PICK r : r = Swap(q, i, p)
  OBVIOUS
<1>5. /\ Sound(r) /\ Len(r.lst) = n /\ r.lst[i] = q.lst[p] /\ r.lst[p] = q.lst[i]
      /\ \A k \in 1..n : k # i /\ k # p => r.lst[k] = q.lst[k]
  BY <1>1, <1>2, <1>4, SwapIs
<1>6. DOMAIN r.lst = 1..n
  BY <1>5 DEF Sound
<1>7. PICK u \in [1..n -> Nat] : /\ \A k \in 1..n : u[k] = r.lst[k].ts
                                 /\ u[i] = t[p] /\ u[p] = t[i]
                                 /\ \A k \in 1..n : k # i /\ k # p => u[k] = t[k]
  <2>1. PICK u \in [1..n -> Nat] : \A k \in 1..n : u[k] = r.lst[k].ts
    BY <1>5, TimesOf
  <2>2. u[i] = t[p] /\ u[p] = t[i]
    BY <1>1, <1>2, <1>3, <1>5, <2>1
  <2>3. \A k \in 1..n : k # i /\ k # p => u[k] = t[k]
    BY <1>3, <1>5, <2>1
  <2> QED
    BY <2>1, <2>2, <2>3
<1>8. t[i] < t[p]
  BY <1>1, <1>2, <1>3
<1>9. \A k \in 1..n : k > 1 => k \div 2 \in 1..n /\ k \div 2 < k
  OBVIOUS
<1>10. \A k \in 1..n : k > 1 /\ k # i => t[k \div 2] <= t[k]
  BY <1>1, <1>3, <1>9 DEF Rising
<1>11. \A k \in 1..n : k \div 2 = i => t[p] <= t[k]
  BY <1>1, <1>2, <1>3 DEF Rising
<1>12. ASSUME NEW k \in 1..n, k > 1, k # p PROVE u[k \div 2] <= u[k]
  <2>1. PICK m \in 1..n : m = k \div 2 /\ m # k
    BY <1>9, <1>12
  <2>2. t[m] <= t[k] \/ k = i
    BY <1>10, <1>12, <2>1
  <2>3. u[m] <= u[k]
    <3>1. CASE k = i
      BY <1>2, <1>7, <1>8, <2>1, <3>1
    <3>2. CASE k # i /\ m = i
      BY <1>7, <1>11, <1>12, <2>1, <3>2
    <3>3. CASE k # i /\ m = p
      BY <1>7, <1>8, <1>12, <2>2, <3>3
    <3>4. CASE k # i /\ m # i /\ m # p
      BY <1>7, <1>12, <2>2, <3>4
    <3> QED
      BY <3>1, <3>2, <3>3, <3>4
  <2> QED
    BY <2>1, <2>3, Zenon
<1>13. ASSUME p > 1, NEW k \in 1..n, k \div 2 = p PROVE u[p \div 2] <= u[k]
  <2>1. PICK m \in 1..n : m = p \div 2 /\ m # p /\ m # i
    <3>1. p \div 2 \in 1..n /\ p \div 2 < p
      BY <1>9, <1>13
    <3>2. p \in Nat /\ i \in Nat /\ p < i
      BY <1>1, <1>2
    <3> QED
      BY <3>1, <3>2
  <2>2. u[m] <= t[p]
    BY <1>2, <1>7, <1>10, <1>13, <2>1
  <2>3. k > 1 /\ k # p
    BY <1>13
  <2>4. CASE k = i
    BY <1>7, <2>1, <2>2, <2>4
  <2>5. CASE k # i
    <3>1. t[p] <= t[k] /\ u[k] = t[k]
      BY <1>7, <1>10, <1>13, <2>3, <2>5
    <3> QED
      BY <1>7, <2>1, <2>2, <3>1
  <2> QED
    BY <2>4, <2>5
<1>14. Rising(r, p)
  <2>1. \A k \in DOMAIN r.lst : k > 1 /\ k # p => r.lst[k \div 2].ts <= r.lst[k].ts
    BY <1>6, <1>7, <1>9, <1>12
  <2>2. p > 1 => \A k \in DOMAIN r.lst : k \div 2 = p => r.lst[p \div 2].ts <= r.lst[k].ts
    BY <1>6, <1>7, <1>9, <1>13
  <2> QED
    BY <2>1, <2>2 DEF Rising
<1> QED
  BY <1>1, <1>2, <1>4, <1>14

\* What moving timers around leaves alone.
Like(r, q) ==
  Len(r.lst) = Len(q.lst) /\ In(r) = In(q) /\ r.next = q.next /\ r.pioneer = q.pioneer

\* A round that finds nothing to do.
Settled(v) == v.at = 1 \/ v.queue.lst[v.at].ts >= v.queue.lst[v.at \div 2].ts

\* What a round of SiftUp keeps, if it began with q at i and this is round n.
RiseIsRight(v, q, i, n) ==
  /\ Sound(v.queue) /\ v.at \in DOMAIN v.queue.lst /\ Like(v.queue, q)
  /\ Rising(q, i) => Rising(v.queue, v.at)
  /\ v.at + n <= i \/ Settled(v)

\* A round of heap_add keeps it.
LEMMA RiseKeeps ==
  ASSUME NEW v, NEW q, NEW i \in Nat, NEW n \in Nat, RiseIsRight(v, q, i, n)
  PROVE  RiseIsRight(Rise(v), q, i, n + 1)
<1>1. PICK m \in Nat : m = v.at /\ m >= 1 /\ m \in DOMAIN v.queue.lst
  BY DEF RiseIsRight, Sound
<1>2. CASE Settled(v)
  <2>1. Rise(v) = v
    BY <1>2 DEF Rise, Settled
  <2> QED
    BY <1>2, <2>1 DEF RiseIsRight
<1>3. CASE ~Settled(v)
  <2>1. PICK t \in [1..Len(v.queue.lst) -> Nat] :
           \A k \in 1..Len(v.queue.lst) : t[k] = v.queue.lst[k].ts
    BY TimesOf DEF RiseIsRight
  <2>2. DOMAIN v.queue.lst = 1..Len(v.queue.lst) /\ Len(v.queue.lst) \in Nat
    BY TimesOf DEF RiseIsRight
  <2>3. m > 1 /\ m \div 2 \in Nat /\ m \div 2 >= 1 /\ m \div 2 < m
    BY <1>1, <1>3 DEF Settled
  <2>4. m \div 2 \in DOMAIN v.queue.lst /\ m # m \div 2
    BY <1>1, <2>2, <2>3
  <2>5. v.queue.lst[m].ts < v.queue.lst[m \div 2].ts
    BY <1>1, <1>3, <2>1, <2>2, <2>4 DEF Settled
  <2>6. PICK r : r = Swap(v.queue, m, m \div 2)
    OBVIOUS
  <2>7. /\ Sound(r) /\ Len(r.lst) = Len(v.queue.lst) /\ In(r) = In(v.queue)
        /\ r.next = v.queue.next /\ r.pioneer = v.queue.pioneer
    BY <1>1, <2>4, <2>6, SwapIs DEF RiseIsRight
  <2>8. Rise(v) = [queue |-> r, at |-> m \div 2]
    BY <1>1, <1>3, <2>6 DEF Rise, Settled
  <2>9. Rising(v.queue, m) => Rising(r, m \div 2)
    BY <1>1, <2>3, <2>5, <2>6, RisingSwap DEF RiseIsRight
  <2>10. Like(r, q)
    BY <2>7 DEF RiseIsRight, Like
  <2>11. m \div 2 + (n + 1) <= i
    <3>1. m + n <= i
      BY <1>1, <1>3 DEF RiseIsRight
    <3> QED
      BY <1>1, <2>3, <3>1
  <2>12. m \div 2 \in DOMAIN r.lst
    <3>1. DOMAIN r.lst = 1..Len(r.lst)
      BY <2>7, TimesOf
    <3> QED
      BY <2>2, <2>4, <2>7, <3>1
  <2>13. Rising(q, i) => Rising(v.queue, m)
    BY <1>1 DEF RiseIsRight
  <2>14. PICK x : x = Rise(v)
    OBVIOUS
  <2>15. x.queue = r /\ x.at = m \div 2
    BY <2>8, <2>14
  <2>16. RiseIsRight(x, q, i, n + 1)
    BY <2>7, <2>9, <2>10, <2>11, <2>12, <2>13, <2>15 DEF RiseIsRight
  <2> QED
    BY <2>14, <2>16
<1> QED
  BY <1>2, <1>3

\* f[k] is what k rounds of SiftUp make of q.
RisesOf(f, q, i, n) ==
  f = [k \in 0..n |-> IF k = 0 THEN [queue |-> q, at |-> i]
                      ELSE Only({Rise(w) : w \in {f[k - 1]}})]

\* The recursion of SiftUp has a solution.
LEMMA RisesExist ==
  ASSUME NEW q, NEW i, NEW n \in Nat
  PROVE  \E f : RisesOf(f, q, i, n)
<1> DEFINE Start == [queue |-> q, at |-> i]
           Raised(v) == Only({Rise(w) : w \in {v}})
           S == {k \in Nat : \E f : RisesOf(f, q, i, k)}
<1>1. 0 \in S
  <2>1. RisesOf([k \in 0..0 |-> Start], q, i, 0)
    BY DEF RisesOf
  <2> QED
    BY <2>1
<1>2. ASSUME NEW k \in Nat, k \in S PROVE k + 1 \in S
  <2>1. PICK f : RisesOf(f, q, i, k)
    BY <1>2
  <2> DEFINE g == [j \in 0..k + 1 |-> IF j \in 0..k THEN f[j] ELSE Raised(f[j - 1])]
  <2>2. ASSUME NEW j \in 0..k + 1 PROVE g[j] = IF j = 0 THEN Start ELSE Raised(g[j - 1])
    <3>1. CASE j \in 0..k
      <4>1. f[j] = IF j = 0 THEN Start ELSE Raised(f[j - 1])
        BY <2>1, <3>1 DEF RisesOf
      <4>2. j # 0 => j - 1 \in 0..k /\ j - 1 \in 0..k + 1
        BY <3>1
      <4> HIDE DEF Next
      <4> QED
        BY <3>1, <4>1, <4>2
    <3>2. CASE j = k + 1
      <4>1. j \notin 0..k /\ j # 0 /\ j - 1 \in 0..k /\ j - 1 \in 0..k + 1
        BY <3>2
      <4> HIDE DEF Next
      <4> QED
        BY <4>1
    <3> QED
      BY <3>1, <3>2
  <2>3. RisesOf(g, q, i, k + 1)
    BY <2>2 DEF RisesOf
  <2> QED
    BY <2>3
<1>3. n \in S
  <2> HIDE DEF S
  <2> QED
    BY <1>1, <1>2, Counting
<1> QED
  BY <1>3

\* SiftUp moves timers only, and makes a heap of what is one but for i.
LEMMA SiftUpIs ==
  ASSUME NEW q, Sound(q), NEW i \in DOMAIN q.lst
  PROVE  LET r == SiftUp(q, i)
         IN Sound(r) /\ Like(r, q) /\ (Rising(q, i) => IsHeap(r))
<1>1. PICK n \in Nat : n = i /\ n >= 1
  BY DEF Sound
<1> DEFINE D(f) == RisesOf(f, q, n, n)
           f == CHOOSE g : D(g)
<1>2. D(f)
  <2>1. \E g : D(g)
    BY RisesExist
  <2> HIDE DEF D
  <2> QED
    BY <2>1, Zenon
<1>3. SiftUp(q, i) = f[n].queue
  BY <1>1 DEF SiftUp, RisesOf
<1> HIDE DEF f
<1>4. f[0] = [queue |-> q, at |-> n]
  BY <1>2 DEF RisesOf
<1>5. ASSUME NEW k \in 0..n, k + 1 \in 0..n PROVE f[k + 1] = Rise(f[k])
  <2>1. PICK j \in 0..n : j = k + 1 /\ j # 0 /\ j - 1 = k
    BY <1>5
  <2>2. f[j] = Only({Rise(w) : w \in {f[j - 1]}})
    BY <1>2, <2>1 DEF RisesOf
  <2>3. {Rise(w) : w \in {f[j - 1]}} = {Rise(f[j - 1])}
    OBVIOUS
  <2>4. Only({Rise(f[j - 1])}) = Rise(f[j - 1])
    BY OnlyIs
  <2> QED
    BY <2>1, <2>2, <2>3, <2>4
<1> DEFINE T == {k \in Nat : k \in 0..n => RiseIsRight(f[k], q, n, k)}
<1>6. 0 \in T
  <2>1. RiseIsRight(f[0], q, n, 0)
    BY <1>1, <1>4 DEF RiseIsRight, Like
  <2> QED
    BY <2>1
<1>7. ASSUME NEW k \in Nat, k \in T PROVE k + 1 \in T
  <2>1. SUFFICES ASSUME k + 1 \in 0..n PROVE RiseIsRight(f[k + 1], q, n, k + 1)
    OBVIOUS
  <2>2. k \in 0..n /\ RiseIsRight(f[k], q, n, k)
    BY <1>7, <2>1
  <2> QED
    BY <1>5, <2>1, <2>2, RiseKeeps
<1>8. RiseIsRight(f[n], q, n, n)
  <2>1. n \in T
    <3> HIDE DEF T
    <3> QED
      BY <1>6, <1>7, Counting
  <2> QED
    BY <2>1
<1>9. PICK v : v = f[n]
  OBVIOUS
<1>10. Sound(v.queue) /\ Like(v.queue, q) /\ v.at \in DOMAIN v.queue.lst
  BY <1>8, <1>9 DEF RiseIsRight
<1>11. Settled(v)
  <2>1. v.at \in Nat /\ v.at >= 1
    BY <1>10 DEF Sound
  <2> QED
    BY <1>8, <1>9, <2>1 DEF RiseIsRight
<1>12. Rising(q, i) => IsHeap(v.queue)
  <2>1. SUFFICES ASSUME Rising(v.queue, v.at) PROVE IsHeap(v.queue)
    BY <1>1, <1>8, <1>9 DEF RiseIsRight
  <2>2. SUFFICES ASSUME NEW k \in DOMAIN v.queue.lst, k > 1
                 PROVE  v.queue.lst[k \div 2].ts <= v.queue.lst[k].ts
    BY DEF IsHeap
  <2>3. CASE k # v.at
    BY <2>1, <2>2, <2>3 DEF Rising
  <2>4. CASE k = v.at
    <3>1. v.queue.lst[k].ts >= v.queue.lst[k \div 2].ts
      BY <1>11, <2>2, <2>4 DEF Settled
    <3>2. k \in Nat /\ k \div 2 \in DOMAIN v.queue.lst
      <4>1. DOMAIN v.queue.lst = 1..Len(v.queue.lst) /\ Len(v.queue.lst) \in Nat
        BY <1>10, TimesOf
      <4> QED
        BY <2>2, <4>1
    <3>3. v.queue.lst[k].ts \in Nat /\ v.queue.lst[k \div 2].ts \in Nat
      BY <1>10, <2>2, <3>2, TimesOf
    <3> QED
      BY <3>1, <3>3
  <2> QED
    BY <2>3, <2>4
<1> QED
  BY <1>3, <1>9, <1>10, <1>12

\* What HeapAdd does with a timer whose identifier is new.
LEMMA HeapAddIs ==
  ASSUME NEW q, Sound(q), NEW te \in Timer, te.id < q.next, te.id \notin DOMAIN q.position
  PROVE  LET r == HeapAdd(q, te)
         IN /\ Sound(r) /\ Len(r.lst) = Len(q.lst) + 1 /\ In(r) = In(q) \cup {te}
            /\ r.next = q.next /\ r.pioneer = q.pioneer
            /\ IsHeap(q) => IsHeap(r)
<1>1. PICK l, pos, nx, pn, am :
           /\ q = [lst |-> l, position |-> pos, next |-> nx, pioneer |-> pn, armed |-> am]
           /\ l = q.lst /\ pos = q.position /\ nx = q.next /\ pn = q.pioneer /\ am = q.armed
  BY DEF Sound
<1>2. PICK n \in Nat : n = Len(l) /\ DOMAIN l = 1..n /\ l \in [1..n -> Timer] /\ l \in Seq(Timer)
  BY <1>1 DEF Sound
<1>3. PICK l2 : l2 = Append(l, te)
  OBVIOUS
<1>4. /\ l2 \in Seq(Timer) /\ Len(l2) = n + 1 /\ DOMAIN l2 = 1..n + 1 /\ l2[n + 1] = te
      /\ \A k \in 1..n : l2[k] = l[k]
  BY <1>2, <1>3
<1>5. PICK pos2 : pos2 = [x \in DOMAIN pos \cup {te.id} |-> IF x = te.id THEN n + 1 ELSE pos[x]]
  OBVIOUS
<1>6. /\ DOMAIN pos = {l[k].id : k \in 1..n}
      /\ \A k \in 1..n : pos[l[k].id] = k
  BY <1>1, <1>2 DEF Sound, PositionsMatch
<1>7. PICK r : r = [lst |-> l2, position |-> pos2, next |-> nx, pioneer |-> pn, armed |-> am]
  OBVIOUS
<1>8. HeapAdd(q, te) = SiftUp(r, n + 1)
  <2>1. [q EXCEPT !.lst = Append(@, te),
                  !.position = [x \in DOMAIN @ \cup {te.id} |->
                                  IF x = te.id THEN Len(q.lst) + 1 ELSE @[x]]] = r
    <3>1. PICK p : p = [x \in DOMAIN q.position \cup {te.id} |->
                          IF x = te.id THEN Len(q.lst) + 1 ELSE q.position[x]]
      OBVIOUS
    <3>2. p = pos2 /\ Append(q.lst, te) = l2
      BY <1>1, <1>2, <1>3, <1>5, <3>1
    <3>3. [[q EXCEPT !.lst = l2] EXCEPT !.position = pos2] = r
      <4>1. PICK m : m = [q EXCEPT !.lst = l2]
        OBVIOUS
      <4>2. m = [lst |-> l2, position |-> pos, next |-> nx, pioneer |-> pn, armed |-> am]
        BY <1>1, <4>1
      <4>3. [m EXCEPT !.position = pos2] = r
        BY <1>7, <4>2
      <4> QED
        BY <4>1, <4>3
    <3> QED
      BY <1>1, <3>1, <3>2, <3>3
  <2>2. Len(q.lst) + 1 = n + 1
    BY <1>1, <1>2
  <2> QED
    BY <2>1, <2>2 DEF HeapAdd
<1>9. PositionsMatch(r)
  <2>1. r.lst = l2 /\ r.position = pos2
    BY <1>7
  <2>2. \A k \in 1..n : l2[k].id = l[k].id /\ l[k].id # te.id /\ pos2[l[k].id] = k
    BY <1>1, <1>4, <1>5, <1>6
  <2>3. pos2[te.id] = n + 1 /\ l2[n + 1].id = te.id
    BY <1>4, <1>5
  <2>4. \A k \in 1..n + 1 : pos2[l2[k].id] = k
    BY <1>2, <2>2, <2>3
  <2>5. DOMAIN pos2 = {l2[k].id : k \in 1..n + 1}
    <3>1. DOMAIN pos2 = {l[k].id : k \in 1..n} \cup {te.id}
      BY <1>5, <1>6
    <3>2. \A k \in 1..n + 1 : k = n + 1 \/ k \in 1..n
      BY <1>2
    <3>3. n + 1 \in 1..n + 1 /\ \A k \in 1..n : k \in 1..n + 1
      BY <1>2
    <3> QED
      BY <2>2, <2>3, <3>1, <3>2, <3>3
  <2> QED
    BY <1>4, <2>1, <2>4, <2>5 DEF PositionsMatch
<1>10. Sound(r)
  <2>1. \A k \in 1..n + 1 : l2[k].id < nx
    BY <1>1, <1>2, <1>4 DEF Sound
  <2> QED
    BY <1>1, <1>4, <1>7, <1>9, <2>1 DEF Sound
<1>11. In(r) = In(q) \cup {te}
  <2>1. In(r) = {l2[k] : k \in 1..n + 1} /\ In(q) = {l[k] : k \in 1..n}
    BY <1>1, <1>2, <1>4, <1>7 DEF In
  <2>2. \A k \in 1..n + 1 : k = n + 1 \/ k \in 1..n
    BY <1>2
  <2>3. n + 1 \in 1..n + 1 /\ \A k \in 1..n : k \in 1..n + 1
    BY <1>2
  <2> QED
    BY <1>4, <2>1, <2>2, <2>3
<1>12. IsHeap(q) => Rising(r, n + 1)
  <2>1. SUFFICES ASSUME IsHeap(q) PROVE Rising(r, n + 1)
    OBVIOUS
  <2>2. ASSUME NEW k \in DOMAIN r.lst, k > 1, k # n + 1
        PROVE  r.lst[k \div 2].ts <= r.lst[k].ts
    <3>1. k \in 1..n /\ k \div 2 \in 1..n
      BY <1>2, <1>4, <1>7, <2>2
    <3>2. r.lst[k] = l[k] /\ r.lst[k \div 2] = l[k \div 2]
      BY <1>4, <1>7, <3>1
    <3> QED
      BY <1>1, <1>2, <2>1, <2>2, <3>1, <3>2 DEF IsHeap
  <2>3. ASSUME NEW k \in DOMAIN r.lst PROVE k \div 2 # n + 1
    BY <1>2, <1>4, <1>7
  <2> QED
    BY <2>2, <2>3 DEF Rising
<1>13. n + 1 \in DOMAIN r.lst
  BY <1>2, <1>4, <1>7
<1>14. /\ Sound(SiftUp(r, n + 1)) /\ Like(SiftUp(r, n + 1), r)
       /\ Rising(r, n + 1) => IsHeap(SiftUp(r, n + 1))
  BY <1>10, <1>13, SiftUpIs
<1> QED
  BY <1>1, <1>2, <1>4, <1>7, <1>8, <1>11, <1>12, <1>14 DEF Like

\* What AddTimer does.
LEMMA AddTimerIs ==
  ASSUME NEW q, Sound(q), NEW ts \in Nat, NEW cb \in {"user", "reconn"}
  PROVE  LET r == AddTimer(q, ts, cb)
         IN /\ Sound(r) /\ In(r) = In(q) \cup {[id |-> q.next, ts |-> ts, cb |-> cb]}
            /\ r.next = q.next + 1
            /\ IsHeap(q) => IsHeap(r)
<1>1. PICK te \in Timer : te = [id |-> q.next, ts |-> ts, cb |-> cb] /\ te.id = q.next
  <2>1. PICK n \in Nat : n = q.next
    BY DEF Sound
  <2>2. [id |-> n, ts |-> ts, cb |-> cb] \in Timer
    BY DEF Timer
  <2> QED
    BY <2>1, <2>2
<1>2. PICK p : p = [q EXCEPT !.next = @ + 1]
  OBVIOUS
<1>3. /\ p = [lst |-> q.lst, position |-> q.position, next |-> q.next + 1,
              pioneer |-> q.pioneer, armed |-> q.armed]
      /\ p.lst = q.lst /\ p.position = q.position /\ p.next = q.next + 1
      /\ p.pioneer = q.pioneer /\ p.armed = q.armed
  BY <1>2 DEF Sound
<1>4. Sound(p) /\ In(p) = In(q) /\ (IsHeap(q) => IsHeap(p))
  <2>1. \A k \in DOMAIN q.lst : q.lst[k].id < q.next + 1
    <3>1. \A k \in DOMAIN q.lst : q.lst[k].id \in Nat
      <4>1. \A k \in DOMAIN q.lst : q.lst[k] \in Timer
        BY DEF Sound
      <4> QED
        BY <4>1 DEF Timer
    <3> QED
      BY <3>1 DEF Sound
  <2>2. PositionsMatch(p)
    BY <1>3 DEF Sound, PositionsMatch
  <2> QED
    BY <1>3, <2>1, <2>2 DEF Sound, In, IsHeap
<1>5. te.id < p.next /\ te.id \notin DOMAIN p.position
  <2>1. q.next \in Nat /\ \A k \in DOMAIN q.lst : q.lst[k].id < q.next
    BY DEF Sound
  <2>2. DOMAIN q.position = {q.lst[k].id : k \in DOMAIN q.lst}
    BY DEF Sound, PositionsMatch
  <2> QED
    BY <1>1, <1>3, <2>1, <2>2
<1>6. PICK a : a = HeapAdd(p, te)
  OBVIOUS
<1>7. /\ Sound(a) /\ Len(a.lst) = Len(q.lst) + 1 /\ In(a) = In(q) \cup {te}
      /\ a.next = q.next + 1 /\ a.pioneer = q.pioneer
      /\ IsHeap(q) => IsHeap(a)
  BY <1>3, <1>4, <1>5, <1>6, HeapAddIs
<1>8. a.lst[1].ts \in Nat
  <2>1. Len(q.lst) \in Nat /\ 1 \in 1..Len(a.lst)
    BY <1>7, TimesOf
  <2> QED
    BY <1>7, <2>1, TimesOf
<1>9. PICK r : r = AddTimer(q, ts, cb)
  OBVIOUS
<1>10. r = IF a.lst[1].ts < q.pioneer THEN Reset(a, a.lst[1].ts) ELSE a
  <2> DEFINE Arm(added) ==
        IF added.lst[1].ts < q.pioneer THEN Reset(added, added.lst[1].ts) ELSE added
  <2>0. PICK y : y = Arm(a)
    OBVIOUS
  <2>1. {Arm(added) : added \in {HeapAdd(p, te)}} = {y}
    BY <1>6, <2>0
  <2>2. r = Only({Arm(added) : added \in {HeapAdd(p, te)}})
    BY <1>1, <1>2, <1>9 DEF AddTimer
  <2>3. Only({y}) = y
    BY OnlyIs
  <2> QED
    BY <2>0, <2>1, <2>2, <2>3
<1>11. CASE a.lst[1].ts < q.pioneer
  <2>1. /\ r = [lst |-> a.lst, position |-> a.position, next |-> a.next,
                pioneer |-> a.lst[1].ts, armed |-> a.lst[1].ts]
        /\ r.lst = a.lst /\ r.position = a.position /\ r.next = a.next
        /\ r.pioneer = a.lst[1].ts /\ r.armed = a.lst[1].ts
    BY <1>7, <1>10, <1>11 DEF Reset, Sound
  <2>2. Sound(r)
    BY <1>7, <1>8, <2>1 DEF Sound, PositionsMatch
  <2> QED
    BY <1>1, <1>7, <1>9, <2>1, <2>2 DEF In, IsHeap
<1>12. CASE ~(a.lst[1].ts < q.pioneer)
  BY <1>1, <1>7, <1>9, <1>10, <1>12
<1> QED
  BY <1>11, <1>12

-----------------------------------------------------------------------------
(* heap_del and heap_pop *)

\* What Drop does.
LEMMA DropIs ==
  ASSUME NEW q, Sound(q), NEW i \in DOMAIN q.lst
  PROVE  LET r == Drop(q, i)
         IN /\ Sound(r) /\ In(r) = In(q) \ {q.lst[i]} /\ Len(r.lst) = Len(q.lst) - 1
            /\ r.next = q.next /\ r.pioneer = q.pioneer
            /\ \A k \in 1..Len(q.lst) - 1 :
                 r.lst[k] = IF k = i THEN q.lst[Len(q.lst)] ELSE q.lst[k]
<1>1. PICK l, pos, nx, pn, am :
           /\ q = [lst |-> l, position |-> pos, next |-> nx, pioneer |-> pn, armed |-> am]
           /\ l = q.lst /\ pos = q.position /\ nx = q.next /\ pn = q.pioneer /\ am = q.armed
  BY DEF Sound
<1>2. PICK n \in Nat : n = Len(l) /\ DOMAIN l = 1..n /\ l \in [1..n -> Timer] /\ i \in 1..n
  BY <1>1 DEF Sound
<1>3. PICK m : m = [l EXCEPT ![i] = l[n]]
  OBVIOUS
<1>4. /\ m \in [1..n -> Timer] /\ m \in Seq(Timer) /\ Len(m) = n
      /\ \A k \in 1..n : m[k] = IF k = i THEN l[n] ELSE l[k]
  BY <1>2, <1>3
<1>5. PICK l2 : l2 = SubSeq(m, 1, n - 1)
  OBVIOUS
<1>6. /\ l2 \in Seq(Timer) /\ Len(l2) = n - 1 /\ DOMAIN l2 = 1..n - 1
      /\ \A k \in 1..n - 1 : l2[k] = m[k]
  BY <1>2, <1>4, <1>5
<1>7. \A k \in 1..n - 1 : k \in 1..n /\ l2[k] = IF k = i THEN l[n] ELSE l[k]
  BY <1>2, <1>4, <1>6
<1>8. PICK pos2 : pos2 = [x \in DOMAIN pos \ {l[i].id} |-> IF x = l[n].id THEN i ELSE pos[x]]
  OBVIOUS
<1>9. PICK r : r = [lst |-> l2, position |-> pos2, next |-> nx, pioneer |-> pn, armed |-> am]
  OBVIOUS
<1>10. Drop(q, i) = r
  <2>1. Last(q.lst) = l[n] /\ q.lst[i] = l[i]
    BY <1>1, <1>2 DEF Last
  <2>2. Front([q.lst EXCEPT ![i] = l[n]]) = l2
    BY <1>1, <1>3, <1>4, <1>5 DEF Front
  <2>3. PICK a : a = [q EXCEPT !.lst = l2]
    OBVIOUS
  <2>4. a = [lst |-> l2, position |-> pos, next |-> nx, pioneer |-> pn, armed |-> am]
    BY <1>1, <2>3
  <2>5. [a EXCEPT !.position = pos2] = r
    BY <1>9, <2>4
  <2>6. [q EXCEPT !.lst = l2, !.position = pos2] = r
    BY <2>3, <2>5
  <2>7. PICK p : p = [x \in DOMAIN q.position \ {q.lst[i].id} |->
                         IF x = Last(q.lst).id THEN i ELSE q.position[x]]
    OBVIOUS
  <2>8. p = pos2
    BY <1>1, <1>8, <2>1, <2>7
  <2>9. Drop(q, i) = [q EXCEPT !.lst = Front([q.lst EXCEPT ![i] = Last(q.lst)]), !.position = p]
    BY <2>7 DEF Drop
  <2> QED
    BY <2>1, <2>2, <2>6, <2>8, <2>9
<1>11. /\ DOMAIN pos = {l[k].id : k \in 1..n}
       /\ \A k \in 1..n : pos[l[k].id] = k
       /\ \A j, k \in 1..n : l[j].id = l[k].id => j = k
  <2>1. DOMAIN pos = {l[k].id : k \in 1..n} /\ \A k \in 1..n : pos[l[k].id] = k
    BY <1>1, <1>2 DEF Sound, PositionsMatch
  <2> QED
    BY <2>1
<1>17. n \in 1..n /\ n - 1 \in Nat /\ \A k \in 1..n - 1 : k \in 1..n /\ k # n
  <2>1. i >= 1 /\ i <= n /\ i \in Nat
    BY <1>2
  <2> QED
    BY <2>1
<1>18. \A k \in 1..n : k # n => k \in 1..n - 1
  OBVIOUS
<1>12. ASSUME NEW k \in 1..n - 1
       PROVE  l2[k].id \in DOMAIN pos \ {l[i].id} /\ pos2[l2[k].id] = k
  <2>1. PICK j \in 1..n : l2[k] = l[j] /\ (j = IF k = i THEN n ELSE k)
    <3>1. CASE k = i
      BY <1>7, <1>12, <1>17, <3>1
    <3>2. CASE k # i
      BY <1>7, <1>12, <1>17, <3>2
    <3> QED
      BY <3>1, <3>2
  <2>2. j # i
    BY <1>12, <1>17, <2>1
  <2>3. l[j].id \in DOMAIN pos /\ l[j].id # l[i].id
    BY <1>2, <1>11, <2>2
  <2>4. CASE k = i
    BY <1>8, <2>1, <2>3, <2>4
  <2>5. CASE k # i
    <3>1. j = k /\ k # n
      BY <1>12, <1>17, <2>1, <2>5
    <3>2. l[j].id # l[n].id
      BY <1>11, <1>17, <3>1
    <3>3. pos2[l[j].id] = pos[l[j].id]
      BY <1>8, <2>3, <3>2
    <3> QED
      BY <1>11, <2>1, <2>3, <3>1, <3>3
  <2> QED
    BY <2>4, <2>5
<1>13. ASSUME NEW j \in 1..n, j # i PROVE \E k \in 1..n - 1 : l2[k] = l[j]
  <2>1. CASE j = n
    <3>1. i \in 1..n - 1
      BY <1>2, <1>13, <1>18, <2>1
    <3> QED
      BY <1>7, <2>1, <3>1
  <2>2. CASE j # n
    <3>1. j \in 1..n - 1
      BY <1>18, <2>2
    <3> QED
      BY <1>7, <1>13, <3>1
  <2> QED
    BY <2>1, <2>2
<1>14. PositionsMatch(r)
  <2>1. DOMAIN pos2 = DOMAIN pos \ {l[i].id}
    BY <1>8
  <2>2. DOMAIN pos2 = {l2[k].id : k \in 1..n - 1}
    <3>1. ASSUME NEW x \in DOMAIN pos2 PROVE x \in {l2[k].id : k \in 1..n - 1}
      <4>1. PICK j \in 1..n : x = l[j].id /\ j # i
        BY <1>11, <2>1, <3>1
      <4> QED
        BY <1>13, <4>1
    <3> QED
      BY <1>12, <2>1, <3>1
  <2>3. r.lst = l2 /\ r.position = pos2
    BY <1>9
  <2> QED
    BY <1>6, <1>12, <2>2, <2>3 DEF PositionsMatch
<1>15. Sound(r)
  <2>1. \A k \in 1..n : l[k].id < nx
    BY <1>1, <1>2 DEF Sound
  <2>2. \A k \in 1..n - 1 : l2[k].id < nx
    BY <1>2, <1>7, <2>1
  <2> QED
    BY <1>1, <1>6, <1>9, <1>14, <2>2 DEF Sound
<1>16. In(r) = In(q) \ {q.lst[i]}
  <2>1. In(r) = {l2[k] : k \in 1..n - 1} /\ In(q) = {l[k] : k \in 1..n} /\ q.lst[i] = l[i]
    BY <1>1, <1>2, <1>6, <1>9 DEF In
  <2>2. \A k \in 1..n - 1 : \E j \in 1..n : j # i /\ l2[k] = l[j]
    <3>1. ASSUME NEW k \in 1..n - 1 PROVE \E j \in 1..n : j # i /\ l2[k] = l[j]
      <4>1. CASE k = i
        <5>1. n # i /\ n \in 1..n /\ l2[k] = l[n]
          BY <1>7, <1>17, <3>1, <4>1
        <5> QED
          BY <5>1
      <4>2. CASE k # i
        BY <1>7, <3>1, <4>2
      <4> QED
        BY <4>1, <4>2
    <3> QED
      BY <3>1
  <2>3. \A j \in 1..n : j # i => l[j] # l[i]
    BY <1>2, <1>11
  <2> QED
    <3>1. ASSUME NEW x \in In(r) PROVE x \in In(q) \ {q.lst[i]}
      <4>1. PICK k \in 1..n - 1 : x = l2[k]
        BY <2>1, <3>1
      <4>2. PICK j \in 1..n : j # i /\ x = l[j]
        BY <2>2, <4>1
      <4> QED
        BY <2>1, <2>3, <4>2
    <3>2. ASSUME NEW x \in In(q) \ {q.lst[i]} PROVE x \in In(r)
      <4>1. PICK j \in 1..n : x = l[j] /\ j # i
        BY <2>1, <3>2
      <4> QED
        BY <1>13, <2>1, <4>1
    <3> QED
      BY <3>1, <3>2
<1>19. /\ r.lst = l2 /\ r.next = q.next /\ r.pioneer = q.pioneer
  BY <1>1, <1>9
<1>20. \A k \in 1..n - 1 : r.lst[k] = IF k = i THEN q.lst[n] ELSE q.lst[k]
  BY <1>1, <1>7, <1>19
<1>21. Len(r.lst) = n - 1 /\ Len(q.lst) = n
  BY <1>1, <1>2, <1>6, <1>19
<1> QED
  BY <1>10, <1>15, <1>16, <1>19, <1>20, <1>21

\* LeastOf chooses from the family, and the least.
LEMMA LeastOfIs ==
  ASSUME NEW q, Sound(q), NEW i \in DOMAIN q.lst
  PROVE  /\ LeastOf(q, i) \in {i, 2 * i, 2 * i + 1} \cap DOMAIN q.lst
         /\ \A k \in {i, 2 * i, 2 * i + 1} \cap DOMAIN q.lst :
              q.lst[LeastOf(q, i)].ts <= q.lst[k].ts
<1>1. PICK t \in [1..Len(q.lst) -> Nat] : \A k \in 1..Len(q.lst) : t[k] = q.lst[k].ts
  BY TimesOf
<1>2. PICK F : F = {i, 2 * i, 2 * i + 1} \cap DOMAIN q.lst
  OBVIOUS
<1>3. \A k \in F : k \in Nat /\ t[k] \in Nat /\ t[k] = q.lst[k].ts
  BY <1>1, <1>2, TimesOf
<1> DEFINE C(j) == \A k \in F : q.lst[j].ts < q.lst[k].ts
                                  \/ (q.lst[j].ts = q.lst[k].ts /\ j <= k)
           Best(j, k) == t[j] < t[k] \/ (t[j] = t[k] /\ j <= k)
<1>8. \A x, y, z \in F : Best(x, y) /\ Best(y, z) => Best(x, z)
  BY <1>3
<1>4. \E j \in F : C(j)
  <2>1. i \in F
    BY <1>2
  <2>2. PICK a \in F : a = i /\ Best(a, a)
    BY <1>3, <2>1
  <2>3. PICK b \in F : Best(b, a) /\ (2 * i \in F => Best(b, 2 * i))
    <3>1. CASE 2 * i \in F
      <4>1. Best(a, 2 * i) \/ Best(2 * i, a)
        BY <1>3, <2>2, <3>1
      <4>2. Best(2 * i, 2 * i)
        BY <1>3, <3>1
      <4> QED
        BY <2>2, <3>1, <4>1, <4>2
    <3>2. CASE 2 * i \notin F
      BY <2>2, <3>2
    <3> QED
      BY <3>1, <3>2
  <2>4. PICK c \in F : /\ Best(c, a) /\ (2 * i \in F => Best(c, 2 * i))
                       /\ 2 * i + 1 \in F => Best(c, 2 * i + 1)
    <3>1. CASE 2 * i + 1 \in F
      <4>1. PICK d \in F : d = 2 * i + 1
        BY <3>1
      <4>2. Best(b, d) \/ Best(d, b)
        BY <1>3, <4>1
      <4>3. Best(d, d)
        BY <1>3, <4>1
      <4>4. Best(d, b) => Best(d, a) /\ (2 * i \in F => Best(d, 2 * i))
        <5> HIDE DEF Best
        <5> QED
          BY <1>8, <2>2, <2>3, <4>1
      <4> QED
        BY <2>3, <4>1, <4>2, <4>3, <4>4
    <3>2. CASE 2 * i + 1 \notin F
      BY <2>3, <3>2
    <3> QED
      BY <3>1, <3>2
  <2>5. ASSUME NEW k \in F PROVE Best(c, k)
    <3>1. k = i \/ k = 2 * i \/ k = 2 * i + 1
      BY <1>2, <2>5
    <3> QED
      BY <2>2, <2>4, <2>5, <3>1
  <2>6. C(c)
    BY <1>3, <2>5
  <2> QED
    BY <2>6
<1>5. LeastOf(q, i) = CHOOSE j \in F : C(j)
  BY <1>2 DEF LeastOf
<1>6. LeastOf(q, i) \in F /\ C(LeastOf(q, i))
  <2> HIDE DEF C
  <2> QED
    BY <1>4, <1>5
<1>7. ASSUME NEW k \in F PROVE q.lst[LeastOf(q, i)].ts <= q.lst[k].ts
  <2>1. PICK j \in F : j = LeastOf(q, i) /\ C(j)
    BY <1>6
  <2>2. t[j] < t[k] \/ t[j] = t[k]
    BY <1>3, <1>7, <2>1
  <2>3. t[j] <= t[k] /\ t[j] = q.lst[j].ts /\ t[k] = q.lst[k].ts
    BY <1>3, <1>7, <2>2
  <2> QED
    BY <2>1, <2>3
<1> QED
  BY <1>2, <1>6, <1>7

\* What HeapDel does: the heap stays one if it had at most four timers.
LEMMA HeapDelIs ==
  ASSUME NEW q, Sound(q), NEW i \in DOMAIN q.lst
  PROVE  LET r == HeapDel(q, i)
         IN /\ Sound(r) /\ In(r) = In(q) \ {q.lst[i]} /\ Len(r.lst) = Len(q.lst) - 1
            /\ r.next = q.next /\ r.pioneer = q.pioneer
            /\ IsHeap(q) /\ Len(q.lst) <= 4 => IsHeap(r)
<1>1. PICK n \in Nat : n = Len(q.lst) /\ DOMAIN q.lst = 1..n /\ i \in 1..n
  BY TimesOf
<1>2. PICK d : d = Drop(q, i)
  OBVIOUS
<1>3. /\ Sound(d) /\ In(d) = In(q) \ {q.lst[i]} /\ Len(d.lst) = n - 1
      /\ d.next = q.next /\ d.pioneer = q.pioneer
      /\ \A k \in 1..n - 1 : d.lst[k] = IF k = i THEN q.lst[n] ELSE q.lst[k]
  BY <1>1, <1>2, DropIs
<1>4. DOMAIN d.lst = 1..n - 1
  BY <1>3, TimesOf
<1>9. PICK m \in Nat : m = n - 1
  BY <1>1
<1>5. PICK r : r = HeapHold(d, i)
  OBVIOUS
<1>6. HeapDel(q, i) = r
  <2>1. {HeapHold(left, i) : left \in {Drop(q, i)}} = {r}
    BY <1>2, <1>5
  <2> QED
    BY <2>1, OnlyIs DEF HeapDel
<1>7. CASE i \notin DOMAIN d.lst
  <2>1. r = d
    BY <1>5, <1>7 DEF HeapHold
  <2>2. i = n
    BY <1>1, <1>4, <1>7
  <2>3. ASSUME IsHeap(q), NEW k \in DOMAIN d.lst, k > 1
        PROVE  d.lst[k \div 2].ts <= d.lst[k].ts
    <3>1. k \in 1..n /\ k # i /\ k \div 2 \in 1..n - 1 /\ k \div 2 # i
      BY <1>1, <1>4, <2>2, <2>3
    <3>2. d.lst[k] = q.lst[k] /\ d.lst[k \div 2] = q.lst[k \div 2]
      BY <1>3, <1>4, <2>3, <3>1
    <3> QED
      BY <1>1, <2>3, <3>1, <3>2 DEF IsHeap
  <2> QED
    BY <1>1, <1>3, <1>6, <2>1, <2>3 DEF IsHeap
<1>8. CASE i \in DOMAIN d.lst
  <2>1. PICK j : j = LeastOf(d, i)
    OBVIOUS
  <2>2. /\ j \in {i, 2 * i, 2 * i + 1} \cap DOMAIN d.lst
        /\ \A k \in {i, 2 * i, 2 * i + 1} \cap DOMAIN d.lst : d.lst[j].ts <= d.lst[k].ts
    BY <1>3, <1>8, <2>1, LeastOfIs
  <2>3. /\ Sound(r) /\ In(r) = In(d) /\ Len(r.lst) = Len(d.lst)
        /\ r.next = d.next /\ r.pioneer = d.pioneer
        /\ r.lst[i] = d.lst[j] /\ r.lst[j] = d.lst[i]
        /\ \A k \in DOMAIN d.lst : k # i /\ k # j => r.lst[k] = d.lst[k]
    <3>1. CASE j = i
      <4>1. r = d
        BY <1>5, <2>1, <3>1 DEF HeapHold
      <4> QED
        BY <1>3, <3>1, <4>1
    <3>2. CASE j # i
      <4>1. r = Swap(d, i, j)
        BY <1>5, <1>8, <2>1, <3>2 DEF HeapHold
      <4> QED
        <5>1. i \in DOMAIN d.lst /\ j \in DOMAIN d.lst
          BY <1>8, <2>2
        <5> QED
          <6>1. Sound(d)
            BY <1>3
          <6> QED
            BY <3>2, <4>1, <5>1, <6>1, SwapIs
    <3> QED
      BY <3>1, <3>2
  <2>4. ASSUME IsHeap(q), n <= 4 PROVE IsHeap(r)
    <3>1. PICK t \in [1..n -> Nat] : \A k \in 1..n : t[k] = q.lst[k].ts
      BY <1>1, TimesOf
    <3>2. PICK u \in [1..n - 1 -> Nat] : \A k \in 1..n - 1 : u[k] = d.lst[k].ts
      <4>1. Sound(d) /\ Len(d.lst) = n - 1
        BY <1>3
      <4>2. \E v \in [1..Len(d.lst) -> Nat] : \A k \in 1..Len(d.lst) : v[k] = d.lst[k].ts
        BY <4>1, TimesOf
      <4> QED
        BY <4>1, <4>2
    <3>3. PICK w \in [1..n - 1 -> Nat] : \A k \in 1..n - 1 : w[k] = r.lst[k].ts
      <4>1. Sound(r) /\ Len(r.lst) = n - 1
        BY <1>3, <2>3
      <4>2. \E v \in [1..Len(r.lst) -> Nat] : \A k \in 1..Len(r.lst) : v[k] = r.lst[k].ts
        BY <4>1, TimesOf
      <4> QED
        BY <4>1, <4>2
    <3>4. i \in 1..n - 1 /\ j \in 1..n - 1 /\ j \in {i, 2 * i, 2 * i + 1}
      BY <1>4, <1>8, <2>2
    <3>5. \A k \in 1..n - 1 : u[k] = IF k = i THEN t[n] ELSE t[k]
      <4>1. n \in 1..n /\ \A k \in 1..n - 1 : k \in 1..n
        BY <3>4
      <4> QED
        BY <1>3, <3>1, <3>2, <4>1
    <3>6. w[i] = u[j] /\ w[j] = u[i] /\ \A k \in 1..n - 1 : k # i /\ k # j => w[k] = u[k]
      BY <1>4, <2>3, <3>2, <3>3, <3>4
    <3>7. \A k \in {i, 2 * i, 2 * i + 1} \cap (1..n - 1) : u[j] <= u[k]
      BY <1>4, <2>2, <3>2, <3>4
    <3>8. n >= 2 => t[1] <= t[2]
      <4>1. 2 \div 2 = 1 /\ 2 > 1
        OBVIOUS
      <4>2. SUFFICES ASSUME n >= 2 PROVE t[1] <= t[2]
        OBVIOUS
      <4>3. 2 \in DOMAIN q.lst /\ 2 \in 1..n /\ 1 \in 1..n
        BY <1>1, <4>2
      <4>4. q.lst[2 \div 2].ts <= q.lst[2].ts
        BY <2>4, <4>1, <4>3, Zenon DEF IsHeap
      <4> QED
        BY <3>1, <4>1, <4>3, <4>4
    <3>9. n >= 3 => t[1] <= t[3]
      <4>1. 3 \div 2 = 1 /\ 3 > 1
        OBVIOUS
      <4>2. SUFFICES ASSUME n >= 3 PROVE t[1] <= t[3]
        OBVIOUS
      <4>3. 3 \in DOMAIN q.lst /\ 3 \in 1..n /\ 1 \in 1..n
        BY <1>1, <4>2
      <4>4. q.lst[3 \div 2].ts <= q.lst[3].ts
        BY <2>4, <4>1, <4>3, Zenon DEF IsHeap
      <4> QED
        BY <3>1, <4>1, <4>3, <4>4
    <3>10. n >= 4 => t[2] <= t[4]
      <4>1. 4 \div 2 = 2 /\ 4 > 1
        OBVIOUS
      <4>2. SUFFICES ASSUME n >= 4 PROVE t[2] <= t[4]
        OBVIOUS
      <4>3. 4 \in DOMAIN q.lst /\ 4 \in 1..n /\ 2 \in 1..n
        BY <1>1, <4>2
      <4>4. q.lst[4 \div 2].ts <= q.lst[4].ts
        BY <2>4, <4>1, <4>3, Zenon DEF IsHeap
      <4> QED
        BY <3>1, <4>1, <4>3, <4>4
    <3>11. /\ n - 1 >= 2 => w[1] <= w[2]
           /\ n - 1 >= 3 => w[1] <= w[3]
      <4>1. CASE n = 2
        BY <4>1
      <4>2. CASE n = 3
        <5>1. /\ t[1] \in Nat /\ t[2] \in Nat /\ t[3] \in Nat /\ t[1] <= t[2] /\ t[1] <= t[3]
              /\ u[1] \in Nat /\ u[2] \in Nat /\ w[1] \in Nat /\ w[2] \in Nat
              /\ u[1] = (IF i = 1 THEN t[3] ELSE t[1]) /\ u[2] = IF i = 2 THEN t[3] ELSE t[2]
          BY <3>5, <3>8, <3>9, <4>2
        <5>2. CASE i = 1
          <6>1. u[j] <= u[1] /\ u[j] <= u[2] /\ (j = 1 \/ j = 2)
            BY <3>4, <3>7, <4>2, <5>2
          <6> QED
            BY <3>6, <4>2, <5>1, <5>2, <6>1
        <5>3. CASE i = 2
          <6>1. j = 2
            BY <3>4, <4>2, <5>3
          <6> QED
            BY <3>6, <4>2, <5>1, <5>3, <6>1
        <5> QED
          BY <3>4, <4>2, <5>2, <5>3
      <4>3. CASE n = 4
        <5>1. /\ t[1] \in Nat /\ t[2] \in Nat /\ t[3] \in Nat /\ t[4] \in Nat
              /\ t[1] <= t[2] /\ t[1] <= t[3] /\ t[2] <= t[4]
              /\ u[1] \in Nat /\ u[2] \in Nat /\ u[3] \in Nat
              /\ u[1] = (IF i = 1 THEN t[4] ELSE t[1]) /\ u[2] = (IF i = 2 THEN t[4] ELSE t[2])
              /\ u[3] = (IF i = 3 THEN t[4] ELSE t[3])
              /\ w[1] \in Nat /\ w[2] \in Nat /\ w[3] \in Nat
          BY <3>5, <3>8, <3>9, <3>10, <4>3
        <5>2. CASE i = 1
          <6>1. u[j] <= u[1] /\ u[j] <= u[2] /\ u[j] <= u[3] /\ (j = 1 \/ j = 2 \/ j = 3)
            BY <3>4, <3>7, <4>3, <5>2
          <6> QED
            BY <3>6, <4>3, <5>1, <5>2, <6>1
        <5>3. CASE i = 2
          <6>1. j = 2
            BY <3>4, <4>3, <5>3
          <6> QED
            BY <3>6, <4>3, <5>1, <5>3, <6>1
        <5>4. CASE i = 3
          <6>1. j = 3
            BY <3>4, <4>3, <5>4
          <6> QED
            BY <3>6, <4>3, <5>1, <5>4, <6>1
        <5> QED
          BY <3>4, <4>3, <5>2, <5>3, <5>4
      <4> QED
        BY <2>4, <3>4, <4>1, <4>2, <4>3
    <3>12. ASSUME NEW k \in DOMAIN r.lst, k > 1 PROVE r.lst[k \div 2].ts <= r.lst[k].ts
      <4>1. DOMAIN r.lst = 1..n - 1
        BY <1>3, <2>3, TimesOf
      <4>2. k = 2 \/ k = 3
        <5>1. k \in 1..n - 1
          BY <3>12, <4>1
        <5>2. n \in Nat /\ n <= 4
          BY <1>9, <2>4
        <5> QED
          BY <3>12, <5>1, <5>2
      <4>3. k \div 2 = 1 /\ 1 \in 1..n - 1
        <5>1. k \in 1..n - 1 /\ n - 1 \in Nat
          BY <1>9, <3>12, <4>1
        <5>2. k \div 2 = 1
          BY <4>2
        <5> QED
          BY <3>12, <5>1, <5>2
      <4>4. w[1] <= w[k]
        BY <3>11, <3>12, <4>1, <4>2
      <4> QED
        BY <3>3, <3>12, <4>1, <4>3, <4>4
    <3> QED
      BY <3>12 DEF IsHeap
  <2> QED
    BY <1>1, <1>3, <1>6, <2>3, <2>4
<1> QED
  BY <1>7, <1>8

\* What DelTimer does with a timer in the heap.
LEMMA DelTimerIs ==
  ASSUME NEW q, Sound(q), NEW i \in DOMAIN q.lst
  PROVE  LET r == DelTimer(q, q.lst[i].id)
         IN /\ Sound(r) /\ In(r) = In(q) \ {q.lst[i]} /\ r.next = q.next
            /\ IsHeap(q) /\ Len(q.lst) <= 4 => IsHeap(r)
<1>1. q.lst[i].id \in DOMAIN q.position /\ q.position[q.lst[i].id] = i
  BY DEF Sound, PositionsMatch
<1>2. PICK a : a = HeapDel(q, i)
  OBVIOUS
<1>3. /\ Sound(a) /\ In(a) = In(q) \ {q.lst[i]} /\ a.next = q.next
      /\ IsHeap(q) /\ Len(q.lst) <= 4 => IsHeap(a)
  BY <1>2, HeapDelIs
<1>4. PICK r : r = DelTimer(q, q.lst[i].id)
  OBVIOUS
<1>5. r = IF a.lst = <<>> THEN Reset(a, Never)
          ELSE IF a.lst[1].ts < a.pioneer THEN Reset(a, a.lst[1].ts) ELSE a
  <2> DEFINE Arm(left) == IF left.lst = <<>> THEN Reset(left, Never)
                          ELSE IF left.lst[1].ts < left.pioneer THEN Reset(left, left.lst[1].ts)
                          ELSE left
  <2>1. PICK y : y = Arm(a)
    OBVIOUS
  <2>2. {Arm(left) : left \in {HeapDel(q, i)}} = {y}
    BY <1>2, <2>1
  <2>3. r = Only({Arm(left) : left \in {HeapDel(q, i)}})
    BY <1>1, <1>4 DEF DelTimer
  <2>4. Only({y}) = y
    BY OnlyIs
  <2> QED
    BY <2>1, <2>2, <2>3, <2>4
<1>6. CASE r = a
  BY <1>3, <1>4, <1>6
<1>7. CASE r # a
  <2>1. PICK ts \in Nat : r = Reset(a, ts)
    <3>1. CASE a.lst = <<>>
      BY <1>5, <3>1, NeverAssumption
    <3>2. CASE a.lst # <<>>
      <4>1. 1 \in 1..Len(a.lst)
        BY <1>3, <3>2 DEF Sound
      <4>2. a.lst[1].ts \in Nat
        BY <1>3, <4>1, TimesOf
      <4> QED
        BY <1>5, <1>7, <3>2, <4>2
    <3> QED
      BY <3>1, <3>2
  <2>2. /\ r = [lst |-> a.lst, position |-> a.position, next |-> a.next,
                pioneer |-> ts, armed |-> ts]
        /\ r.lst = a.lst /\ r.position = a.position /\ r.next = a.next
        /\ r.pioneer = ts /\ r.armed = ts
    BY <1>3, <2>1 DEF Reset, Sound
  <2>3. Sound(r)
    BY <1>3, <2>2 DEF Sound, PositionsMatch
  <2> QED
    BY <1>3, <1>4, <2>2, <2>3 DEF In, IsHeap
<1> QED
  BY <1>6, <1>7

-----------------------------------------------------------------------------
(* get_timo *)

\* What the rounds of GetTimo keep, if they began with q.
PopIsRight(w, q) ==
  /\ Sound(w.queue) /\ w.queue.next = q.next /\ w.queue.pioneer = q.pioneer
  /\ w.fired \in Seq(Timer)
  /\ In(w.queue) \cup {w.fired[k] : k \in DOMAIN w.fired} = In(q)
  /\ \A k \in DOMAIN w.fired :
       /\ w.fired[k] \notin In(w.queue) /\ w.fired[k].ts = q.pioneer
       /\ \A l \in DOMAIN w.fired : w.fired[k] = w.fired[l] => k = l
  /\ IsHeap(q) /\ Len(q.lst) <= 4 => IsHeap(w.queue) /\ Len(w.queue.lst) <= 4

\* A round of get_timo keeps it.
LEMMA PopKeeps ==
  ASSUME NEW w, NEW q, PopIsRight(w, q)
  PROVE  PopIsRight(Pop(w), q)
<1>1. CASE w.queue.lst = <<>> \/ w.queue.lst[1].ts # w.queue.pioneer
  BY <1>1 DEF Pop
<1>2. CASE ~(w.queue.lst = <<>> \/ w.queue.lst[1].ts # w.queue.pioneer)
  <2>1. Sound(w.queue) /\ 1 \in DOMAIN w.queue.lst /\ Len(w.queue.lst) \in Nat
    BY <1>2 DEF PopIsRight, Sound
  <2>2. PICK t \in Timer : t = w.queue.lst[1] /\ t \in In(w.queue)
    BY <2>1 DEF Sound, In
  <2>3. PICK a : a = HeapDel(w.queue, 1)
    OBVIOUS
  <2>4. /\ Sound(a) /\ In(a) = In(w.queue) \ {t} /\ Len(a.lst) = Len(w.queue.lst) - 1
        /\ a.next = w.queue.next /\ a.pioneer = w.queue.pioneer
        /\ IsHeap(w.queue) /\ Len(w.queue.lst) <= 4 => IsHeap(a)
    BY <2>1, <2>2, <2>3, HeapDelIs
  <2>5. PICK n \in Nat : n = Len(w.fired) /\ DOMAIN w.fired = 1..n /\ w.fired \in Seq(Timer)
    BY DEF PopIsRight
  <2>6. PICK f : f = Append(w.fired, t)
    OBVIOUS
  <2>7. /\ f \in Seq(Timer) /\ DOMAIN f = 1..n + 1 /\ f[n + 1] = t
        /\ \A k \in 1..n : f[k] = w.fired[k]
    BY <2>5, <2>6
  <2>8. PICK r : r = Pop(w)
    OBVIOUS
  <2>9. r.queue = a /\ r.fired = f
    BY <1>2, <2>2, <2>3, <2>6, <2>8 DEF Pop
  <2>10. {f[k] : k \in 1..n + 1} = {w.fired[k] : k \in 1..n} \cup {t}
    <3>1. \A k \in 1..n + 1 : k = n + 1 \/ k \in 1..n
      OBVIOUS
    <3>2. n + 1 \in 1..n + 1 /\ \A k \in 1..n : k \in 1..n + 1
      OBVIOUS
    <3> QED
      BY <2>7, <3>1, <3>2
  <2>11. In(a) \cup {f[k] : k \in 1..n + 1} = In(q)
    <3>1. In(w.queue) \cup {w.fired[k] : k \in 1..n} = In(q)
      BY <2>5 DEF PopIsRight
    <3> QED
      BY <2>2, <2>4, <2>10, <3>1
  <2>12. ASSUME NEW k \in 1..n + 1
         PROVE  /\ f[k] \notin In(a) /\ f[k].ts = q.pioneer
                /\ \A l \in 1..n + 1 : f[k] = f[l] => k = l
    <3>1. \A l \in 1..n : /\ w.fired[l] \notin In(w.queue) /\ w.fired[l].ts = q.pioneer
                          /\ \A j \in 1..n : w.fired[l] = w.fired[j] => l = j
      BY <2>5 DEF PopIsRight
    <3>2. \A l \in 1..n + 1 : l = n + 1 \/ l \in 1..n
      OBVIOUS
    <3>3. \A l \in 1..n : f[l] # t
      BY <2>2, <2>7, <3>1
    <3>4. t.ts = q.pioneer
      BY <1>2, <2>2 DEF PopIsRight
    <3>5. CASE k = n + 1
      BY <2>4, <2>7, <3>2, <3>3, <3>4, <3>5
    <3>6. CASE k \in 1..n
      BY <2>4, <2>7, <3>1, <3>2, <3>3, <3>6
    <3> QED
      BY <2>12, <3>2, <3>5, <3>6
  <2>13. IsHeap(q) /\ Len(q.lst) <= 4 => IsHeap(a) /\ Len(a.lst) <= 4
    BY <2>1, <2>4 DEF PopIsRight
  <2>14. a.next = q.next /\ a.pioneer = q.pioneer
    BY <2>4 DEF PopIsRight
  <2>15. PopIsRight(r, q)
    BY <2>4, <2>7, <2>9, <2>11, <2>12, <2>13, <2>14 DEF PopIsRight
  <2> QED
    BY <2>8, <2>15
<1> QED
  BY <1>1, <1>2

\* f[k] is what k rounds of GetTimo make of q.
PopsOf(f, q, n) ==
  f = [k \in 0..n |-> IF k = 0 THEN [queue |-> q, fired |-> <<>>]
                      ELSE Only({Pop(w) : w \in {f[k - 1]}})]

\* The recursion of GetTimo has a solution.
LEMMA PopsExist ==
  ASSUME NEW q, NEW n \in Nat
  PROVE  \E f : PopsOf(f, q, n)
<1> DEFINE Start == [queue |-> q, fired |-> <<>>]
           After(v) == Only({Pop(w) : w \in {v}})
           S == {k \in Nat : \E f : PopsOf(f, q, k)}
<1>1. 0 \in S
  <2>1. PopsOf([k \in 0..0 |-> Start], q, 0)
    BY DEF PopsOf
  <2> QED
    BY <2>1
<1>2. ASSUME NEW k \in Nat, k \in S PROVE k + 1 \in S
  <2>1. PICK f : PopsOf(f, q, k)
    BY <1>2
  <2> DEFINE g == [j \in 0..k + 1 |-> IF j \in 0..k THEN f[j] ELSE After(f[j - 1])]
  <2>2. ASSUME NEW j \in 0..k + 1 PROVE g[j] = IF j = 0 THEN Start ELSE After(g[j - 1])
    <3>1. CASE j \in 0..k
      <4>1. f[j] = IF j = 0 THEN Start ELSE After(f[j - 1])
        BY <2>1, <3>1 DEF PopsOf
      <4>2. j # 0 => j - 1 \in 0..k /\ j - 1 \in 0..k + 1
        BY <3>1
      <4> HIDE DEF After
      <4> QED
        BY <3>1, <4>1, <4>2
    <3>2. CASE j = k + 1
      <4>1. j \notin 0..k /\ j # 0 /\ j - 1 \in 0..k /\ j - 1 \in 0..k + 1
        BY <3>2
      <4> HIDE DEF After
      <4> QED
        BY <4>1
    <3> QED
      BY <3>1, <3>2
  <2>3. PopsOf(g, q, k + 1)
    BY <2>2 DEF PopsOf
  <2> QED
    BY <2>3
<1>3. n \in S
  <2> HIDE DEF S
  <2> QED
    BY <1>1, <1>2, Counting
<1> QED
  BY <1>3

\* GetTimo moves timers of one time stamp from the heap to those that fire.
LEMMA GetTimoIs ==
  ASSUME NEW q, Sound(q)
  PROVE  PopIsRight(GetTimo(q), q)
<1>1. PICK n \in Nat : n = Len(q.lst)
  BY TimesOf
<1> DEFINE D(f) == PopsOf(f, q, n)
           f == CHOOSE g : D(g)
<1>2. D(f)
  <2>1. \E g : D(g)
    BY PopsExist
  <2> HIDE DEF D
  <2> QED
    BY <2>1, Zenon
<1>3. GetTimo(q) = f[n]
  BY <1>1 DEF GetTimo, PopsOf
<1> HIDE DEF f
<1>4. f[0] = [queue |-> q, fired |-> <<>>]
  BY <1>2 DEF PopsOf
<1>5. ASSUME NEW k \in 0..n, k + 1 \in 0..n PROVE f[k + 1] = Pop(f[k])
  <2>1. PICK j \in 0..n : j = k + 1 /\ j # 0 /\ j - 1 = k
    BY <1>5
  <2>2. f[j] = Only({Pop(w) : w \in {f[j - 1]}})
    BY <1>2, <2>1 DEF PopsOf
  <2>3. {Pop(w) : w \in {f[j - 1]}} = {Pop(f[j - 1])}
    OBVIOUS
  <2>4. Only({Pop(f[j - 1])}) = Pop(f[j - 1])
    BY OnlyIs
  <2> QED
    BY <2>1, <2>2, <2>3, <2>4
<1> DEFINE T == {k \in Nat : k \in 0..n => PopIsRight(f[k], q)}
<1>6. 0 \in T
  <2>1. PICK v : v = f[0]
    OBVIOUS
  <2>2. v.queue = q /\ v.fired = <<>> /\ v.fired \in Seq(Timer) /\ DOMAIN v.fired = {}
    BY <1>4, <2>1
  <2>3. PopIsRight(v, q)
    BY <2>2 DEF PopIsRight
  <2> QED
    BY <2>1, <2>3
<1>7. ASSUME NEW k \in Nat, k \in T PROVE k + 1 \in T
  <2>1. SUFFICES ASSUME k + 1 \in 0..n PROVE PopIsRight(f[k + 1], q)
    OBVIOUS
  <2>2. k \in 0..n /\ PopIsRight(f[k], q)
    BY <1>7, <2>1
  <2> QED
    BY <1>5, <2>1, <2>2, PopKeeps
<1>8. n \in T
  <2> HIDE DEF T
  <2> QED
    BY <1>6, <1>7, Counting
<1> QED
  BY <1>3, <1>8


-----------------------------------------------------------------------------
(* the client *)

Unit == Messages \X Nat
Incoming == Seq(Unit)
SentUnit == {unit \in [msg : Nat, j : Nat, n : Nat, copied : BOOLEAN] : OfCaller(unit)}
Outgoing == Seq(SentUnit)

Sockets == [state : {"none", "connecting", "up", "closed", "refused", "failed"},
            script : Scripts \cup {<<>>}, sent : Nat, wire : Incoming, got : Outgoing]

\* Units that make messages, and end where one ends.
Whole(all) ==
  /\ \A i \in DOMAIN all :
       IF i = 1 \/ all[i - 1].j = all[i - 1].n
       THEN all[i].j = 1
       ELSE all[i].msg = all[i - 1].msg /\ all[i].j = all[i - 1].j + 1
  /\ all # <<>> => all[Len(all)].j = all[Len(all)].n

\* What a registration says of writing to the socket, and of the socket.
OutWatched(lp) ==
  (Sock \in DOMAIN lp.io /\ "out" \in lp.io[Sock]) \/ Watches(lp, Sock, "out")
Free(lp) == Sock \notin DOMAIN lp.io /\ Sock \notin DOMAIN lp.ep

TimersRight ==
  /\ Sound(queue) /\ now \in Nat /\ crowded \in BOOLEAN
  /\ fired \in Seq([id : Nat, ts : Nat, at : Nat])
  /\ TimersInPlace

TalkRight ==
  /\ sends \in Nat /\ obuf \in Outgoing /\ ibuf \in Incoming /\ sock \in Sockets
  /\ cut \in BOOLEAN
  /\ IF sock.state \in {"up", "closed"} THEN sock.script \in Scripts ELSE sock.got = <<>>
  /\ cut \/ Whole(sock.got \o obuf)

HandledRight ==
  /\ handled \in Seq([m : Messages, units : Nat])
  /\ HandledWhole

\* The loop watches a socket to write only if there is something to write, and one that
\* epoll watches.
WatchRight ==
  /\ Sock \in DOMAIN loop.ep => Sock \in DOMAIN loop.io
  /\ Runs /\ net_ok /\ OutWatched(loop) => obuf # <<>>

\* A connection that failed waits for its one timer, and nothing else has one.
RetryRight ==
  /\ sock.state = "failed" => ~net_ok /\ Free(loop)
  /\ \A t \in In(queue) : t.cb = "reconn" =>
       /\ sock.state = "failed"
       /\ \A u \in In(queue) : u.cb = "reconn" => u = t

ClientInv == TimersRight /\ TalkRight /\ HandledRight /\ WatchRight /\ RetryRight

-----------------------------------------------------------------------------
(* sequences *)

\* Sequences that are put together.
LEMMA Join ==
  ASSUME NEW S, NEW s \in Seq(S), NEW t \in Seq(S)
  PROVE  /\ s \o t \in Seq(S) /\ Len(s \o t) = Len(s) + Len(t)
         /\ DOMAIN s = 1..Len(s) /\ Len(s) \in Nat /\ DOMAIN t = 1..Len(t) /\ Len(t) \in Nat
         /\ DOMAIN (s \o t) = 1..Len(s) + Len(t)
         /\ \A i \in 1..Len(s) : (s \o t)[i] = s[i]
         /\ \A i \in 1..Len(t) : (s \o t)[Len(s) + i] = t[i]
<1>1. /\ s \o t \in Seq(S) /\ Len(s \o t) = Len(s) + Len(t)
      /\ \A i \in 1..Len(s) + Len(t) :
           (s \o t)[i] = IF i <= Len(s) THEN s[i] ELSE t[i - Len(s)]
  BY ConcatProperties, Zenon
<1>2. /\ DOMAIN s = 1..Len(s) /\ Len(s) \in Nat /\ DOMAIN t = 1..Len(t) /\ Len(t) \in Nat
  OBVIOUS
<1>3. DOMAIN (s \o t) = 1..Len(s) + Len(t)
  BY <1>1
<1>4. PICK a \in Nat, b \in Nat : a = Len(s) /\ b = Len(t)
  BY <1>2
<1>5. \A i \in 1..a + b : (s \o t)[i] = IF i <= a THEN s[i] ELSE t[i - a]
  BY <1>1, <1>4
<1>6. ASSUME NEW i \in 1..a PROVE (s \o t)[i] = s[i]
  <2>1. i \in 1..a + b /\ i <= a
    OBVIOUS
  <2> QED
    BY <1>5, <2>1
<1>7. ASSUME NEW i \in 1..b PROVE (s \o t)[a + i] = t[i]
  <2>1. a + i \in 1..a + b /\ ~(a + i <= a) /\ (a + i) - a = i
    OBVIOUS
  <2> QED
    BY <1>5, <2>1
<1> QED
  BY <1>1, <1>2, <1>3, <1>4, <1>6, <1>7

\* Concatenation is associative.
LEMMA JoinThree ==
  ASSUME NEW S, NEW s \in Seq(S), NEW t \in Seq(S), NEW u \in Seq(S)
  PROVE  (s \o t) \o u = s \o (t \o u)
BY ConcatAssociative

\* A sequence is what its first n elements and the others make.
LEMMA Cut ==
  ASSUME NEW S, NEW s \in Seq(S), NEW n \in 0..Len(s)
  PROVE  /\ SubSeq(s, 1, n) \in Seq(S) /\ Len(SubSeq(s, 1, n)) = n
         /\ SubSeq(s, n + 1, Len(s)) \in Seq(S) /\ Len(SubSeq(s, n + 1, Len(s))) = Len(s) - n
         /\ SubSeq(s, 1, n) \o SubSeq(s, n + 1, Len(s)) = s
<1>1. Len(s) \in Nat /\ n \in Nat
  OBVIOUS
<1>2. /\ SubSeq(s, 1, n) \in Seq(S) /\ Len(SubSeq(s, 1, n)) = n
      /\ SubSeq(s, n + 1, Len(s)) \in Seq(S) /\ Len(SubSeq(s, n + 1, Len(s))) = Len(s) - n
  BY <1>1
<1>3. SubSeq(s, 1, n) \o SubSeq(s, n + 1, Len(s)) = s
  <2>1. PICK l \in Nat : l = Len(s)
    BY <1>1
  <2>2. 1 \in 1..Len(s) + 1 /\ n \in 1 - 1..Len(s) /\ l \in n..Len(s)
    BY <1>1, <2>1
  <2>3. SubSeq(s, 1, n) \o SubSeq(s, n + 1, l) = SubSeq(s, 1, l)
    BY <1>1, <2>2, ConcatAdjacentSubSeq
  <2>4. SubSeq(s, 1, l) = s
    BY <1>1, <2>1
  <2> QED
    BY <2>1, <2>3, <2>4
<1> QED
  BY <1>2, <1>3

-----------------------------------------------------------------------------
(* what crosses the client *)

\* A unit of a sequence of units, by its parts.
LEMMA UnitsOf ==
  ASSUME NEW all \in Outgoing
  PROVE  /\ DOMAIN all = 1..Len(all) /\ Len(all) \in Nat
         /\ all # <<>> <=> Len(all) > 0
         /\ \A i \in 1..Len(all) : all[i].j \in Nat /\ all[i].n \in Nat /\ all[i].msg \in Nat
<1>1. DOMAIN all = 1..Len(all) /\ Len(all) \in Nat /\ (all # <<>> <=> Len(all) > 0)
  BY DEF Outgoing
<1>2. \A i \in 1..Len(all) : all[i] \in SentUnit
  BY <1>1 DEF Outgoing
<1> QED
  BY <1>1, <1>2 DEF SentUnit

\* Whole messages after whole messages are whole messages.
LEMMA JoinWhole ==
  ASSUME NEW s \in Outgoing, NEW t \in Outgoing, Whole(s), Whole(t)
  PROVE  s \o t \in Outgoing /\ Whole(s \o t)
<1>0. PICK all : all = s \o t
  OBVIOUS
<1>1. PICK a \in Nat, b \in Nat : a = Len(s) /\ b = Len(t) /\ all = s \o t
  BY <1>0, UnitsOf
<1>2. /\ all \in Outgoing /\ Len(all) = a + b /\ DOMAIN all = 1..a + b
      /\ DOMAIN s = 1..a /\ DOMAIN t = 1..b
      /\ \A i \in 1..a : all[i] = s[i]
      /\ \A i \in 1..b : all[a + i] = t[i]
  BY <1>1, Join DEF Outgoing
<1>3. ASSUME NEW i \in 1..a + b
      PROVE  IF i = 1 \/ all[i - 1].j = all[i - 1].n
             THEN all[i].j = 1
             ELSE all[i].msg = all[i - 1].msg /\ all[i].j = all[i - 1].j + 1
  <2>1. CASE i \in 1..a
    <3>1. all[i] = s[i] /\ (i # 1 => all[i - 1] = s[i - 1])
      BY <1>2, <2>1
    <3>2. IF i = 1 \/ s[i - 1].j = s[i - 1].n
          THEN s[i].j = 1
          ELSE s[i].msg = s[i - 1].msg /\ s[i].j = s[i - 1].j + 1
      BY <1>2, <2>1 DEF Whole
    <3> QED
      BY <3>1, <3>2
  <2>2. CASE i = a + 1
    <3>1. 1 \in 1..b /\ all[i] = t[1]
      BY <1>2, <2>2
    <3>2. all[i].j = 1
      BY <1>2, <3>1 DEF Whole
    <3>3. i # 1 => all[i - 1].j = all[i - 1].n
      <4>1. SUFFICES ASSUME i # 1 PROVE all[i - 1].j = all[i - 1].n
        OBVIOUS
      <4>2. i - 1 = a /\ a \in 1..a /\ s # <<>>
        BY <1>1, <2>2, <4>1, UnitsOf
      <4> QED
        BY <1>1, <1>2, <4>2 DEF Whole
    <3> QED
      BY <3>2, <3>3
  <2>3. CASE i > a + 1
    <3>1. PICK k \in 2..b : i = a + k
      <4>1. i - a \in 2..b /\ i = a + (i - a)
        BY <2>3
      <4> QED
        BY <4>1
    <3>2. k \in 1..b /\ k - 1 \in 1..b /\ i - 1 = a + (k - 1) /\ k # 1 /\ i # 1
      BY <3>1
    <3>3. all[i] = t[k] /\ all[i - 1] = t[k - 1]
      BY <1>2, <3>1, <3>2
    <3>4. IF k = 1 \/ t[k - 1].j = t[k - 1].n
          THEN t[k].j = 1
          ELSE t[k].msg = t[k - 1].msg /\ t[k].j = t[k - 1].j + 1
      BY <1>2, <3>2 DEF Whole
    <3> QED
      BY <3>2, <3>3, <3>4
  <2> QED
    BY <2>1, <2>2, <2>3
<1>4. all # <<>> => all[Len(all)].j = all[Len(all)].n
  <2>1. CASE b = 0
    <3>1. CASE a = 0
      BY <1>2, <2>1, <3>1, UnitsOf
    <3>2. CASE a > 0
      <4>1. a \in 1..a /\ s # <<>> /\ Len(all) = a
        BY <1>1, <1>2, <2>1, <3>2, UnitsOf
      <4> QED
        BY <1>1, <1>2, <4>1 DEF Whole
    <3> QED
      BY <3>1, <3>2
  <2>2. CASE b > 0
    <3>1. b \in 1..b /\ t # <<>>
      BY <1>1, <2>2, UnitsOf
    <3> QED
      BY <1>1, <1>2, <3>1 DEF Whole
  <2> QED
    BY <2>1, <2>2
<1>5. DOMAIN all = 1..a + b
  BY <1>2
<1>6. Whole(all)
  BY <1>3, <1>4, <1>5, Zenon DEF Whole
<1> QED
  BY <1>1, <1>2, <1>6

\* What is left when a connection ends is whole if it does not begin in a message.
LEMMA RestWhole ==
  ASSUME NEW s \in Outgoing, NEW t \in Outgoing, Whole(s \o t), t # <<>> => t[1].j = 1
  PROVE  Whole(t)
<1>0. PICK all : all = s \o t
  OBVIOUS
<1>1. PICK a \in Nat, b \in Nat : a = Len(s) /\ b = Len(t) /\ all = s \o t
  BY <1>0, UnitsOf
<1>2. /\ all \in Outgoing /\ Len(all) = a + b /\ DOMAIN all = 1..a + b
      /\ DOMAIN t = 1..b
      /\ \A i \in 1..b : all[a + i] = t[i]
  BY <1>1, Join DEF Outgoing
<1>3. ASSUME NEW i \in 1..b
      PROVE  IF i = 1 \/ t[i - 1].j = t[i - 1].n
             THEN t[i].j = 1
             ELSE t[i].msg = t[i - 1].msg /\ t[i].j = t[i - 1].j + 1
  <2>1. CASE i = 1
    BY <1>1, <2>1, UnitsOf
  <2>2. CASE i # 1
    <3>1. i - 1 \in 1..b /\ a + i \in 1..a + b /\ (a + i) - 1 = a + (i - 1) /\ a + i # 1
      BY <2>2
    <3>2. t[i] = all[a + i] /\ t[i - 1] = all[(a + i) - 1]
      BY <1>2, <3>1
    <3>3. IF a + i = 1 \/ all[(a + i) - 1].j = all[(a + i) - 1].n
          THEN all[a + i].j = 1
          ELSE /\ all[a + i].msg = all[(a + i) - 1].msg
               /\ all[a + i].j = all[(a + i) - 1].j + 1
      BY <1>1, <1>2, <3>1 DEF Whole
    <3> QED
      BY <2>2, <3>1, <3>2, <3>3
  <2> QED
    BY <2>1, <2>2
<1>4. t # <<>> => t[Len(t)].j = t[Len(t)].n
  <2>1. SUFFICES ASSUME t # <<>> PROVE t[Len(t)].j = t[Len(t)].n
    OBVIOUS
  <2>2. b \in 1..b /\ all # <<>>
    BY <1>1, <1>2, <2>1, UnitsOf
  <2> QED
    BY <1>1, <1>2, <2>2 DEF Whole
<1> QED
  BY <1>2, <1>3, <1>4 DEF Whole

\* A message as send_data takes it.
LEMMA SentIsWhole ==
  ASSUME NEW i \in Nat, NEW len \in Nat
  PROVE  /\ Sent(i, len) \in Outgoing /\ Whole(Sent(i, len)) /\ Sent(i, len) # <<>>
<1>1. PICK n \in Nat : n = HeadLength + len /\ n >= 1
  BY ClientAssumption
<1>2. PICK all : all = [j \in 1..n |->
                          [msg |-> i, j |-> j, n |-> n, copied |-> j <= 2 * HeadLength]]
  OBVIOUS
<1>3. \A j \in 1..n : all[j] \in SentUnit /\ all[j].msg = i /\ all[j].j = j /\ all[j].n = n
  <2>1. SUFFICES ASSUME NEW j \in 1..n
                 PROVE  /\ all[j] \in SentUnit /\ all[j].msg = i /\ all[j].j = j
                        /\ all[j].n = n
    OBVIOUS
  <2>2. all[j] = [msg |-> i, j |-> j, n |-> n, copied |-> j <= 2 * HeadLength]
    BY <1>2
  <2>3. j <= n /\ HeadLength \in Nat
    BY <1>1, ClientAssumption
  <2>4. all[j].msg = i /\ all[j].j = j /\ all[j].n = n
    BY <2>2
  <2>5. CASE j <= 2 * HeadLength
    <3>1. all[j] = [msg |-> i, j |-> j, n |-> n, copied |-> TRUE]
      BY <2>2, <2>5
    <3>2. OfCaller(all[j])
      BY <3>1, <2>5 DEF OfCaller
    <3> QED
      BY <2>4, <3>1, <3>2 DEF SentUnit
  <2>6. CASE ~(j <= 2 * HeadLength)
    <3>0. (j <= 2 * HeadLength) = FALSE
      BY <2>6
    <3>1. all[j] = [msg |-> i, j |-> j, n |-> n, copied |-> FALSE]
      BY <2>2, <3>0, Zenon
    <3>2. ~(n <= 2 * HeadLength)
      BY <2>3, <2>6
    <3>3. OfCaller(all[j])
      BY <3>1, <3>2, <2>6 DEF OfCaller
    <3> QED
      BY <2>4, <3>1, <3>3 DEF SentUnit
  <2> QED
    BY <2>5, <2>6
<1>4. all \in Outgoing /\ DOMAIN all = 1..n /\ Len(all) = n /\ all # <<>>
  BY <1>1, <1>2, <1>3 DEF Outgoing
<1>5. ASSUME NEW k \in 1..n
      PROVE  IF k = 1 \/ all[k - 1].j = all[k - 1].n
             THEN all[k].j = 1
             ELSE all[k].msg = all[k - 1].msg /\ all[k].j = all[k - 1].j + 1
  <2>1. CASE k = 1
    BY <1>3, <2>1
  <2>2. CASE k # 1
    <3>1. k - 1 \in 1..n /\ k - 1 # n /\ (k - 1) + 1 = k
      BY <2>2
    <3> QED
      BY <1>3, <2>2, <3>1
  <2> QED
    BY <2>1, <2>2
<1>6. n \in 1..n
  BY <1>1
<1>7. Whole(all)
  BY <1>3, <1>4, <1>5, <1>6 DEF Whole
<1>8. Sent(i, len) = all
  BY <1>1, <1>2 DEF Sent
<1> QED
  BY <1>4, <1>7, <1>8

\* What a callback may leave in obuf.
Answered(reply) ==
  /\ reply.obuf \in Outgoing /\ reply.sends \in Nat
  /\ reply.watch => reply.obuf # <<>>
  /\ obuf # <<>> => reply.obuf # <<>>
  /\ \A got \in Outgoing : Whole(got \o obuf) => Whole(got \o reply.obuf)

\* send_data takes a whole message or none.
LEMMA TakeIs ==
  ASSUME obuf \in Outgoing, sends \in Nat, NEW len \in Lens
  PROVE  Answered(Take(obuf, sends, len))
<1>1. PICK r : r = Take(obuf, sends, len)
  OBVIOUS
<1>2. CASE Len(obuf) + HeadLength + len > Capacity
  <2>1. r = [obuf |-> obuf, sends |-> sends, watch |-> FALSE]
    BY <1>1, <1>2 DEF Take
  <2> QED
    BY <1>1, <2>1 DEF Answered
<1>3. CASE ~(Len(obuf) + HeadLength + len > Capacity)
  <2>1. PICK unit : unit = Sent(sends + 1, len)
    OBVIOUS
  <2>2. unit \in Outgoing /\ Whole(unit) /\ unit # <<>>
    BY <2>1, SentIsWhole, ClientAssumption
  <2>3. r = [obuf |-> obuf \o unit, sends |-> sends + 1, watch |-> obuf = <<>>]
    BY <1>1, <1>3, <2>1 DEF Take
  <2>4. obuf \o unit \in Outgoing /\ obuf \o unit # <<>>
    <3>1. /\ obuf \o unit \in Seq(SentUnit) /\ Len(obuf \o unit) = Len(obuf) + Len(unit)
          /\ Len(obuf) \in Nat /\ Len(unit) \in Nat
      BY <2>2, Join DEF Outgoing
    <3>2. Len(unit) > 0
      BY <2>2, UnitsOf
    <3>3. PICK a \in Nat, b \in Nat : a = Len(obuf) /\ b = Len(unit)
      BY <3>1
    <3>4. Len(obuf \o unit) = a + b /\ b > 0 /\ a + b # 0
      BY <3>1, <3>2, <3>3
    <3>5. obuf \o unit \in Outgoing
      BY <3>1 DEF Outgoing
    <3> QED
      BY <3>4, <3>5, UnitsOf
  <2>5. ASSUME NEW got \in Outgoing, Whole(got \o obuf) PROVE Whole(got \o (obuf \o unit))
    <3>1. got \o obuf \in Outgoing
      BY Join DEF Outgoing
    <3>2. Whole((got \o obuf) \o unit)
      BY <2>2, <2>5, <3>1, JoinWhole
    <3>3. (got \o obuf) \o unit = got \o (obuf \o unit)
      BY <2>2, ConcatAssociative DEF Outgoing
    <3> QED
      BY <3>2, <3>3
  <2> QED
    BY <1>1, <2>3, <2>4, <2>5 DEF Answered
<1> QED
  BY <1>2, <1>3

\* What the application answers.
LEMMA RepliesAre ==
  ASSUME obuf \in Outgoing, sends \in Nat, NEW reply \in Replies
  PROVE  Answered(reply)
<1>1. CASE reply = Idle
  BY <1>1 DEF Idle, Answered
<1>2. CASE \E len \in Lens : reply = Take(obuf, sends, len)
  BY <1>2, TakeIs
<1> QED
  BY <1>1, <1>2 DEF Replies

\* The stream of a server, unit by unit.
LEMMA StreamType ==
  ASSUME NEW script \in Scripts
  PROVE  Streams[script] \in Incoming
<1>1. script \in Seq([cmd : {"known", "unknown"}, len : Nat]) /\ HeadLength \in Nat
  BY ClientAssumption
<1>2. PICK n \in Nat : n = Len(script) /\ DOMAIN script = 1..n
  BY <1>1
<1>3. ASSUME NEW i \in 1..n PROVE Frame(script[i]) \in Incoming
  <2>1. script[i] \in [cmd : {"known", "unknown"}, len : Nat]
    BY <1>1, <1>2, ElementOfSeq
  <2>2. PICK k \in Nat : k = HeadLength + script[i].len
    BY <1>1, <2>1
  <2>3. script[i] \in Messages
    BY <1>2 DEF Messages
  <2>4. Frame(script[i]) = [j \in 1..k |-> <<script[i], j>>]
    BY <2>2 DEF Frame
  <2>5. \A j \in 1..k : <<script[i], j>> \in Unit
    BY <2>3 DEF Unit
  <2> QED
    BY <2>4, <2>5 DEF Incoming
<1>4. [i \in DOMAIN script |-> Frame(script[i])] \in Seq(Incoming)
  BY <1>2, <1>3
<1>5. Stream(script) \in Incoming
  BY <1>4, FlattenType DEF Stream, Incoming
<1> QED
  BY <1>5 DEF Streams

\* The head that handle_read sees is that of a message.
LEMMA HeadsAre ==
  ASSUME NEW buffer \in Incoming, Len(buffer) >= HeadLength, NEW m \in Heads(buffer)
  PROVE  m \in Messages /\ m.len \in Nat
<1>1. m \in Messages
  <2>1. 1 \in DOMAIN buffer
    BY ClientAssumption DEF Incoming
  <2>2. buffer[1] \in Unit
    BY <2>1 DEF Incoming
  <2> QED
    BY <2>2 DEF Heads, Unit
<1>2. PICK script \in Scripts : \E k \in DOMAIN script : m = script[k]
  BY <1>1 DEF Messages
<1>4. PICK i \in DOMAIN script : m = script[i]
  BY <1>2
<1>5. script \in Seq([cmd : {"known", "unknown"}, len : Nat]) /\ DOMAIN script = 1..Len(script)
  BY ClientAssumption
<1>3. script[i] \in [cmd : {"known", "unknown"}, len : Nat]
  BY <1>5, ElementOfSeq
<1> QED
  BY <1>1, <1>3, <1>4

-----------------------------------------------------------------------------
(* the registration of the socket *)

\* add_ioev and del_ioev keep what epoll watches within what the loop knows.
LEMMA Watching ==
  ASSUME NEW lp, NEW event, Sock \in DOMAIN lp.ep => Sock \in DOMAIN lp.io
  PROVE  LET after == Watch(lp, Sock, event)
         IN /\ Sock \in DOMAIN after.ep => Sock \in DOMAIN after.io
            /\ event # "out" /\ OutWatched(after) => OutWatched(lp)
<1>1. PICK after : after = Watch(lp, Sock, event)
  OBVIOUS
<1>2. CASE Sock \notin DOMAIN lp.io
  BY <1>1, <1>2 DEF Watch, With, OutWatched, Watches
<1>3. CASE Sock \in DOMAIN lp.io
  BY <1>1, <1>3 DEF Watch, With, OutWatched, Watches
<1> QED
  BY <1>1, <1>2, <1>3

\* del_ioev of a socket.
LEMMA Unwatching ==
  ASSUME NEW lp
  PROVE  Free(Unwatch(lp, Sock)) /\ ~OutWatched(Unwatch(lp, Sock))
BY DEF Unwatch, Without, Free, OutWatched, Watches

\* del_ioev of one event.
LEMMA UnwatchingOne ==
  ASSUME NEW lp, Sock \in DOMAIN lp.ep => Sock \in DOMAIN lp.io
  PROVE  LET after == UnwatchOne(lp, Sock, "out")
         IN (Sock \in DOMAIN after.ep => Sock \in DOMAIN after.io) /\ ~OutWatched(after)
<1>1. PICK after : after = UnwatchOne(lp, Sock, "out")
  OBVIOUS
<1>2. CASE Sock \notin DOMAIN lp.io
  BY <1>1, <1>2 DEF UnwatchOne, OutWatched, Watches
<1>3. CASE Sock \in DOMAIN lp.io
  BY <1>1, <1>3 DEF UnwatchOne, With, Without, OutWatched, Watches
<1> QED
  BY <1>1, <1>2, <1>3

-----------------------------------------------------------------------------
(* the initial states *)

\* The invariant holds at the start.
LEMMA InitIsRight ==
  ASSUME Init
  PROVE  ClientInv
<1>1. TimersRight
  <2>1. queue = [lst |-> <<>>, position |-> <<>>, next |-> 0, pioneer |-> Never, armed |-> Never]
    BY DEF Init, NoTimers
  <2>2. /\ queue.lst = <<>> /\ queue.position = <<>> /\ queue.next = 0
        /\ queue.pioneer = Never /\ queue.armed = Never
    BY <2>1
  <2>3. DOMAIN queue.lst = {} /\ DOMAIN queue.position = {} /\ queue.lst \in Seq(Timer)
    BY <2>2
  <2>4. PositionsMatch(queue) /\ IsHeap(queue)
    BY <2>3 DEF PositionsMatch, IsHeap
  <2>5. Sound(queue)
    BY <2>1, <2>2, <2>3, <2>4, NeverAssumption DEF Sound
  <2>6. fired = <<>> /\ deleted = {} /\ crowded = FALSE /\ now = 0 /\ DOMAIN fired = {}
    BY DEF Init
  <2>7. EachTimerInOnePlace
    <3>1. {queue.lst[i].id : i \in DOMAIN queue.lst} = {} /\ {fired[k].id : k \in DOMAIN fired} = {}
      BY <2>3, <2>6
    <3>2. 0..queue.next - 1 = {}
      BY <2>2
    <3> QED
      BY <2>6, <3>1, <3>2 DEF EachTimerInOnePlace
  <2>8. fired \in Seq([id : Nat, ts : Nat, at : Nat]) /\ now \in Nat
    BY <2>6
  <2> QED
    BY <2>4, <2>5, <2>6, <2>7, <2>8 DEF TimersRight, TimersInPlace
<1>2. TalkRight
  <2>1. /\ sends = 0 /\ obuf = <<>> /\ ibuf = <<>> /\ cut = FALSE
        /\ sock = [state |-> "connecting", script |-> <<>>, sent |-> 0, wire |-> <<>>, got |-> <<>>]
    BY DEF Init, Socket
  <2>2. <<>> \in Outgoing /\ <<>> \in Incoming
    BY DEF Outgoing, Incoming
  <2>3. sock \in Sockets /\ sock.state = "connecting" /\ sock.got = <<>>
    BY <2>1, <2>2 DEF Sockets
  <2>4. Whole(<<>> \o <<>>)
    BY DEF Whole
  <2> QED
    BY <2>1, <2>2, <2>3, <2>4 DEF TalkRight
<1>3. HandledRight
  BY DEF Init, HandledRight, HandledWhole
<1>4. WatchRight
  <2>1. Sock \in DOMAIN NoEvents.ep => Sock \in DOMAIN NoEvents.io
    BY DEF NoEvents
  <2>2. loop = Watch(NoEvents, Sock, "out") /\ net_ok = FALSE
    BY DEF Init
  <2> QED
    BY <2>1, <2>2, Watching DEF WatchRight
<1>5. RetryRight
  <2>1. queue.lst = <<>> /\ sock.state = "connecting"
    BY DEF Init, NoTimers, Socket
  <2> QED
    BY <2>1 DEF RetryRight, In
<1> QED
  BY <1>1, <1>2, <1>3, <1>4, <1>5 DEF ClientInv

-----------------------------------------------------------------------------
(* the timers *)

\* The identifiers in a queue, by its timers.
LEMMA IdsOf ==
  ASSUME NEW q
  PROVE  {q.lst[i].id : i \in DOMAIN q.lst} = {t.id : t \in In(q)}
<1>1. \A i \in DOMAIN q.lst : q.lst[i] \in In(q)
  BY DEF In
<1>2. \A t \in In(q) : \E i \in DOMAIN q.lst : t = q.lst[i]
  BY DEF In
<1> QED
  BY <1>1, <1>2

\* Two timers of a queue are not of one identifier.
LEMMA OneOfAnId ==
  ASSUME NEW q, Sound(q), NEW t \in In(q), NEW u \in In(q), t.id = u.id
  PROVE  t = u
<1>1. PICK i \in DOMAIN q.lst : t = q.lst[i]
  BY DEF In
<1>2. PICK j \in DOMAIN q.lst : u = q.lst[j]
  BY DEF In
<1> QED
  BY <1>1, <1>2, IdsDiffer

\* add_timer.
LEMMA AddKeeps ==
  ASSUME TimersRight, NEW ts \in Nat, NEW cb \in {"user", "reconn"},
         queue' = AddTimer(queue, ts, cb), UNCHANGED <<now, fired, deleted, crowded>>
  PROVE  TimersRight' /\ In(queue') = In(queue) \cup {[id |-> queue.next, ts |-> ts, cb |-> cb]}
<1>1. Sound(queue) /\ (crowded \/ IsHeap(queue))
  BY DEF TimersRight, TimersInPlace
<1>0. PICK te : te = [id |-> queue.next, ts |-> ts, cb |-> cb]
  OBVIOUS
<1>2. PICK nx \in Nat : nx = queue.next /\ te = [id |-> nx, ts |-> ts, cb |-> cb] /\ te.id = nx
  BY <1>0, <1>1 DEF Sound
<1>3. PICK r : r = AddTimer(queue, ts, cb)
  OBVIOUS
<1>4. /\ Sound(r) /\ In(r) = In(queue) \cup {te} /\ r.next = nx + 1
      /\ IsHeap(queue) => IsHeap(r)
  BY <1>1, <1>2, <1>3, AddTimerIs
<1>5. PICK W : W = {queue.lst[i].id : i \in DOMAIN queue.lst}
  OBVIOUS
<1>6. PICK G : G = {fired[k].id : k \in DOMAIN fired}
  OBVIOUS
<1>7. /\ W \cup G \cup deleted = 0..nx - 1
      /\ W \cap G = {} /\ W \cap deleted = {} /\ G \cap deleted = {}
      /\ \A k, l \in DOMAIN fired : fired[k].id = fired[l].id => k = l
  BY <1>2, <1>5, <1>6 DEF TimersRight, TimersInPlace, EachTimerInOnePlace
<1>8. {r.lst[i].id : i \in DOMAIN r.lst} = W \cup {nx}
  <2>1. W = {t.id : t \in In(queue)}
    BY <1>5, IdsOf
  <2>2. {r.lst[i].id : i \in DOMAIN r.lst} = {t.id : t \in In(queue) \cup {te}}
    BY <1>4, IdsOf
  <2> QED
    BY <1>2, <2>1, <2>2
<1>9. /\ (W \cup {nx}) \cup G \cup deleted = 0..(nx + 1) - 1
      /\ nx \notin W /\ nx \notin G /\ nx \notin deleted
  <2>1. 0..(nx + 1) - 1 = (0..nx - 1) \cup {nx} /\ nx \notin 0..nx - 1
    OBVIOUS
  <2> QED
    BY <1>7, <2>1
<1>10. queue' = r /\ fired' = fired /\ deleted' = deleted /\ crowded' = crowded /\ now' = now
  BY <1>3
<1>11. EachTimerInOnePlace'
  <2>1. /\ (W \cup {nx}) \cup G \cup deleted = 0..r.next - 1
        /\ (W \cup {nx}) \cap G = {} /\ (W \cup {nx}) \cap deleted = {} /\ G \cap deleted = {}
    BY <1>4, <1>7, <1>9
  <2> QED
    BY <1>6, <1>7, <1>8, <1>10, <2>1 DEF EachTimerInOnePlace
<1>12. TimersInPlace'
  BY <1>1, <1>4, <1>10, <1>11 DEF TimersRight, TimersInPlace, Sound
<1> QED
  BY <1>2, <1>4, <1>10, <1>12 DEF TimersRight

\* del_timer.
LEMMA DeleteKeeps ==
  ASSUME TimersRight, NEW i \in DOMAIN queue.lst,
         queue' = DelTimer(queue, queue.lst[i].id),
         deleted' = deleted \cup {queue.lst[i].id},
         crowded' = (crowded \/ Len(queue.lst) > 4), UNCHANGED <<now, fired>>
  PROVE  TimersRight' /\ In(queue') \subseteq In(queue)
<1>1. Sound(queue) /\ (crowded \/ IsHeap(queue)) /\ Len(queue.lst) \in Nat
  BY DEF TimersRight, TimersInPlace, Sound
<1>0. PICK te : te = queue.lst[i]
  OBVIOUS
<1>2. PICK nx \in Nat : nx = queue.next /\ te = queue.lst[i] /\ te \in In(queue)
  BY <1>0, <1>1 DEF Sound, In
<1>3. PICK r : r = DelTimer(queue, queue.lst[i].id)
  OBVIOUS
<1>4. /\ Sound(r) /\ In(r) = In(queue) \ {te} /\ r.next = nx
      /\ IsHeap(queue) /\ Len(queue.lst) <= 4 => IsHeap(r)
  BY <1>1, <1>2, <1>3, DelTimerIs
<1>5. PICK W : W = {queue.lst[k].id : k \in DOMAIN queue.lst}
  OBVIOUS
<1>6. PICK G : G = {fired[k].id : k \in DOMAIN fired}
  OBVIOUS
<1>7. /\ W \cup G \cup deleted = 0..nx - 1
      /\ W \cap G = {} /\ W \cap deleted = {} /\ G \cap deleted = {}
      /\ \A k, l \in DOMAIN fired : fired[k].id = fired[l].id => k = l
  BY <1>2, <1>5, <1>6 DEF TimersRight, TimersInPlace, EachTimerInOnePlace
<1>8. {r.lst[k].id : k \in DOMAIN r.lst} = W \ {te.id} /\ te.id \in W
  <2>1. W = {t.id : t \in In(queue)}
    BY <1>5, IdsOf
  <2>2. {r.lst[k].id : k \in DOMAIN r.lst} = {t.id : t \in In(queue) \ {te}}
    BY <1>4, IdsOf
  <2>3. \A t \in In(queue) : t.id = te.id => t = te
    BY <1>1, <1>2, OneOfAnId
  <2> QED
    BY <1>2, <2>1, <2>2, <2>3
<1>9. /\ queue' = r /\ fired' = fired /\ deleted' = deleted \cup {te.id} /\ now' = now
      /\ crowded' = (crowded \/ Len(queue.lst) > 4)
  BY <1>2, <1>3
<1>10. EachTimerInOnePlace'
  <2>1. /\ (W \ {te.id}) \cup G \cup (deleted \cup {te.id}) = 0..r.next - 1
        /\ (W \ {te.id}) \cap G = {} /\ (W \ {te.id}) \cap (deleted \cup {te.id}) = {}
        /\ G \cap (deleted \cup {te.id}) = {}
    BY <1>4, <1>7, <1>8
  <2>2. {queue'.lst[k].id : k \in DOMAIN queue'.lst} = W \ {te.id}
    BY <1>8, <1>9
  <2>3. {fired'[k].id : k \in DOMAIN fired'} = G
    BY <1>6, <1>9
  <2>4. \A k, l \in DOMAIN fired' : fired'[k].id = fired'[l].id => k = l
    BY <1>7, <1>9
  <2>5. queue'.next = r.next /\ deleted' = deleted \cup {te.id}
    BY <1>9
  <2> QED
    BY <2>1, <2>2, <2>3, <2>4, <2>5, Zenon DEF EachTimerInOnePlace
<1>11. crowded' \/ IsHeap(queue')
  <2>1. CASE crowded \/ Len(queue.lst) > 4
    BY <1>9, <2>1
  <2>2. CASE ~crowded /\ Len(queue.lst) <= 4
    BY <1>1, <1>4, <1>9, <2>2
  <2> QED
    BY <1>1, <2>1, <2>2
<1>12. TimersInPlace'
  BY <1>4, <1>9, <1>10, <1>11 DEF TimersRight, TimersInPlace, Sound
<1> QED
  BY <1>4, <1>9, <1>12 DEF TimersRight

\* What timer_queue_cb adds to the timers that have fired.
Noted(due) ==
  [i \in DOMAIN due.fired |-> [id |-> due.fired[i].id, ts |-> due.fired[i].ts, at |-> now]]

\* get_timo.
LEMMA TimoKeeps ==
  ASSUME TimersRight, Expired(queue, now), NEW due, due = GetTimo(queue),
         queue' = due.queue, fired' = fired \o Noted(due),
         crowded' = (crowded \/ Len(queue.lst) > 4), UNCHANGED <<now, deleted>>
  PROVE  /\ TimersRight'
         /\ In(queue') \subseteq In(queue)
         /\ \A i \in DOMAIN due.fired : /\ due.fired[i] \in In(queue)
                                        /\ due.fired[i] \notin In(queue')
         /\ \A t \in In(queue) : t \notin In(queue') => \E i \in DOMAIN due.fired : due.fired[i] = t
<1>1. /\ Sound(queue) /\ (crowded \/ IsHeap(queue)) /\ Len(queue.lst) \in Nat
      /\ queue.pioneer <= now /\ queue.pioneer \in Nat /\ now \in Nat
  BY DEF TimersRight, TimersInPlace, Sound, Expired
<1>2. PopIsRight(due, queue)
  BY <1>1, GetTimoIs
<1>3. PICK r : r = due.queue
  OBVIOUS
<1>4. PICK F : F = due.fired
  OBVIOUS
<1>5. /\ Sound(r) /\ F \in Seq(Timer)
      /\ In(r) \cup {F[k] : k \in DOMAIN F} = In(queue)
      /\ \A k \in DOMAIN F : /\ F[k] \notin In(r) /\ F[k].ts = queue.pioneer
                             /\ \A l \in DOMAIN F : F[k] = F[l] => k = l
      /\ IsHeap(queue) /\ Len(queue.lst) <= 4 => IsHeap(r)
  BY <1>2, <1>3, <1>4 DEF PopIsRight
<1>6. r.next = queue.next
  BY <1>2, <1>3 DEF PopIsRight
<1>7. PICK n \in Nat : n = Len(F) /\ DOMAIN F = 1..n
  BY <1>5
<1>8. /\ \A k \in 1..n : F[k] \in In(queue) /\ F[k] \in Timer
      /\ \A t \in In(queue) : t \in In(r) \/ \E k \in 1..n : F[k] = t
      /\ In(r) \subseteq In(queue)
  BY <1>5, <1>7
<1>9. PICK new : new = Noted(due)
  OBVIOUS
<1>10. /\ new = [k \in 1..n |-> [id |-> F[k].id, ts |-> F[k].ts, at |-> now]]
       /\ \A k \in 1..n : new[k].id = F[k].id /\ new[k].ts = F[k].ts /\ new[k].at = now
  BY <1>4, <1>7, <1>9 DEF Noted
<1>11. new \in Seq([id : Nat, ts : Nat, at : Nat]) /\ Len(new) = n
  <2>1. \A k \in 1..n : new[k] \in [id : Nat, ts : Nat, at : Nat]
    <3>1. SUFFICES ASSUME NEW k \in 1..n PROVE new[k] \in [id : Nat, ts : Nat, at : Nat]
      OBVIOUS
    <3>2. F[k].id \in Nat /\ F[k].ts \in Nat
      BY <1>8 DEF Timer
    <3> QED
      BY <1>1, <1>10, <3>2
  <2> QED
    BY <1>10, <2>1
<1>12. PICK all : all = fired \o new
  OBVIOUS
<1>13. PICK a \in Nat : a = Len(fired) /\ DOMAIN fired = 1..a
  BY DEF TimersRight
<1>14. /\ all \in Seq([id : Nat, ts : Nat, at : Nat]) /\ DOMAIN all = 1..a + n
       /\ \A k \in 1..a : all[k] = fired[k]
       /\ \A k \in 1..n : all[a + k] = new[k]
  <2>1. PICK R : R = [id : Nat, ts : Nat, at : Nat]
    OBVIOUS
  <2>2. fired \in Seq(R) /\ new \in Seq(R)
    BY <1>11, <2>1 DEF TimersRight
  <2> HIDE <2>1
  <2>3. /\ fired \o new \in Seq(R) /\ DOMAIN (fired \o new) = 1..Len(fired) + Len(new)
        /\ \A i \in 1..Len(fired) : (fired \o new)[i] = fired[i]
        /\ \A i \in 1..Len(new) : (fired \o new)[Len(fired) + i] = new[i]
    BY <2>2, Join
  <2> QED
    BY <1>11, <1>12, <1>13, <2>1, <2>3
<1>15. \A k \in 1..a + n : k \in 1..a \/ \E l \in 1..n : k = a + l
  <2>1. SUFFICES ASSUME NEW k \in 1..a + n, ~(k <= a) PROVE \E l \in 1..n : k = a + l
    OBVIOUS
  <2>2. k - a \in 1..n /\ k = a + (k - a)
    BY <2>1
  <2> QED
    BY <2>2
<1>16. PICK W : W = {queue.lst[k].id : k \in DOMAIN queue.lst}
  OBVIOUS
<1>17. PICK G : G = {fired[k].id : k \in DOMAIN fired}
  OBVIOUS
<1>18. PICK E : E = {F[k].id : k \in 1..n}
  OBVIOUS
<1>19. /\ W \cup G \cup deleted = 0..queue.next - 1
       /\ W \cap G = {} /\ W \cap deleted = {} /\ G \cap deleted = {}
       /\ \A k, l \in DOMAIN fired : fired[k].id = fired[l].id => k = l
  BY <1>16, <1>17 DEF TimersRight, TimersInPlace, EachTimerInOnePlace
<1>20. W = {t.id : t \in In(queue)} /\ {r.lst[k].id : k \in DOMAIN r.lst} = {t.id : t \in In(r)}
  BY <1>16, IdsOf
<1>21. {t.id : t \in In(r)} \cup E = W /\ {t.id : t \in In(r)} \cap E = {}
  <2>1. \A k \in 1..n : \A t \in In(r) : F[k].id # t.id
    <3>1. SUFFICES ASSUME NEW k \in 1..n, NEW t \in In(r), F[k].id = t.id PROVE FALSE
      OBVIOUS
    <3>2. F[k] \in In(queue) /\ t \in In(queue)
      BY <1>8
    <3>3. F[k] = t
      BY <1>1, <3>1, <3>2, OneOfAnId
    <3>4. F[k] \notin In(r)
      BY <1>5, <1>7
    <3> QED
      BY <3>1, <3>3, <3>4
  <2> QED
    BY <1>8, <1>18, <1>20, <2>1
<1>22. {all[k].id : k \in 1..a + n} = G \cup E
  <2>1. \A k \in 1..a + n : all[k].id \in G \cup E
    <3>1. SUFFICES ASSUME NEW k \in 1..a + n PROVE all[k].id \in G \cup E
      OBVIOUS
    <3>2. CASE k \in 1..a
      BY <1>13, <1>14, <1>17, <3>2
    <3>3. CASE \E l \in 1..n : k = a + l
      <4>1. PICK l \in 1..n : k = a + l
        BY <3>3
      <4>2. all[k].id = F[l].id
        BY <1>10, <1>14, <4>1
      <4> QED
        BY <1>18, <4>2
    <3> QED
      BY <1>15, <3>2, <3>3
  <2>2. \A x \in G : \E k \in 1..a + n : x = all[k].id
    <3>1. SUFFICES ASSUME NEW l \in 1..a PROVE \E k \in 1..a + n : fired[l].id = all[k].id
      BY <1>13, <1>17
    <3>2. l \in 1..a + n /\ all[l] = fired[l]
      BY <1>14
    <3> QED
      BY <3>2
  <2>3. \A x \in E : \E k \in 1..a + n : x = all[k].id
    <3>1. SUFFICES ASSUME NEW l \in 1..n PROVE \E k \in 1..a + n : F[l].id = all[k].id
      BY <1>18
    <3>2. a + l \in 1..a + n /\ all[a + l].id = F[l].id
      BY <1>10, <1>14
    <3> QED
      BY <3>2
  <2> QED
    BY <2>1, <2>2, <2>3
<1>23. ASSUME NEW k \in 1..a + n, NEW l \in 1..a + n, all[k].id = all[l].id PROVE k = l
  <2>1. \A x \in 1..n : F[x].id \in W
    BY <1>18, <1>21
  <2>2. CASE k \in 1..a
    <3>1. all[k].id \in G /\ all[k] = fired[k]
      BY <1>13, <1>14, <1>17, <2>2
    <3>2. CASE l \in 1..a
      BY <1>13, <1>14, <1>19, <1>23, <2>2, <3>2
    <3>3. CASE \E y \in 1..n : l = a + y
      <4>1. PICK y \in 1..n : l = a + y
        BY <3>3
      <4>2. all[l].id = F[y].id /\ F[y].id \in W
        BY <1>10, <1>14, <2>1, <4>1
      <4> QED
        BY <1>19, <1>23, <3>1, <4>2
    <3> QED
      BY <1>15, <3>2, <3>3
  <2>3. CASE \E x \in 1..n : k = a + x
    <3>1. PICK x \in 1..n : k = a + x
      BY <2>3
    <3>2. all[k].id = F[x].id
      BY <1>10, <1>14, <3>1
    <3>3. CASE l \in 1..a
      <4>1. all[l].id \in G
        BY <1>13, <1>14, <1>17, <3>3
      <4> QED
        BY <1>19, <1>23, <2>1, <3>2, <4>1
    <3>4. CASE \E y \in 1..n : l = a + y
      <4>1. PICK y \in 1..n : l = a + y
        BY <3>4
      <4>2. F[x].id = F[y].id
        BY <1>10, <1>14, <1>23, <3>2, <4>1
      <4>3. F[x] = F[y]
        BY <1>1, <1>8, <4>2, OneOfAnId
      <4> QED
        BY <1>5, <1>7, <3>1, <4>1, <4>3
    <3> QED
      BY <1>15, <3>3, <3>4
  <2> QED
    BY <1>15, <2>2, <2>3
<1>24. /\ queue' = r /\ fired' = all /\ deleted' = deleted /\ now' = now
       /\ crowded' = (crowded \/ Len(queue.lst) > 4)
  BY <1>3, <1>9, <1>12
<1>25. EachTimerInOnePlace'
  <2>1. {r.lst[k].id : k \in DOMAIN r.lst} = W \ E /\ E \subseteq W
    BY <1>20, <1>21
  <2>2. /\ (W \ E) \cup (G \cup E) \cup deleted = 0..r.next - 1
        /\ (W \ E) \cap (G \cup E) = {} /\ (W \ E) \cap deleted = {} /\ (G \cup E) \cap deleted = {}
    BY <1>6, <1>19, <2>1
  <2>3. {all[k].id : k \in DOMAIN all} = G \cup E
    BY <1>14, <1>22
  <2>4. {queue'.lst[k].id : k \in DOMAIN queue'.lst} = W \ E
    BY <1>24, <2>1
  <2>5. {fired'[k].id : k \in DOMAIN fired'} = G \cup E
    BY <1>24, <2>3
  <2>6. \A k, l \in DOMAIN fired' : fired'[k].id = fired'[l].id => k = l
    BY <1>14, <1>23, <1>24
  <2>7. queue'.next = r.next /\ deleted' = deleted
    BY <1>24
  <2> QED
    BY <2>2, <2>4, <2>5, <2>6, <2>7, Zenon DEF EachTimerInOnePlace
<1>26. crowded' \/ IsHeap(queue')
  <2>1. CASE crowded \/ Len(queue.lst) > 4
    BY <1>24, <2>1
  <2>2. CASE ~crowded /\ Len(queue.lst) <= 4
    BY <1>1, <1>5, <1>24, <2>2
  <2> QED
    BY <1>1, <2>1, <2>2
<1>27. \A k \in DOMAIN all : all[k].at >= all[k].ts
  <2>1. SUFFICES ASSUME NEW k \in 1..a + n PROVE all[k].at >= all[k].ts
    BY <1>14
  <2>2. CASE k \in 1..a
    BY <1>13, <1>14, <2>2 DEF TimersRight, TimersInPlace
  <2>3. CASE \E x \in 1..n : k = a + x
    <3>1. PICK x \in 1..n : k = a + x
      BY <2>3
    <3>2. all[k] = new[x]
      BY <1>14, <3>1
    <3>3. new[x].at = now /\ new[x].ts = F[x].ts
      BY <1>10
    <3>4. F[x].ts = queue.pioneer
      BY <1>5, <1>7
    <3> QED
      BY <1>1, <3>2, <3>3, <3>4
  <2> QED
    BY <1>15, <2>2, <2>3
<1>28. TimersInPlace'
  BY <1>5, <1>24, <1>25, <1>26, <1>27 DEF TimersInPlace, Sound
<1>29. TimersRight'
  BY <1>1, <1>5, <1>14, <1>24, <1>28 DEF TimersRight
<1> QED
  BY <1>4, <1>5, <1>7, <1>8, <1>24, <1>29

-----------------------------------------------------------------------------
(* connecting *)

\* do_connect, for a loop that does not have the socket watched to write.
LEMMA DoConnectKeeps ==
  ASSUME NEW lp, DoConnect(lp), obuf \in Outgoing, sends \in Nat,
         Sock \in DOMAIN lp.ep => Sock \in DOMAIN lp.io, ~OutWatched(lp),
         cut' \in BOOLEAN, cut' \/ Whole(obuf), ibuf' \in Incoming
  PROVE  TalkRight' /\ HandledRight' /\ WatchRight' /\ sock'.state # "failed"
<1>0. <<>> \in Outgoing /\ <<>> \in Incoming
  BY DEF Outgoing, Incoming
<1>1. ASSUME NEW s \in Outgoing PROVE <<>> \o s = s
  BY <1>1 DEF Outgoing
<1>2. HandledRight'
  BY DEF DoConnect, HandledRight, HandledWhole
<1>3. CASE /\ sock' = Socket("connecting") /\ loop' = Watch(lp, Sock, "out")
           /\ net_ok' = FALSE /\ ended' = "no" /\ UNCHANGED <<obuf, sends>>
  <2>1. /\ sock' \in Sockets /\ sock'.state = "connecting" /\ sock'.got = <<>>
    BY <1>0, <1>3 DEF Socket, Sockets
  <2>2. TalkRight'
    BY <1>1, <1>3, <2>1 DEF TalkRight
  <2>3. WatchRight'
    BY <1>3, Watching DEF WatchRight
  <2> QED
    BY <1>2, <2>1, <2>2, <2>3
<1>4. CASE /\ \E script \in Scripts : sock' = [Socket("up") EXCEPT !.script = script]
           /\ net_ok' = TRUE /\ ended' = "no"
           /\ \E reply \in Replies :
                /\ obuf' = reply.obuf /\ sends' = reply.sends
                /\ loop' = IF reply.watch THEN Watch(lp, Sock, "out") ELSE lp
  <2>1. PICK script \in Scripts : sock' = [Socket("up") EXCEPT !.script = script]
    BY <1>4
  <2>2. sock' = [state |-> "up", script |-> script, sent |-> 0, wire |-> <<>>, got |-> <<>>]
    BY <2>1 DEF Socket
  <2>3. /\ sock' \in Sockets /\ sock'.state = "up" /\ sock'.got = <<>> /\ sock'.script \in Scripts
    BY <1>0, <2>2 DEF Sockets
  <2>4. PICK reply \in Replies : /\ obuf' = reply.obuf /\ sends' = reply.sends
                                 /\ loop' = IF reply.watch THEN Watch(lp, Sock, "out") ELSE lp
    BY <1>4
  <2>5. Answered(reply)
    BY RepliesAre
  <2>6. /\ obuf' \in Outgoing /\ sends' \in Nat
    BY <2>4, <2>5 DEF Answered
  <2>7. cut' \/ Whole(<<>> \o obuf')
    <3>1. SUFFICES ASSUME ~cut' PROVE Whole(<<>> \o obuf')
      OBVIOUS
    <3>2. Whole(<<>> \o obuf)
      BY <1>1, <3>1
    <3> QED
      BY <1>0, <2>4, <2>5, <3>2 DEF Answered
  <2>8. TalkRight'
    BY <2>3, <2>6, <2>7 DEF TalkRight
  <2>9. WatchRight'
    <3>1. CASE reply.watch
      <4>1. obuf' # <<>> /\ loop' = Watch(lp, Sock, "out")
        BY <2>4, <2>5, <3>1 DEF Answered
      <4> QED
        BY <4>1, Watching DEF WatchRight
    <3>2. CASE ~reply.watch
      <4>1. loop' = lp
        BY <2>4, <3>2
      <4> QED
        BY <4>1 DEF WatchRight, OutWatched, Watches
    <3> QED
      BY <3>1, <3>2
  <2> QED
    BY <1>2, <2>3, <2>8, <2>9
<1>5. CASE /\ sock' = Socket("none") /\ loop' = lp
           /\ net_ok' = FALSE /\ ended' = "exit" /\ UNCHANGED <<obuf, sends>>
  <2>1. /\ sock' \in Sockets /\ sock'.state = "none" /\ sock'.got = <<>>
    BY <1>0, <1>5 DEF Socket, Sockets
  <2>2. TalkRight'
    BY <1>1, <1>5, <2>1 DEF TalkRight
  <2>3. WatchRight'
    BY <1>5 DEF WatchRight
  <2> QED
    BY <1>2, <2>1, <2>2, <2>3
<1> QED
  BY <1>3, <1>4, <1>5 DEF DoConnect

\* The places of the timers do not change.
LEMMA PlacesKeep ==
  ASSUME EachTimerInOnePlace, UNCHANGED <<queue, fired, deleted>>
  PROVE  EachTimerInOnePlace'
<1>1. PICK W : W = {queue.lst[i].id : i \in DOMAIN queue.lst}
  OBVIOUS
<1>2. PICK G : G = {fired[k].id : k \in DOMAIN fired}
  OBVIOUS
<1>3. /\ {queue'.lst[i].id : i \in DOMAIN queue'.lst} = W
      /\ {fired'[k].id : k \in DOMAIN fired'} = G
  BY <1>1, <1>2
<1>4. /\ W \cup G \cup deleted = 0..queue.next - 1
      /\ W \cap G = {} /\ W \cap deleted = {} /\ G \cap deleted = {}
      /\ \A k, l \in DOMAIN fired : fired[k].id = fired[l].id => k = l
  BY <1>1, <1>2, Zenon DEF EachTimerInOnePlace
<1>5. /\ W \cup G \cup deleted' = 0..queue'.next - 1
      /\ W \cap G = {} /\ W \cap deleted' = {} /\ G \cap deleted' = {}
      /\ \A k, l \in DOMAIN fired' : fired'[k].id = fired'[l].id => k = l
  BY <1>4
<1> QED
  BY <1>3, <1>5, Zenon DEF EachTimerInOnePlace

\* Nothing of the timers changes, but that time may pass.
LEMMA TimingKeeps ==
  ASSUME TimersRight, UNCHANGED <<queue, fired, deleted, crowded>>, now' \in Nat
  PROVE  TimersRight'
<1>1. EachTimerInOnePlace'
  BY PlacesKeep DEF TimersRight, TimersInPlace
<1>2. TimersInPlace'
  BY <1>1 DEF TimersRight, TimersInPlace
<1> QED
  BY <1>2 DEF TimersRight

\* Nothing of the timers changes, and no time passes.
LEMMA TimersKeep ==
  ASSUME TimersRight, UNCHANGED <<now, queue, fired, deleted, crowded>>
  PROVE  TimersRight'
<1>1. now' \in Nat
  BY DEF TimersRight
<1> QED
  BY <1>1, TimingKeeps

\* clean_conn.
LEMMA CleanKeeps ==
  ASSUME ClientInv, net_ok, Clean, ibuf' \in Incoming
  PROVE  ClientInv'
<1>1. /\ obuf \in Outgoing /\ sends \in Nat /\ sock.got \in Outgoing /\ cut \in BOOLEAN
      /\ cut \/ Whole(sock.got \o obuf)
  BY DEF ClientInv, TalkRight, Sockets
<1>2. /\ cut' = (cut \/ (obuf # <<>> /\ obuf[1].j # 1))
      /\ DoConnect(Unwatch(loop, Sock)) /\ UNCHANGED timing
  BY DEF Clean
<1>3. cut' \in BOOLEAN
  BY <1>1, <1>2
<1>4. cut' \/ Whole(obuf)
  BY <1>1, <1>2, RestWhole
<1>5. PICK lp : lp = Unwatch(loop, Sock)
  OBVIOUS
<1>6. (Sock \in DOMAIN lp.ep => Sock \in DOMAIN lp.io) /\ ~OutWatched(lp)
  BY <1>5, Unwatching DEF Free
<1>7. DoConnect(lp)
  BY <1>2, <1>5
<1>8. TalkRight' /\ HandledRight' /\ WatchRight' /\ sock'.state # "failed"
  BY <1>1, <1>3, <1>4, <1>6, <1>7, DoConnectKeeps
<1>9. TimersRight'
  BY <1>2, TimersKeep DEF ClientInv, timing
<1>10. RetryRight'
  <2>1. \A t \in In(queue) : t.cb # "reconn"
    BY DEF ClientInv, RetryRight
  <2>2. queue' = queue
    BY <1>2 DEF timing
  <2> QED
    BY <1>8, <2>1, <2>2 DEF RetryRight
<1> QED
  BY <1>8, <1>9, <1>10 DEF ClientInv

\* A failed assertion, or an invalid copy.
LEMMA AbortKeeps ==
  ASSUME ClientInv, Runs, Abort, UNCHANGED ibuf
  PROVE  ClientInv'
<1>1. /\ ended' = "abort" /\ ended = "no"
      /\ UNCHANGED <<now, queue, fired, deleted, crowded, loop, net_ok, ibuf, obuf, sends, handled,
                     cut, sock>>
  BY DEF Abort, timing, talk, Runs
<1>2. TimersRight'
  BY <1>1, TimersKeep DEF ClientInv
<1>3. TalkRight'
  BY <1>1 DEF ClientInv, TalkRight
<1>4. HandledRight'
  BY <1>1 DEF ClientInv, HandledRight, HandledWhole
<1>5. WatchRight'
  BY <1>1 DEF ClientInv, WatchRight, Runs, OutWatched, Watches
<1>6. RetryRight'
  BY <1>1 DEF ClientInv, RetryRight, Free
<1> QED
  BY <1>2, <1>3, <1>4, <1>5, <1>6 DEF ClientInv

-----------------------------------------------------------------------------
(* the network *)

\* The parts that a step of the network leaves alone.
LEMMA NetworkKeeps ==
  ASSUME ClientInv, sock' \in Sockets, sock.state # "failed", sock'.state # "failed",
         sock'.got = sock.got,
         IF sock'.state \in {"up", "closed"} THEN sock'.script \in Scripts ELSE sock'.got = <<>>,
         UNCHANGED <<timing, loop, net_ok, talk, ended, connects>>
  PROVE  ClientInv'
<1>1. UNCHANGED <<now, queue, fired, deleted, crowded, loop, net_ok, ibuf, obuf, sends, handled,
                  cut, ended>>
  BY DEF timing, talk
<1>2. TimersRight'
  BY <1>1, TimersKeep DEF ClientInv
<1>3. TalkRight'
  BY <1>1 DEF ClientInv, TalkRight
<1>4. HandledRight'
  BY <1>1 DEF ClientInv, HandledRight, HandledWhole
<1>5. WatchRight'
  BY <1>1 DEF ClientInv, WatchRight, Runs, OutWatched, Watches
<1>6. RetryRight'
  <2>1. \A t \in In(queue) : t.cb # "reconn"
    BY DEF ClientInv, RetryRight
  <2> QED
    BY <1>1, <2>1 DEF RetryRight
<1> QED
  BY <1>2, <1>3, <1>4, <1>5, <1>6 DEF ClientInv

\* A socket, by its parts.
LEMMA SocketOf ==
  ASSUME NEW k \in Sockets
  PROVE  /\ k = [state |-> k.state, script |-> k.script, sent |-> k.sent, wire |-> k.wire,
                 got |-> k.got]
         /\ k.state \in {"none", "connecting", "up", "closed", "refused", "failed"}
         /\ k.script \in Scripts \cup {<<>>} /\ k.sent \in Nat
         /\ k.wire \in Incoming /\ k.got \in Outgoing
BY DEF Sockets

\* The end of an attempt to connect.
LEMMA ResolvesKeeps ==
  ASSUME ClientInv, Resolves
  PROVE  ClientInv'
<1>1. sock \in Sockets /\ sock.state = "connecting" /\ sock.got = <<>>
  BY DEF ClientInv, TalkRight, Resolves
<1>2. UNCHANGED <<timing, loop, net_ok, talk, ended, connects>>
  BY DEF Resolves
<1>3. CASE \E script \in Scripts : sock' = [sock EXCEPT !.state = "up", !.script = script]
  <2>1. PICK script \in Scripts : sock' = [sock EXCEPT !.state = "up", !.script = script]
    BY <1>3
  <2>2. /\ sock' \in Sockets /\ sock'.state = "up" /\ sock'.script \in Scripts
        /\ sock'.got = sock.got
    BY <1>1, <2>1 DEF Sockets
  <2> QED
    BY <1>1, <1>2, <2>2, NetworkKeeps
<1>4. CASE sock' = [sock EXCEPT !.state = "refused"]
  <2>1. sock' \in Sockets /\ sock'.state = "refused" /\ sock'.got = sock.got
    BY <1>1, <1>4 DEF Sockets
  <2> QED
    BY <1>1, <1>2, <2>1, NetworkKeeps
<1> QED
  BY <1>3, <1>4 DEF Resolves

\* What a server sends.
LEMMA ServerSendsKeeps ==
  ASSUME ClientInv, ServerSends
  PROVE  ClientInv'
<1>1. sock \in Sockets /\ sock.state = "up" /\ sock.script \in Scripts
  BY DEF ClientInv, TalkRight, ServerSends
<1>2. PICK all \in Incoming : all = Streams[sock.script]
  BY <1>1, StreamType
<1>3. PICK n \in sock.sent + 1..Len(all) :
        sock' = [sock EXCEPT !.sent = n, !.wire = @ \o SubSeq(all, sock.sent + 1, n)]
  BY <1>2 DEF ServerSends
<1>4. sock.sent \in Nat /\ Len(all) \in Nat /\ n \in Nat /\ sock.wire \in Incoming
  BY <1>1, <1>2, SocketOf DEF Incoming
<1>5. PICK a \in Nat : a = sock.sent
  BY <1>4
<1>6. SubSeq(all, a + 1, n) \in Seq(Unit)
  <2>1. all \in Seq(Unit) /\ n \in a + 1..Len(all) /\ Len(all) \in Nat
    BY <1>3, <1>4, <1>5 DEF Incoming
  <2> QED
    BY <2>1
<1>7. PICK wire \in Incoming : wire = sock.wire \o SubSeq(all, a + 1, n)
  BY <1>4, <1>6, Join DEF Incoming
<1>8. sock' = [sock EXCEPT !.sent = n, !.wire = wire]
  BY <1>3, <1>5, <1>7
<1>9. /\ sock' \in Sockets /\ sock'.state = "up" /\ sock'.script \in Scripts
      /\ sock'.got = sock.got
  BY <1>1, <1>4, <1>8 DEF Sockets
<1>10. UNCHANGED <<timing, loop, net_ok, talk, ended, connects>>
  BY DEF ServerSends
<1> QED
  BY <1>1, <1>9, <1>10, NetworkKeeps

\* A server that closes.
LEMMA ServerClosesKeeps ==
  ASSUME ClientInv, ServerCloses
  PROVE  ClientInv'
<1>1. sock \in Sockets /\ sock.state = "up" /\ sock.script \in Scripts
  BY DEF ClientInv, TalkRight, ServerCloses
<1>2. sock' = [sock EXCEPT !.state = "closed"]
  BY DEF ServerCloses
<1>3. /\ sock' \in Sockets /\ sock'.state = "closed" /\ sock'.script \in Scripts
      /\ sock'.got = sock.got
  BY <1>1, <1>2 DEF Sockets
<1>4. UNCHANGED <<timing, loop, net_ok, talk, ended, connects>>
  BY DEF ServerCloses
<1> QED
  BY <1>1, <1>3, <1>4, NetworkKeeps

-----------------------------------------------------------------------------
(* the client *)

\* A callback that may send a message, on a connection that is up.
LEMMA AnswerKeeps ==
  ASSUME ClientInv, sock.state # "failed", sock'.state = sock.state, sock' \in Sockets,
         sock'.got = sock.got, sock'.script = sock.script, ibuf' \in Incoming,
         NEW reply, Answered(reply), obuf' = reply.obuf, sends' = reply.sends,
         WatchRight', HandledRight', UNCHANGED <<now, queue, fired, deleted, crowded, cut>>
  PROVE  ClientInv'
<1>1. TimersRight'
  BY TimersKeep DEF ClientInv
<1>2. cut' \/ Whole(sock'.got \o obuf')
  BY SocketOf DEF Answered, ClientInv, TalkRight
<1>3. TalkRight'
  BY <1>2 DEF ClientInv, TalkRight, Answered
<1>4. RetryRight'
  <2>1. \A t \in In(queue) : t.cb # "reconn"
    BY DEF ClientInv, RetryRight
  <2> QED
    BY <2>1 DEF RetryRight
<1> QED
  BY <1>1, <1>3, <1>4 DEF ClientInv

\* What the application sends has the socket watched if it needs to be.
LEMMA WatchAnswered ==
  ASSUME WatchRight, Runs, net_ok, NEW reply, Answered(reply), obuf' = reply.obuf,
         loop' = IF reply.watch THEN Watch(loop, Sock, "out") ELSE loop
  PROVE  WatchRight'
<1>1. CASE reply.watch
  <2>1. obuf' # <<>> /\ loop' = Watch(loop, Sock, "out")
    BY <1>1 DEF Answered
  <2> QED
    BY <2>1, Watching DEF WatchRight
<1>2. CASE ~reply.watch
  <2>1. loop' = loop /\ (obuf # <<>> => obuf' # <<>>)
    BY <1>2 DEF Answered
  <2> QED
    BY <2>1 DEF WatchRight, OutWatched, Watches
<1> QED
  BY <1>1, <1>2

\* send_data.
LEMMA SendDataKeeps ==
  ASSUME ClientInv, NEW len \in Lens, SendData(len)
  PROVE  ClientInv'
<1>1. obuf \in Outgoing /\ sends \in Nat /\ sock \in Sockets /\ ibuf \in Incoming
  BY DEF ClientInv, TalkRight
<1>2. PICK reply : reply = Take(obuf, sends, len)
  OBVIOUS
<1>3. Answered(reply)
  BY <1>1, <1>2, TakeIs
<1>4. /\ Runs /\ net_ok /\ obuf' = reply.obuf /\ sends' = reply.sends
      /\ loop' = IF reply.watch THEN Watch(loop, Sock, "out") ELSE loop
      /\ UNCHANGED <<timing, net_ok, ibuf, sock, ended, connects, handled, cut>>
  BY <1>2 DEF SendData
<1>5. WatchRight'
  BY <1>3, <1>4, WatchAnswered DEF ClientInv
<1>6. HandledRight'
  BY <1>4 DEF ClientInv, HandledRight, HandledWhole
<1>7. sock.state # "failed"
  BY <1>4 DEF ClientInv, RetryRight
<1>8. UNCHANGED <<now, queue, fired, deleted, crowded, cut, sock, ibuf>>
  BY <1>4 DEF timing
<1> QED
  BY <1>1, <1>3, <1>4, <1>5, <1>6, <1>7, <1>8, AnswerKeeps

\* connection_cb on a connection that is up.
LEMMA ConnectedKeeps ==
  ASSUME ClientInv, Connected
  PROVE  ClientInv'
<1>1. obuf \in Outgoing /\ sends \in Nat /\ sock \in Sockets /\ ibuf \in Incoming
  BY DEF ClientInv, TalkRight
<1>2. /\ Runs /\ sock.state \in {"up", "closed"} /\ net_ok' = TRUE
      /\ UNCHANGED <<timing, ibuf, sock, ended, connects, handled, cut>>
  BY DEF Connected
<1>3. PICK reply \in Replies :
        /\ obuf' = reply.obuf /\ sends' = reply.sends
        /\ LET free == Unwatch(loop, Sock)
               called == IF reply.watch THEN Watch(free, Sock, "out") ELSE free
               reading == Watch(called, Sock, "in")
           IN loop' = IF reply.obuf # <<>> THEN Watch(reading, Sock, "out") ELSE reading
  BY DEF Connected
<1>4. Answered(reply)
  BY <1>1, RepliesAre
<1>5. WatchRight'
  <2>1. PICK free : free = Unwatch(loop, Sock)
    OBVIOUS
  <2>2. (Sock \in DOMAIN free.ep => Sock \in DOMAIN free.io) /\ ~OutWatched(free)
    BY <2>1, Unwatching DEF Free
  <2>3. PICK called : called = IF reply.watch THEN Watch(free, Sock, "out") ELSE free
    OBVIOUS
  <2>4. /\ Sock \in DOMAIN called.ep => Sock \in DOMAIN called.io
        /\ obuf' = <<>> => ~OutWatched(called)
    <3>1. CASE reply.watch
      <4>1. called = Watch(free, Sock, "out") /\ obuf' # <<>>
        BY <1>3, <1>4, <2>3, <3>1 DEF Answered
      <4> QED
        BY <2>2, <4>1, Watching
    <3>2. CASE ~reply.watch
      BY <2>2, <2>3, <3>2
    <3> QED
      BY <3>1, <3>2
  <2>5. PICK reading : reading = Watch(called, Sock, "in")
    OBVIOUS
  <2>6. /\ Sock \in DOMAIN reading.ep => Sock \in DOMAIN reading.io
        /\ obuf' = <<>> => ~OutWatched(reading)
    BY <2>4, <2>5, Watching
  <2>7. loop' = IF obuf' # <<>> THEN Watch(reading, Sock, "out") ELSE reading
    BY <1>3, <2>1, <2>3, <2>5
  <2>8. CASE obuf' # <<>>
    <3>1. loop' = Watch(reading, Sock, "out")
      BY <2>7, <2>8
    <3> QED
      BY <2>6, <2>8, <3>1, Watching DEF WatchRight
  <2>9. CASE obuf' = <<>>
    <3>1. loop' = reading
      BY <2>7, <2>9
    <3> QED
      BY <2>6, <2>9, <3>1 DEF WatchRight, OutWatched, Watches
  <2> QED
    BY <2>8, <2>9
<1>6. HandledRight'
  BY <1>2 DEF ClientInv, HandledRight, HandledWhole
<1>7. UNCHANGED <<now, queue, fired, deleted, crowded, cut, sock, ibuf>> /\ sock.state # "failed"
  BY <1>2 DEF timing
<1> QED
  BY <1>1, <1>3, <1>4, <1>5, <1>6, <1>7, AnswerKeeps

\* connection_cb on a connection that failed.
LEMMA RefusedKeeps ==
  ASSUME ClientInv, Refused
  PROVE  ClientInv'
<1>1. /\ sock \in Sockets /\ sock.state = "refused" /\ sock.got = <<>> /\ ~net_ok
      /\ now \in Nat /\ RetryDelay \in Nat
  BY ClientAssumption DEF ClientInv, TalkRight, TimersRight, Refused
<1>2. /\ sock' = [sock EXCEPT !.state = "failed"]
      /\ loop' = Unwatch(loop, Sock)
      /\ queue' = AddTimer(queue, now + RetryDelay, "reconn")
      /\ UNCHANGED <<now, fired, deleted, crowded, net_ok, ibuf, obuf, sends, handled, cut, ended>>
  BY DEF Refused, talk
<1>3. sock' \in Sockets /\ sock'.state = "failed" /\ sock'.got = sock.got
  BY <1>1, <1>2 DEF Sockets
<1>4. PICK ts \in Nat : ts = now + RetryDelay
  BY <1>1
<1>5. /\ TimersRight'
      /\ In(queue') = In(queue) \cup {[id |-> queue.next, ts |-> ts, cb |-> "reconn"]}
  BY <1>2, <1>4, AddKeeps DEF ClientInv
<1>6. TalkRight'
  BY <1>1, <1>2, <1>3 DEF ClientInv, TalkRight
<1>7. HandledRight'
  BY <1>2 DEF ClientInv, HandledRight, HandledWhole
<1>8. Free(loop') /\ ~net_ok'
  BY <1>1, <1>2, Unwatching
<1>9. WatchRight'
  BY <1>8 DEF WatchRight, Free
<1>10. RetryRight'
  <2>1. \A t \in In(queue) : t.cb # "reconn"
    BY <1>1 DEF ClientInv, RetryRight
  <2> QED
    BY <1>3, <1>5, <1>8, <2>1 DEF RetryRight, Free
<1> QED
  BY <1>5, <1>6, <1>7, <1>9, <1>10 DEF ClientInv

\* What there is to read.
LEMMA ReadIs ==
  ASSUME TalkRight
  PROVE  Read \in Incoming /\ Len(Read) \in Nat
<1>1. ibuf \in Incoming /\ sock.wire \in Incoming
  BY SocketOf DEF TalkRight
<1>2. Read \in Incoming
  BY <1>1, Join DEF Read, Incoming
<1> QED
  BY <1>2 DEF Incoming

\* What is left of a buffer.
LEMMA LeftIs ==
  ASSUME NEW buffer \in Incoming, NEW n \in Nat
  PROVE  SubSeq(buffer, n + 1, Len(buffer)) \in Incoming
<1>1. buffer \in Seq(Unit) /\ Len(buffer) \in Nat
  BY DEF Incoming
<1>2. SubSeq(buffer, n + 1, Len(buffer)) \in Seq(Unit)
  BY <1>1
<1> QED
  BY <1>2 DEF Incoming

\* A socket that has been read.
LEMMA EmptiedIs ==
  ASSUME NEW k \in Sockets, NEW after, after = [k EXCEPT !.wire = <<>>]
  PROVE  /\ after \in Sockets /\ after.state = k.state /\ after.got = k.got
         /\ after.script = k.script
<1>1. <<>> \in Incoming
  BY DEF Incoming
<1> QED
  BY <1>1 DEF Sockets

\* handle_read that only takes the data.
LEMMA HandleReadKeeps ==
  ASSUME ClientInv, HandleRead
  PROVE  ClientInv'
<1>1. /\ obuf \in Outgoing /\ sends \in Nat /\ sock \in Sockets /\ Read \in Incoming
  BY ReadIs DEF ClientInv, TalkRight
<1>2. /\ net_ok /\ ibuf' = Read /\ sock' = [sock EXCEPT !.wire = <<>>]
      /\ UNCHANGED <<timing, loop, net_ok, obuf, ended, connects, sends, handled, cut>>
  BY DEF HandleRead
<1>3. /\ sock' \in Sockets /\ sock'.state = sock.state /\ sock'.got = sock.got
      /\ sock'.script = sock.script
  BY <1>1, <1>2, EmptiedIs
<1>4. Answered(Idle)
  BY <1>1 DEF Idle, Answered
<1>5. obuf' = Idle.obuf /\ sends' = Idle.sends
  BY <1>2 DEF Idle
<1>6. WatchRight'
  BY <1>2 DEF ClientInv, WatchRight, Runs, OutWatched, Watches
<1>7. HandledRight'
  BY <1>2 DEF ClientInv, HandledRight, HandledWhole
<1>8. UNCHANGED <<now, queue, fired, deleted, crowded, cut>> /\ sock.state # "failed"
      /\ ibuf' \in Incoming
  BY <1>1, <1>2 DEF timing, ClientInv, RetryRight
<1> QED
  BY <1>1, <1>3, <1>4, <1>5, <1>6, <1>7, <1>8, AnswerKeeps

\* A callback is given a whole message, or the process dies.
LEMMA DispatchKeepsHandled ==
  ASSUME HandledRight, Runs, NEW m \in Messages, NEW units \in Nat, m.len \in Nat,
         ~(HeadLength + m.len < units),
         handled' = Append(handled, [m |-> m, units |-> units]),
         ended' = AfterPop(units, HeadLength + m.len)
  PROVE  HandledRight'
<1>1. PICK n \in Nat, k \in Nat :
        n = Len(handled) /\ DOMAIN handled = 1..n /\ k = HeadLength + m.len
  BY ClientAssumption DEF HandledRight
<1>2. PICK new : new = [m |-> m, units |-> units]
  OBVIOUS
<1>3. new \in [m : Messages, units : Nat] /\ new.m = m /\ new.units = units
  BY <1>2
<1>4. handled \in Seq([m : Messages, units : Nat])
  BY DEF HandledRight
<1>5. handled' = Append(handled, new)
  BY <1>2
<1>6. /\ handled' \in Seq([m : Messages, units : Nat]) /\ Len(handled') = n + 1
      /\ DOMAIN handled' = 1..n + 1
      /\ \A i \in 1..n : handled'[i] = handled[i]
      /\ handled'[n + 1] = new
  BY <1>1, <1>3, <1>4, <1>5
<1>7. \A i \in 1..n : handled[i].units = HeadLength + handled[i].m.len
  BY <1>1 DEF HandledRight, HandledWhole, Runs
<1>8. ended' = "abort" \/ units = k
  <2>1. ended' = IF units < k THEN "abort" ELSE "no"
    BY <1>1 DEF AfterPop
  <2> QED
    BY <1>1, <2>1
<1>9. ASSUME NEW i \in 1..n + 1
      PROVE  \/ i = Len(handled') /\ ended' = "abort"
             \/ handled'[i].units = HeadLength + handled'[i].m.len
  <2>1. CASE i = n + 1
    BY <1>1, <1>3, <1>6, <1>8, <2>1
  <2>2. CASE i # n + 1
    <3>1. i \in 1..n
      BY <2>2
    <3> QED
      BY <1>6, <1>7, <3>1
  <2> QED
    BY <2>1, <2>2
<1> QED
  BY <1>6, <1>9 DEF HandledRight, HandledWhole

\* handle_read that dispatches a message.
LEMMA DispatchKeeps ==
  ASSUME ClientInv, Dispatch
  PROVE  ClientInv'
<1>1. /\ obuf \in Outgoing /\ sends \in Nat /\ sock \in Sockets /\ Read \in Incoming
      /\ Len(Read) \in Nat /\ HeadLength \in Nat /\ Capacity \in Nat
  BY ReadIs, ClientAssumption DEF ClientInv, TalkRight
<1>2. /\ Runs /\ net_ok /\ Len(Read) >= HeadLength /\ sock' = [sock EXCEPT !.wire = <<>>]
      /\ UNCHANGED <<now, queue, fired, deleted, crowded, net_ok, connects, cut>>
  BY <1>1 DEF Dispatch, timing
<1>3. PICK m \in Heads(Read) :
        /\ ~TooMuch(Read, m)
        /\ ibuf' = SubSeq(Read, HeadLength + m.len + 1, Len(Read))
        /\ handled' = Append(handled, [m |-> m, units |-> Len(Read)])
        /\ ended' = AfterPop(Len(Read), HeadLength + m.len)
  BY DEF Dispatch
<1>4. m \in Messages /\ m.len \in Nat
  BY <1>1, <1>2, HeadsAre
<1>5. PICK reply \in Replies :
        /\ obuf' = reply.obuf /\ sends' = reply.sends
        /\ loop' = IF reply.watch THEN Watch(loop, Sock, "out") ELSE loop
  BY DEF Dispatch
<1>6. Answered(reply)
  BY <1>1, RepliesAre
<1>7. WatchRight'
  BY <1>2, <1>5, <1>6, WatchAnswered DEF ClientInv
<1>8. HandledRight'
  <2>1. ~(HeadLength + m.len < Len(Read))
    BY <1>3 DEF TooMuch
  <2> QED
    BY <1>1, <1>2, <1>3, <1>4, <2>1, DispatchKeepsHandled DEF ClientInv
<1>9. ibuf' \in Incoming
  <2>1. PICK k \in Nat : k = HeadLength + m.len
    BY <1>1, <1>4
  <2>2. ibuf' = SubSeq(Read, k + 1, Len(Read))
    BY <1>3, <2>1
  <2> QED
    BY <1>1, <2>2, LeftIs
<1>10. /\ sock' \in Sockets /\ sock'.state = sock.state /\ sock'.got = sock.got
       /\ sock'.script = sock.script
  BY <1>1, <1>2, EmptiedIs
<1>11. sock.state # "failed"
  BY <1>2 DEF ClientInv, RetryRight
<1> QED
  BY <1>2, <1>5, <1>6, <1>7, <1>8, <1>9, <1>10, <1>11, AnswerKeeps

\* handle_read that finds no callback.
LEMMA NoCallbackKeeps ==
  ASSUME ClientInv, NoCallback
  PROVE  ClientInv'
<1>1. Read \in Incoming /\ HeadLength \in Nat
  BY ReadIs, ClientAssumption DEF ClientInv
<1>2. net_ok /\ ibuf' = SubSeq(Read, HeadLength + 1, Len(Read)) /\ Clean
  BY DEF NoCallback
<1>3. ibuf' \in Incoming
  BY <1>1, <1>2, LeftIs
<1> QED
  BY <1>2, <1>3, CleanKeeps

\* handle_read that asserts, or finds the connection closed.
LEMMA ReadEndsKeeps ==
  ASSUME ClientInv, ReadOverflows \/ HandleReadEnds
  PROVE  ClientInv'
<1>1. CASE ReadOverflows
  <2>1. Runs /\ Abort
    BY <1>1 DEF ReadOverflows
  <2>2. UNCHANGED ibuf
    BY <2>1 DEF Abort, talk
  <2> QED
    BY <2>1, <2>2, AbortKeeps
<1>2. CASE HandleReadEnds
  <2>1. net_ok /\ Clean /\ ibuf' = ibuf
    BY <1>2 DEF HandleReadEnds
  <2>2. ibuf' \in Incoming
    BY <2>1 DEF ClientInv, TalkRight
  <2> QED
    BY <2>1, <2>2, CleanKeeps
<1> QED
  BY <1>1, <1>2

\* handle_write that writes n units.
LEMMA WrittenKeeps ==
  ASSUME ClientInv, Runs, net_ok, sock.state = "up", NEW n \in 1..Len(obuf),
         obuf' = SubSeq(obuf, n + 1, Len(obuf)),
         sock' = [sock EXCEPT !.got = @ \o SubSeq(obuf, 1, n)],
         loop' = IF n = Len(obuf) THEN UnwatchOne(loop, Sock, "out") ELSE loop,
         UNCHANGED <<timing, net_ok, ibuf, ended, connects, sends, handled, cut>>
  PROVE  ClientInv'
<1>1. /\ obuf \in Seq(SentUnit) /\ Len(obuf) \in Nat /\ sock \in Sockets
      /\ sock.got \in Seq(SentUnit) /\ sock.script \in Scripts
  BY SocketOf DEF ClientInv, TalkRight, Outgoing
<1>2. n \in 0..Len(obuf) /\ n \in Nat
  BY <1>1
<1>3. PICK head : head = SubSeq(obuf, 1, n)
  OBVIOUS
<1>4. PICK rest : rest = SubSeq(obuf, n + 1, Len(obuf))
  OBVIOUS
<1>5. /\ head \in Seq(SentUnit) /\ rest \in Seq(SentUnit) /\ Len(rest) = Len(obuf) - n
      /\ head \o rest = obuf
  BY <1>1, <1>2, <1>3, <1>4, Cut
<1>6. PICK got : got = sock.got \o head
  OBVIOUS
<1>7. got \in Seq(SentUnit)
  BY <1>1, <1>5, <1>6, Join
<1>8. sock' = [sock EXCEPT !.got = got] /\ obuf' = rest
  BY <1>3, <1>4, <1>6
<1>9. got \o rest = sock.got \o obuf
  <2>2. PICK old \in Seq(SentUnit) : old = sock.got
    BY <1>1
  <2>3. (old \o head) \o rest = old \o (head \o rest)
    <3>1. head \in Seq(SentUnit) /\ rest \in Seq(SentUnit)
      BY <1>5
    <3> QED
      BY <3>1, JoinThree
  <2>1. (sock.got \o head) \o rest = sock.got \o (head \o rest)
    BY <2>2, <2>3
  <2> QED
    BY <1>5, <1>6, <2>1
<1>10. /\ sock' \in Sockets /\ sock'.state = "up" /\ sock'.script \in Scripts /\ sock'.got = got
  BY <1>1, <1>7, <1>8 DEF Sockets, Outgoing
<1>11. UNCHANGED <<now, queue, fired, deleted, crowded, net_ok, ibuf, ended, sends, handled, cut>>
  BY DEF timing
<1>12. TimersRight'
  BY <1>11, TimersKeep DEF ClientInv
<1>13. TalkRight'
  <2>1. cut' \/ Whole(sock'.got \o obuf')
    <3>1. cut \/ Whole(sock.got \o obuf)
      BY DEF ClientInv, TalkRight
    <3>2. sock'.got \o obuf' = sock.got \o obuf
      BY <1>8, <1>9, <1>10
    <3>3. CASE cut
      BY <1>11, <3>3
    <3>4. CASE Whole(sock.got \o obuf)
      BY <3>2, <3>4, Zenon
    <3> QED
      BY <3>1, <3>3, <3>4
  <2>2. obuf' \in Outgoing
    BY <1>5, <1>8 DEF Outgoing
  <2> QED
    BY <1>10, <1>11, <2>1, <2>2 DEF ClientInv, TalkRight
<1>14. HandledRight'
  BY <1>11 DEF ClientInv, HandledRight, HandledWhole
<1>15. WatchRight'
  <2>1. CASE n = Len(obuf)
    <3>1. loop' = UnwatchOne(loop, Sock, "out")
      BY <2>1
    <3> QED
      BY <3>1, UnwatchingOne DEF ClientInv, WatchRight
  <2>2. CASE n # Len(obuf)
    <3>1. loop' = loop /\ Len(rest) # 0
      BY <1>1, <1>2, <1>5, <2>2
    <3>2. obuf' # <<>>
      BY <1>8, <3>1
    <3> QED
      BY <3>1, <3>2 DEF ClientInv, WatchRight, OutWatched, Watches
  <2> QED
    BY <2>1, <2>2
<1>16. RetryRight'
  BY <1>10, <1>11 DEF ClientInv, RetryRight
<1> QED
  BY <1>12, <1>13, <1>14, <1>15, <1>16 DEF ClientInv

\* handle_write.
LEMMA HandleWriteKeeps ==
  ASSUME ClientInv, HandleWrite
  PROVE  ClientInv'
<1>1. Runs /\ net_ok
  BY DEF HandleWrite
<1>2. CASE Abort
  <2>1. UNCHANGED ibuf
    BY <1>2 DEF Abort, talk
  <2> QED
    BY <1>1, <1>2, <2>1, AbortKeeps
<1>3. CASE /\ sock.state = "up"
           /\ \E n \in 1..Len(obuf) :
                /\ obuf' = SubSeq(obuf, n + 1, Len(obuf))
                /\ sock' = [sock EXCEPT !.got = @ \o SubSeq(obuf, 1, n)]
                /\ loop' = IF n = Len(obuf) THEN UnwatchOne(loop, Sock, "out") ELSE loop
           /\ UNCHANGED <<timing, net_ok, ibuf, ended, connects, sends, handled, cut>>
  BY <1>1, <1>3, WrittenKeeps
<1>4. CASE Clean /\ UNCHANGED ibuf
  <2>1. ibuf' \in Incoming
    BY <1>4 DEF ClientInv, TalkRight
  <2> QED
    BY <1>1, <1>4, <2>1, CleanKeeps
<1> QED
  BY <1>2, <1>3, <1>4 DEF HandleWrite

-----------------------------------------------------------------------------
(* timers *)

\* Nothing of the connection changes, and a timer to connect again is neither new nor gone.
LEMMA ConnectionKeeps ==
  ASSUME ClientInv, TimersRight', {t \in In(queue') : t.cb = "reconn"} \subseteq In(queue),
         UNCHANGED <<loop, net_ok, talk, sock, ended, connects>>
  PROVE  ClientInv'
<1>1. UNCHANGED <<loop, net_ok, ibuf, obuf, sends, handled, cut, sock, ended>>
  BY DEF talk
<1>2. TalkRight'
  BY <1>1 DEF ClientInv, TalkRight
<1>3. HandledRight'
  BY <1>1 DEF ClientInv, HandledRight, HandledWhole
<1>4. WatchRight'
  BY <1>1 DEF ClientInv, WatchRight, Runs, OutWatched, Watches
<1>5. RetryRight'
  <2>1. \A t \in In(queue') : t.cb = "reconn" => t \in In(queue)
    OBVIOUS
  <2>2. sock.state = "failed" => ~net_ok /\ Free(loop)
    BY DEF ClientInv, RetryRight
  <2>3. \A t \in In(queue) : t.cb = "reconn" =>
          /\ sock.state = "failed"
          /\ \A u \in In(queue) : u.cb = "reconn" => u = t
    BY DEF ClientInv, RetryRight
  <2> QED
    BY <1>1, <2>1, <2>2, <2>3 DEF RetryRight, Free
<1> QED
  BY <1>2, <1>3, <1>4, <1>5 DEF ClientInv

\* run_after.
LEMMA RunAfterKeeps ==
  ASSUME ClientInv, NEW delay \in Delays, RunAfter(delay)
  PROVE  ClientInv'
<1>1. PICK ts \in Nat : ts = now + delay
  BY ClientAssumption DEF ClientInv, TimersRight
<1>2. /\ queue' = AddTimer(queue, ts, "user")
      /\ UNCHANGED <<now, fired, deleted, crowded, loop, net_ok, talk, sock, ended, connects>>
  BY <1>1 DEF RunAfter
<1>0. PICK te : te = [id |-> queue.next, ts |-> ts, cb |-> "user"]
  OBVIOUS
<1>3. te = [id |-> queue.next, ts |-> ts, cb |-> "user"] /\ te.cb = "user"
  BY <1>0
<1>4. TimersRight' /\ In(queue') = In(queue) \cup {te}
  BY <1>1, <1>2, <1>3, AddKeeps DEF ClientInv
<1>5. {t \in In(queue') : t.cb = "reconn"} \subseteq In(queue)
  BY <1>3, <1>4
<1> QED
  BY <1>2, <1>4, <1>5, ConnectionKeeps

\* del_timer, of a timer of the application.
LEMMA DeleteOwnKeeps ==
  ASSUME ClientInv, NEW id, Delete(id)
  PROVE  ClientInv'
<1>1. PICK i \in DOMAIN queue.lst : queue.lst[i].id = id
  BY DEF Delete
<1>2. /\ queue' = DelTimer(queue, queue.lst[i].id)
      /\ deleted' = deleted \cup {queue.lst[i].id}
      /\ crowded' = (crowded \/ Len(queue.lst) > 4)
      /\ UNCHANGED <<now, fired, loop, net_ok, talk, sock, ended, connects>>
  BY <1>1 DEF Delete
<1>3. TimersRight' /\ In(queue') \subseteq In(queue)
  BY <1>2, DeleteKeeps DEF ClientInv
<1>4. {t \in In(queue') : t.cb = "reconn"} \subseteq In(queue)
  BY <1>3
<1> QED
  BY <1>2, <1>3, <1>4, ConnectionKeeps

\* Time passes.
LEMMA TickKeeps ==
  ASSUME ClientInv, Tick
  PROVE  ClientInv'
<1>1. /\ now' = now + 1
      /\ UNCHANGED <<queue, fired, deleted, crowded, loop, net_ok, talk, sock, ended, connects>>
  BY DEF Tick
<1>2. TimersRight'
  <2>1. now' \in Nat
    BY <1>1 DEF ClientInv, TimersRight
  <2> QED
    BY <1>1, <2>1, TimingKeeps DEF ClientInv
<1>3. {t \in In(queue') : t.cb = "reconn"} \subseteq In(queue)
  BY <1>1
<1> QED
  BY <1>1, <1>2, <1>3, ConnectionKeeps

\* timer_queue_cb.
LEMMA TimerQueueCbKeeps ==
  ASSUME ClientInv, TimerQueueCb
  PROVE  ClientInv'
<1>1. PICK due : due = GetTimo(queue)
  OBVIOUS
<1>2. /\ Expired(queue, now) /\ queue' = due.queue
      /\ crowded' = (crowded \/ Len(queue.lst) > 4) /\ UNCHANGED <<now, deleted>>
      /\ fired' = fired \o [i \in DOMAIN due.fired |->
                              [id |-> due.fired[i].id, ts |-> due.fired[i].ts, at |-> now]]
      /\ IF \E i \in DOMAIN due.fired : due.fired[i].cb = "reconn"
         THEN DoConnect(loop) /\ UNCHANGED <<ibuf, cut>>
         ELSE UNCHANGED <<loop, net_ok, talk, sock, ended, connects>>
  BY <1>1 DEF TimerQueueCb
<1>3. fired' = fired \o Noted(due)
  BY <1>2 DEF Noted
<1>4. /\ TimersRight'
      /\ In(queue') \subseteq In(queue)
      /\ \A i \in DOMAIN due.fired : /\ due.fired[i] \in In(queue)
                                     /\ due.fired[i] \notin In(queue')
  BY <1>1, <1>2, <1>3, TimoKeeps DEF ClientInv
<1>5. CASE \E i \in DOMAIN due.fired : due.fired[i].cb = "reconn"
  <2>1. PICK t \in In(queue) : t.cb = "reconn" /\ t \notin In(queue')
    BY <1>4, <1>5
  <2>2. /\ sock.state = "failed" /\ Free(loop)
        /\ \A u \in In(queue) : u.cb = "reconn" => u = t
    BY <2>1 DEF ClientInv, RetryRight
  <2>9. /\ obuf \in Outgoing /\ sends \in Nat /\ ibuf \in Incoming /\ cut \in BOOLEAN
        /\ sock.got = <<>> /\ (cut \/ Whole(sock.got \o obuf))
    BY <2>2 DEF ClientInv, TalkRight
  <2>10. <<>> \o obuf = obuf
    BY <2>9 DEF Outgoing
  <2>3. cut \/ Whole(obuf)
    BY <2>9, <2>10
  <2>4. /\ cut' \in BOOLEAN /\ (cut' \/ Whole(obuf)) /\ ibuf' \in Incoming
    BY <1>2, <1>5, <2>3, <2>9
  <2>5. (Sock \in DOMAIN loop.ep => Sock \in DOMAIN loop.io) /\ ~OutWatched(loop)
    BY <2>2 DEF Free, OutWatched, Watches
  <2>6. DoConnect(loop)
    BY <1>2, <1>5
  <2>7. TalkRight' /\ HandledRight' /\ WatchRight' /\ sock'.state # "failed"
    BY <2>4, <2>5, <2>6, <2>9, DoConnectKeeps
  <2>8. RetryRight'
    <3>1. \A u \in In(queue') : u.cb # "reconn"
      BY <1>4, <2>1, <2>2
    <3> QED
      BY <2>7, <3>1 DEF RetryRight
  <2> QED
    BY <1>4, <2>7, <2>8 DEF ClientInv
<1>6. CASE ~ \E i \in DOMAIN due.fired : due.fired[i].cb = "reconn"
  <2>1. UNCHANGED <<loop, net_ok, talk, sock, ended, connects>>
    BY <1>2, <1>6
  <2>2. {t \in In(queue') : t.cb = "reconn"} \subseteq In(queue)
    BY <1>4
  <2> QED
    BY <1>4, <2>1, <2>2, ConnectionKeeps
<1> QED
  BY <1>5, <1>6

-----------------------------------------------------------------------------
(* the theorems *)

\* Every step of a client keeps its invariant.
LEMMA StepKeeps ==
  ASSUME ClientInv, [Next]_vars
  PROVE  ClientInv'
<1>1. CASE Network
  BY <1>1, ResolvesKeeps, ServerSendsKeeps, ServerClosesKeeps DEF Network
<1>2. CASE Client
  BY <1>2, ConnectedKeeps, RefusedKeeps, HandleReadKeeps, DispatchKeeps, NoCallbackKeeps,
     ReadEndsKeeps, HandleWriteKeeps, SendDataKeeps DEF Client
<1>3. CASE Timers
  BY <1>3, TimerQueueCbKeeps, TickKeeps, RunAfterKeeps, DeleteOwnKeeps DEF Timers
<1>4. CASE UNCHANGED vars
  <2>1. UNCHANGED <<loop, net_ok, talk, sock, ended, connects>>
    BY <1>4 DEF vars, talk
  <2>2. UNCHANGED <<now, queue, fired, deleted, crowded>>
    BY <1>4 DEF vars
  <2>3. TimersRight'
    BY <2>2, TimersKeep DEF ClientInv
  <2>4. {t \in In(queue') : t.cb = "reconn"} \subseteq In(queue)
    BY <2>2
  <2> QED
    BY <2>1, <2>3, <2>4, ConnectionKeeps
<1> QED
  BY <1>1, <1>2, <1>3, <1>4 DEF Next

\* The queue, the connection, what was handled and what is watched fit together in every
\* state: among other things a connection that failed has the one timer that tries again,
\* and no other connection has one.
THEOREM ClientIsRight == Spec => []ClientInv
<1>1. Init => ClientInv
  BY InitIsRight
<1>2. ClientInv /\ [Next]_vars => ClientInv'
  BY StepKeeps
<1> QED
  BY <1>1, <1>2, PTL DEF Spec

\* add_timer, del_timer and get_timo lose no timer, fire none twice or early, and keep the
\* positions and, as long as no timer has left more than four, the order of the heap.
THEOREM TimersStayInPlace == Spec => []TimersInPlace
<1>1. ClientInv => TimersInPlace
  BY DEF ClientInv, TimersRight
<1> QED
  BY <1>1, ClientIsRight, PTL

\* The invariant says that messages are whole.
LEMMA RightIsWhole ==
  ASSUME ClientInv
  PROVE  MessagesAreWhole
<1>1. WholeMessages
  <2>1. SUFFICES ASSUME ~cut PROVE WholeMessages
    BY DEF WholeMessages
  <2>2. PICK all : all = sock.got \o obuf
    OBVIOUS
  <2>3. /\ Whole(all) /\ sock.got \in Outgoing /\ obuf \in Outgoing
    BY <2>1, <2>2, SocketOf DEF ClientInv, TalkRight
  <2>4. PICK a \in Nat, b \in Nat : a = Len(sock.got) /\ b = Len(obuf)
    BY <2>3, UnitsOf
  <2>5. /\ all \in Outgoing /\ Len(all) = a + b /\ \A i \in 1..b : all[a + i] = obuf[i]
    BY <2>2, <2>3, <2>4, Join DEF Outgoing
  <2>6. obuf # <<>> => Last(obuf).j = Last(obuf).n
    <3>1. SUFFICES ASSUME obuf # <<>> PROVE Last(obuf).j = Last(obuf).n
      OBVIOUS
    <3>2. b \in 1..b /\ a + b # 0
      BY <2>3, <2>4, <3>1, UnitsOf
    <3>3. all # <<>> /\ all[Len(all)] = obuf[b]
      BY <2>5, <3>2, UnitsOf
    <3> QED
      BY <2>3, <2>4, <3>3 DEF Whole, Last
  <2> QED
    BY <2>2, <2>3, <2>6 DEF WholeMessages, Whole
<1>2. HandledWhole
  BY DEF ClientInv, HandledRight
<1>3. WriteHasData
  BY DEF ClientInv, WatchRight, WriteHasData, OutWatched
<1>4. LongBodiesLoseTheirEnd
  <2>1. PICK all : all = sock.got \o obuf
    OBVIOUS
  <2>2. sock.got \in Outgoing /\ obuf \in Outgoing
    BY SocketOf DEF ClientInv, TalkRight
  <2>3. all \in Seq(SentUnit)
    BY <2>1, <2>2, Join DEF Outgoing
  <2>4. \A i \in DOMAIN all : all[i] \in SentUnit
    BY <2>3
  <2> QED
    BY <2>1, <2>4 DEF LongBodiesLoseTheirEnd, SentUnit
<1> QED
  BY <1>1, <1>2, <1>3, <1>4 DEF MessagesAreWhole

\* However the wire cuts them and whenever a connection fails, messages cross the client
\* whole in both directions, but for the bytes of a sent body past the length of a head, and handle_write is called with something to write.
THEOREM ClientTalksWhole == Spec => []MessagesAreWhole
<1>1. ClientInv => MessagesAreWhole
  BY RightIsWhole
<1> QED
  BY <1>1, ClientIsRight, PTL

=============================================================================
