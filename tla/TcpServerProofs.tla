---------------------------- MODULE TcpServerProofs ----------------------------
(***************************************************************************)
(* Proofs about TcpServer for any scripts, message lengths, buffers,       *)
(* limits and descriptors: messages cross the server whole, a connection   *)
(* is read until it was answered, and losses have the causes named.        *)
(***************************************************************************)
EXTENDS TcpServer, SequenceTheorems, NaturalsInduction, WellFoundedInduction,
        FiniteSetTheorems, TLAPS

-----------------------------------------------------------------------------
(* numbers *)

\* A set that has 0 and the successor of each of its numbers has them all.
LEMMA Counting ==
  ASSUME NEW S, 0 \in S, \A n \in Nat : n \in S => n + 1 \in S
  PROVE  Nat \subseteq S
<1> DEFINE T == Nat \ S
<1>1. SUFFICES ASSUME T # {} PROVE FALSE
  OBVIOUS
<1> DEFINE R == OpToRel(<, Nat)
<1>0. IsWellFoundedOn(R, Nat) /\ T \subseteq Nat
  BY NatLessThanWellFounded, Zenon
<1>5. ASSUME NEW a \in Nat, NEW b \in Nat, a < b PROVE <<a, b>> \in R
  BY <1>5 DEF OpToRel
<1> HIDE DEF R
<1>2. PICK x \in T : \A y \in T : ~ (<<y, x>> \in R)
  BY <1>0, <1>1, WFMin
<1>3. x \in Nat /\ x # 0 /\ x - 1 \in Nat /\ x - 1 < x /\ x - 1 + 1 = x
  BY DEF T
<1>4. x - 1 \in T
  BY <1>3 DEF T
<1> QED
  BY <1>2, <1>3, <1>4, <1>5

\* A set of numbers has a least one.
LEMMA Least ==
  ASSUME NEW S, S \subseteq Nat, S # {}
  PROVE  \E m \in S : \A k \in S : m <= k
<1> DEFINE R == OpToRel(<, Nat)
<1>1. IsWellFoundedOn(R, Nat)
  BY NatLessThanWellFounded, Zenon
<1>2. ASSUME NEW a \in Nat, NEW b \in Nat, a < b PROVE <<a, b>> \in R
  BY <1>2 DEF OpToRel
<1> HIDE DEF R
<1>3. PICK m \in S : \A y \in S : ~ (<<y, m>> \in R)
  BY <1>1, WFMin
<1>4. ASSUME NEW k \in S PROVE m <= k
  <2>1. m \in Nat /\ k \in Nat /\ ~(k < m)
    BY <1>2, <1>3
  <2> QED
    BY <2>1
<1> QED
  BY <1>4

-----------------------------------------------------------------------------
(* flattened sequences *)

\* f[i] is the concatenation of the first i pieces: the recursion of FlattenSeq.
Adds(f, ss, n) ==
  f = [i \in 1..n |-> IF i = 1 THEN ss[i] ELSE f[i - 1] \o ss[i]]

\* The recursion has a solution.
LEMMA AddsExists ==
  ASSUME NEW ss, NEW n \in Nat
  PROVE  \E f : Adds(f, ss, n)
<1> DEFINE S == {k \in Nat : \E f : Adds(f, ss, k)}
<1>1. 0 \in S
  <2>1. Adds(<<>>, ss, 0)
    BY DEF Adds
  <2> QED
    BY <2>1
<1>2. ASSUME NEW k \in Nat, k \in S PROVE k + 1 \in S
  <2>1. PICK f : Adds(f, ss, k)
    BY <1>2
  <2> DEFINE g == [i \in 1..k + 1 |-> IF i \in 1..k THEN f[i]
                                     ELSE IF i = 1 THEN ss[i] ELSE f[i - 1] \o ss[i]]
  <2>2. g = [i \in 1..k + 1 |-> IF i = 1 THEN ss[i] ELSE g[i - 1] \o ss[i]]
    <3>1. ASSUME NEW i \in 1..k + 1 PROVE g[i] = IF i = 1 THEN ss[i] ELSE g[i - 1] \o ss[i]
      <4>1. CASE i \in 1..k
        <5>1. f[i] = IF i = 1 THEN ss[i] ELSE f[i - 1] \o ss[i]
          BY <2>1, <4>1 DEF Adds
        <5>2. i # 1 => i - 1 \in 1..k /\ i - 1 \in 1..k + 1
          BY <4>1
        <5> QED
          BY <4>1, <5>1, <5>2
      <4>2. CASE i = k + 1
        <5>1. i \notin 1..k /\ (i # 1 => i - 1 \in 1..k /\ i - 1 \in 1..k + 1)
          BY <4>2
        <5> QED
          BY <5>1
      <4> QED
        BY <4>1, <4>2
    <3> QED
      BY <3>1
  <2>3. Adds(g, ss, k + 1)
    BY <2>2 DEF Adds
  <2> QED
    BY <2>3
<1> QED
  BY <1>1, <1>2, Counting

\* FlattenSeq is the last value of a solution.
LEMMA FlattenIsSum ==
  ASSUME NEW ss, Len(ss) \in Nat \ {0}
  PROVE  \E f : Adds(f, ss, Len(ss)) /\ FlattenSeq(ss) = f[Len(ss)]
<1> DEFINE D(f) == f = [i \in 1..Len(ss) |-> IF i = 1 THEN ss[i] ELSE f[i - 1] \o ss[i]]
<1>1. \E f : D(f)
  BY AddsExists DEF Adds
<1>2. D(CHOOSE f : D(f))
  BY <1>1, Zenon
<1>3. FlattenSeq(ss) = (CHOOSE f : D(f))[Len(ss)]
  BY DEF FlattenSeq
<1> QED
  BY <1>2, <1>3, Zenon DEF Adds
\* Of no pieces.
LEMMA FlattenEmpty == FlattenSeq(<<>>) = <<>>
BY DEF FlattenSeq

\* One more piece comes at the end.
LEMMA FlattenAppend ==
  ASSUME NEW S, NEW ss \in Seq(S), NEW s \in S
  PROVE  FlattenSeq(Append(ss, s)) = IF ss = <<>> THEN s ELSE FlattenSeq(ss) \o s
<1> DEFINE more == Append(ss, s)
<1>1. /\ more \in Seq(S) /\ Len(more) = Len(ss) + 1 /\ Len(ss) \in Nat
      /\ more[Len(ss) + 1] = s
      /\ \A i \in 1..Len(ss) : more[i] = ss[i]
  OBVIOUS
<1> HIDE DEF more
<1>2. PICK g : Adds(g, more, Len(ss) + 1) /\ FlattenSeq(more) = g[Len(ss) + 1]
  BY <1>1, FlattenIsSum
<1>3. CASE ss = <<>>
  BY <1>1, <1>2, <1>3 DEF Adds, more
<1>4. CASE ss # <<>>
  <2>1. Len(ss) \in Nat \ {0}
    BY <1>4
  <2>2. PICK f : Adds(f, ss, Len(ss)) /\ FlattenSeq(ss) = f[Len(ss)]
    BY <2>1, FlattenIsSum
  <2> DEFINE Same == {k \in Nat : k \in 1..Len(ss) => f[k] = g[k]}
  <2>3. 0 \in Same
    OBVIOUS
  <2>4. ASSUME NEW k \in Nat, k \in Same PROVE k + 1 \in Same
    <3>1. SUFFICES ASSUME k + 1 \in 1..Len(ss) PROVE f[k + 1] = g[k + 1]
      OBVIOUS
    <3>2. f[k + 1] = IF k + 1 = 1 THEN ss[k + 1] ELSE f[k] \o ss[k + 1]
      <4>1. k + 1 \in 1..Len(ss) /\ k + 1 - 1 = k
        BY <3>1
      <4>2. \A i \in 1..Len(ss) : f[i] = IF i = 1 THEN ss[i] ELSE f[i - 1] \o ss[i]
        BY <2>2 DEF Adds
      <4> QED
        BY <4>1, <4>2
    <3>3. g[k + 1] = IF k + 1 = 1 THEN more[k + 1] ELSE g[k] \o more[k + 1]
      <4>1. k + 1 \in 1..Len(ss) + 1 /\ k + 1 - 1 = k
        BY <1>1, <3>1
      <4>2. \A i \in 1..Len(ss) + 1 : g[i] = IF i = 1 THEN more[i] ELSE g[i - 1] \o more[i]
        BY <1>2 DEF Adds
      <4> QED
        BY <4>1, <4>2
    <3>4. more[k + 1] = ss[k + 1] /\ (k + 1 # 1 => f[k] = g[k])
      BY <1>1, <2>4, <3>1
    <3> QED
      BY <3>2, <3>3, <3>4
  <2> HIDE DEF Same
  <2>5. Len(ss) \in Same
    BY <2>3, <2>4, <1>1, Counting
  <2>6. g[Len(ss)] = f[Len(ss)]
    BY <2>1, <2>5 DEF Same
  <2>7. g[Len(ss) + 1] = g[Len(ss)] \o more[Len(ss) + 1]
    <3>1. \A i \in 1..Len(ss) + 1 : g[i] = IF i = 1 THEN more[i] ELSE g[i - 1] \o more[i]
      BY <1>2 DEF Adds
    <3>2. PICK n \in Nat : n = Len(ss) + 1
      BY <2>1
    <3>3. n \in 1..Len(ss) + 1 /\ n # 1 /\ n - 1 = Len(ss)
      BY <2>1, <3>2
    <3>4. g[n] = g[n - 1] \o more[n]
      BY <3>1, <3>3
    <3> QED
      BY <3>2, <3>3, <3>4
  <2> QED
    BY <1>1, <1>2, <1>4, <2>2, <2>6, <2>7 DEF more
<1> QED
  BY <1>3, <1>4

\* The same, for pieces that are sequences.
LEMMA FlattenAppendSeq ==
  ASSUME NEW S, NEW ss \in Seq(Seq(S)), NEW s \in Seq(S)
  PROVE  FlattenSeq(Append(ss, s)) = FlattenSeq(ss) \o s
<1>1. CASE ss = <<>>
  <2>1. FlattenSeq(Append(ss, s)) = s
    BY <1>1, FlattenAppend
  <2> QED
    BY <1>1, <2>1, FlattenEmpty
<1>2. CASE ss # <<>>
  BY <1>2, FlattenAppend
<1> QED
  BY <1>1, <1>2

\* The first k pieces.
Upto(ss, k) == FlattenSeq(SubSeq(ss, 1, k))

Sums(ss) ==
  /\ Upto(ss, 0) = <<>>
  /\ \A k \in 1..Len(ss) : Upto(ss, k) = Upto(ss, k - 1) \o ss[k]
  /\ Upto(ss, Len(ss)) = FlattenSeq(ss)

\* Each piece continues those before it.
LEMMA UptoSteps ==
  ASSUME NEW S, NEW ss, ss \in Seq(Seq(S))
  PROVE  Sums(ss)
<1>1. Upto(ss, 0) = <<>>
  <2>1. SubSeq(ss, 1, 0) = <<>>
    OBVIOUS
  <2> QED
    BY <2>1, FlattenEmpty DEF Upto
<1>2. ASSUME NEW k \in 1..Len(ss) PROVE Upto(ss, k) = Upto(ss, k - 1) \o ss[k]
  <2>1. /\ SubSeq(ss, 1, k - 1) \in Seq(Seq(S)) /\ ss[k] \in Seq(S)
        /\ SubSeq(ss, 1, k) = Append(SubSeq(ss, 1, k - 1), ss[k])
    OBVIOUS
  <2> QED
    BY <2>1, FlattenAppendSeq DEF Upto
<1>3. SubSeq(ss, 1, Len(ss)) = ss
  OBVIOUS
<1> QED
  BY <1>1, <1>2, <1>3 DEF Upto, Sums

\* The piece after k.
LEMMA UptoNext ==
  ASSUME NEW ss, Sums(ss), NEW k \in Nat, k + 1 \in 1..Len(ss)
  PROVE  Upto(ss, k + 1) = Upto(ss, k) \o ss[k + 1]
<1>1. PICK n \in 1..Len(ss) : n = k + 1
  OBVIOUS
<1>2. n - 1 = k
  BY <1>1
<1>3. Upto(ss, n) = Upto(ss, n - 1) \o ss[n]
  BY DEF Sums
<1> QED
  BY <1>1, <1>2, <1>3

\* The first k pieces have the elements of the pieces.
LEMMA UptoType ==
  ASSUME NEW S, NEW ss, ss \in Seq(Seq(S))
  PROVE  \A k \in 0..Len(ss) : Upto(ss, k) \in Seq(S)
<1> DEFINE T == {k \in Nat : k \in 0..Len(ss) => Upto(ss, k) \in Seq(S)}
<1>0. Sums(ss)
  BY UptoSteps
<1>1. 0 \in T
  <2>1. <<>> \in Seq(S)
    OBVIOUS
  <2> QED
    BY <2>1, <1>0 DEF Sums
<1>2. ASSUME NEW k \in Nat, k \in T PROVE k + 1 \in T
  <2>1. SUFFICES ASSUME k + 1 \in 0..Len(ss) PROVE Upto(ss, k + 1) \in Seq(S)
    OBVIOUS
  <2>2. Upto(ss, k) \in Seq(S) /\ k + 1 \in 1..Len(ss)
    BY <1>2, <2>1
  <2>3. Upto(ss, k + 1) = Upto(ss, k) \o ss[k + 1]
    BY <1>0, <2>2, UptoNext
  <2>4. ss[k + 1] \in Seq(S)
    BY <2>2
  <2> HIDE DEF T
  <2> QED
    BY <2>2, <2>3, <2>4, ConcatProperties, Zenon
<1> HIDE DEF T
<1>3. Nat \subseteq T
  BY <1>1, <1>2, Counting
<1> QED
  BY <1>3 DEF T

\* So has the whole.
LEMMA FlattenType ==
  ASSUME NEW S, NEW ss \in Seq(Seq(S))
  PROVE  FlattenSeq(ss) \in Seq(S)
<1>1. Sums(ss)
  BY UptoSteps
<1>2. Upto(ss, Len(ss)) \in Seq(S)
  BY UptoType
<1> QED
  BY <1>1, <1>2 DEF Sums
\* s is where t begins.
Begins(s, t) == Len(s) <= Len(t) /\ \A j \in 1..Len(s) : t[j] = s[j]

\* The whole begins with the first k pieces.
LEMMA UptoIsPrefix ==
  ASSUME NEW S, NEW ss, ss \in Seq(Seq(S)), NEW k \in 0..Len(ss)
  PROVE  Begins(Upto(ss, k), FlattenSeq(ss))
<1> DEFINE T == {j \in Nat : k + j \in 0..Len(ss) => Begins(Upto(ss, k), Upto(ss, k + j))}
<1>0. Sums(ss) /\ Upto(ss, k) \in Seq(S) /\ k \in Nat /\ Len(ss) \in Nat
  BY UptoSteps, UptoType
<1>1. 0 \in T
  <2>1. k + 0 = k
    BY <1>0
  <2>2. Begins(Upto(ss, k), Upto(ss, k))
    BY <1>0 DEF Begins
  <2> QED
    BY <2>1, <2>2
<1>2. ASSUME NEW j \in Nat, j \in T PROVE j + 1 \in T
  <2>1. SUFFICES ASSUME k + (j + 1) \in 0..Len(ss)
                 PROVE  Begins(Upto(ss, k), Upto(ss, k + (j + 1)))
    BY <1>0
  <2>2. PICK n \in Nat : n = k + j
    BY <1>0
  <2>3. n \in 0..Len(ss) /\ n + 1 \in 1..Len(ss) /\ n + 1 = k + (j + 1)
    BY <1>0, <2>1, <2>2
  <2>4. Begins(Upto(ss, k), Upto(ss, n))
    BY <1>2, <2>2, <2>3
  <2>5. Upto(ss, n + 1) = Upto(ss, n) \o ss[n + 1]
    BY <1>0, <2>3, UptoNext
  <2>6. Upto(ss, n) \in Seq(S) /\ ss[n + 1] \in Seq(S)
    BY <2>3, UptoType
  <2>7. \A a \in Seq(S), b \in Seq(S), c \in Seq(S) : Begins(a, b) => Begins(a, b \o c)
    BY DEF Begins
  <2> QED
    BY <1>0, <2>3, <2>4, <2>5, <2>6, <2>7
<1> HIDE DEF T
<1>3. PICK j \in Nat : j = Len(ss) - k
  <2>1. k <= Len(ss)
    OBVIOUS
  <2>2. Len(ss) - k \in Nat
    BY <1>0, <2>1
  <2> QED
    BY <2>2
<1>4. j \in T
  BY <1>1, <1>2, Counting
<1>5. Begins(Upto(ss, k), Upto(ss, k + j)) /\ k + j = Len(ss)
  BY <1>0, <1>3, <1>4 DEF T
<1> QED
  BY <1>0, <1>5 DEF Sums

\* The length of the first k pieces: where the next one begins.
Place(ss, k) == Len(Upto(ss, k))

\* Piece k + 1 lies in the whole at its place.
LEMMA Pieces ==
  ASSUME NEW S, NEW ss, ss \in Seq(Seq(S)), NEW k \in Nat, k + 1 \in 1..Len(ss)
  PROVE  /\ Place(ss, k) \in Nat
         /\ Place(ss, k + 1) = Place(ss, k) + Len(ss[k + 1])
         /\ Place(ss, k + 1) <= Len(FlattenSeq(ss))
         /\ \A j \in 1..Len(ss[k + 1]) : FlattenSeq(ss)[Place(ss, k) + j] = ss[k + 1][j]
<1>1. k \in 0..Len(ss) /\ k + 1 \in 0..Len(ss) /\ ss[k + 1] \in Seq(S) /\ Len(ss[k + 1]) \in Nat
  OBVIOUS
<1>2. Upto(ss, k) \in Seq(S)
  BY <1>1, UptoType
<1>3. Sums(ss)
  BY UptoSteps
<1>4. Upto(ss, k + 1) = Upto(ss, k) \o ss[k + 1]
  BY <1>3, UptoNext
<1>5. Begins(Upto(ss, k + 1), FlattenSeq(ss))
  BY <1>1, UptoIsPrefix
<1> DEFINE a == Upto(ss, k)
           b == ss[k + 1]
<1> HIDE DEF a, b
<1>6. a \in Seq(S) /\ b \in Seq(S) /\ Len(a) \in Nat
  BY <1>1, <1>2 DEF a, b
<1>7. Len(a \o b) = Len(a) + Len(b) /\ \A j \in 1..Len(b) : (a \o b)[Len(a) + j] = b[j]
  BY <1>6
<1>8. \A j \in 1..Len(b) : Len(a) + j \in 1..Len(a \o b)
  BY <1>6
<1>9. \A j \in 1..Len(b) : FlattenSeq(ss)[Len(a) + j] = b[j]
  BY <1>4, <1>5, <1>7, <1>8 DEF Begins, a, b
<1> QED
  BY <1>4, <1>5, <1>6, <1>7, <1>9 DEF Begins, Place, a, b

\* The first piece is at the beginning, the last ends with the whole.
LEMMA PlaceEnds ==
  ASSUME NEW S, NEW ss, ss \in Seq(Seq(S))
  PROVE  Place(ss, 0) = 0 /\ Place(ss, Len(ss)) = Len(FlattenSeq(ss))
<1>1. Sums(ss)
  BY UptoSteps
<1> QED
  BY <1>1 DEF Sums, Place

-----------------------------------------------------------------------------
(* types *)

Unit == Nat \X Nat
Units == Seq(Unit)

ScriptsOrNone == Scripts \cup {<<>>}

Conn == [ibuf : Units, obuf : Units, head : Nat]
Sock == [script : ScriptsOrNone, sent : Nat, wire : Units, out : Units, closed : BOOLEAN]
Works == [ibuf : Units, obuf : Units, head : Nat, frames : Seq(Units), replies : Nat,
          spoilt : BOOLEAN, end : {"more", "wait", "clean", "abort"}]

\* Sequences of units and their cuts.
LEMMA Join ==
  ASSUME NEW s \in Units, NEW t \in Units
  PROVE  s \o t \in Units /\ Len(s \o t) = Len(s) + Len(t)
BY ConcatProperties, Zenon DEF Units

\* Concatenation is associative.
LEMMA JoinThree ==
  ASSUME NEW s \in Units, NEW t \in Units, NEW u \in Units
  PROVE  (s \o t) \o u = s \o (t \o u)
BY ConcatAssociative DEF Units

\* A head and the rest after it make the sequence.
LEMMA Cut ==
  ASSUME NEW s \in Units, NEW n \in 0..Len(s)
  PROVE  /\ SubSeq(s, 1, n) \in Units /\ Len(SubSeq(s, 1, n)) = n
         /\ SubSeq(s, n + 1, Len(s)) \in Units /\ Len(SubSeq(s, n + 1, Len(s))) = Len(s) - n
         /\ SubSeq(s, 1, n) \o SubSeq(s, n + 1, Len(s)) = s
<1>1. s \in Seq(Unit) /\ Len(s) \in Nat /\ n \in Nat
  BY DEF Units
<1>2. /\ SubSeq(s, 1, n) \in Seq(Unit) /\ Len(SubSeq(s, 1, n)) = n
      /\ SubSeq(s, n + 1, Len(s)) \in Seq(Unit) /\ Len(SubSeq(s, n + 1, Len(s))) = Len(s) - n
  BY <1>1
<1>3. SubSeq(s, 1, n) \o SubSeq(s, n + 1, Len(s)) = s
  <2>1. PICK l \in Nat : l = Len(s)
    BY <1>1
  <2>2. 1 \in 1..Len(s) + 1 /\ n \in 1 - 1..Len(s) /\ l \in n..Len(s)
    BY <1>1, <2>1
  <2>3. SubSeq(s, 1, n) \o SubSeq(s, n + 1, l) = SubSeq(s, 1, l)
    BY <1>1, <2>2, ConcatAdjacentSubSeq
  <2>4. SubSeq(s, 1, l) = s
    BY <1>1, <2>1
  <2> QED
    BY <2>1, <2>3, <2>4
<1> QED
  BY <1>2, <1>3 DEF Units

\* What scripts and their frames are.
LEMMA ScriptType ==
  ASSUME NEW script \in ScriptsOrNone
  PROVE  script \in Seq([cmd : {"known", "unknown"}, len : Nat])
<1>1. CASE script \in Scripts
  BY <1>1, ServerAssumption
<1>2. CASE script = <<>>
  BY <1>2
<1> QED
  BY <1>1, <1>2 DEF ScriptsOrNone

\* Frame k + 1 is the head and the payload that the script says.
LEMMA FramesType ==
  ASSUME NEW script \in ScriptsOrNone
  PROVE  /\ Frames(script) \in Seq(Units) /\ Len(Frames(script)) = Len(script)
         /\ Len(script) \in Nat
         /\ \A i \in 1..Len(script) :
              /\ script[i].len \in Nat
              /\ Frames(script)[i] = Frame(script, i)
              /\ Len(Frame(script, i)) = HeadLength + script[i].len
              /\ \A j \in 1..HeadLength + script[i].len : Frame(script, i)[j] = <<i, j>>
<1>1. script \in Seq([cmd : {"known", "unknown"}, len : Nat])
  BY ScriptType
<1>2. DOMAIN script = 1..Len(script) /\ Len(script) \in Nat
  BY <1>1
<1>3. ASSUME NEW i \in 1..Len(script)
      PROVE  /\ script[i].len \in Nat
             /\ Len(Frame(script, i)) = HeadLength + script[i].len
             /\ \A j \in 1..HeadLength + script[i].len : Frame(script, i)[j] = <<i, j>>
             /\ Frame(script, i) \in Units
  <2>1. script[i] \in [cmd : {"known", "unknown"}, len : Nat]
    BY <1>1, ElementOfSeq
  <2>2. script[i].len \in Nat /\ HeadLength \in Nat /\ HeadLength + script[i].len \in Nat
    BY <2>1, ServerAssumption
  <2>3. PICK n \in Nat : n = HeadLength + script[i].len
    BY <2>2
  <2>4. Frame(script, i) = [j \in 1..n |-> <<i, j>>]
    BY <2>3 DEF Frame
  <2>5. \A j \in 1..n : <<i, j>> \in Unit
    BY <1>2 DEF Unit
  <2> QED
    BY <2>2, <2>3, <2>4, <2>5 DEF Units
<1>4. Frames(script) = [i \in 1..Len(script) |-> Frame(script, i)]
  BY <1>2 DEF Frames
<1> QED
  BY <1>2, <1>3, <1>4

\* A stream is a sequence of units.
LEMMA StreamType ==
  ASSUME NEW script \in ScriptsOrNone
  PROVE  Stream(script) \in Units /\ Streams[script] = Stream(script)
<1>1. Frames(script) \in Seq(Seq(Unit))
  BY FramesType DEF Units
<1>2. Stream(script) \in Seq(Unit)
  BY <1>1, FlattenType DEF Stream
<1> QED
  BY <1>2 DEF Units, Streams, ScriptsOrNone

\* Where in its stream the next message of a script begins.
Position(script, k) == Place(Frames(script), k)

\* The units of message k + 1 in the stream.
LEMMA FramePlace ==
  ASSUME NEW script \in ScriptsOrNone, NEW k \in Nat, k + 1 \in 1..Len(script)
  PROVE  /\ Position(script, k) \in Nat
         /\ Position(script, k + 1) = Position(script, k) + HeadLength + script[k + 1].len
         /\ Position(script, k + 1) <= Len(Stream(script))
         /\ \A j \in 1..HeadLength + script[k + 1].len :
              Stream(script)[Position(script, k) + j] = <<k + 1, j>>
<1> DEFINE ss == Frames(script)
<1>1. ss \in Seq(Seq(Unit)) /\ Len(ss) = Len(script)
  BY FramesType DEF Units
<1>2. /\ script[k + 1].len \in Nat /\ HeadLength \in Nat
      /\ ss[k + 1] = Frame(script, k + 1)
      /\ Len(ss[k + 1]) = HeadLength + script[k + 1].len
      /\ \A j \in 1..HeadLength + script[k + 1].len : ss[k + 1][j] = <<k + 1, j>>
  BY FramesType, ServerAssumption
<1> HIDE DEF ss
<1>3. /\ Place(ss, k) \in Nat
      /\ Place(ss, k + 1) = Place(ss, k) + Len(ss[k + 1])
      /\ Place(ss, k + 1) <= Len(FlattenSeq(ss))
      /\ \A j \in 1..Len(ss[k + 1]) : FlattenSeq(ss)[Place(ss, k) + j] = ss[k + 1][j]
  <2>1. k + 1 \in 1..Len(ss) /\ ss \in Seq(Seq(Unit)) /\ k \in Nat
    BY <1>1
  <2> QED
    BY <2>1, Pieces
<1>4. /\ Stream(script) = FlattenSeq(ss)
      /\ Position(script, k) = Place(ss, k) /\ Position(script, k + 1) = Place(ss, k + 1)
  BY DEF Stream, Position, ss
<1>5. Place(ss, k + 1) = Place(ss, k) + HeadLength + script[k + 1].len
  BY <1>2, <1>3
<1>6. \A j \in 1..HeadLength + script[k + 1].len :
        FlattenSeq(ss)[Place(ss, k) + j] = <<k + 1, j>>
  BY <1>2, <1>3
<1> QED
  BY <1>3, <1>4, <1>5, <1>6

\* The first and the last message of a stream.
LEMMA FrameEnds ==
  ASSUME NEW script \in ScriptsOrNone
  PROVE  Position(script, 0) = 0 /\ Position(script, Len(script)) = Len(Stream(script))
<1>1. Frames(script) \in Seq(Seq(Unit)) /\ Len(Frames(script)) = Len(script)
  BY FramesType DEF Units
<1> QED
  BY <1>1, PlaceEnds DEF Stream, Position

\* One more reply.
LEMMA RepliesAdd ==
  ASSUME NEW n \in Nat
  PROVE  /\ ReplyUnits(n + 1) \in Units /\ Len(ReplyUnits(n + 1)) = HeadLength + ReplyLength
         /\ Replies(0) = <<>>
         /\ Replies(n) \in Units
         /\ Replies(n + 1) = Replies(n) \o ReplyUnits(n + 1)
<1>1. ASSUME NEW i \in Nat
      PROVE  ReplyUnits(i) \in Units /\ Len(ReplyUnits(i)) = HeadLength + ReplyLength
  <2>1. HeadLength + ReplyLength \in Nat
    BY ServerAssumption
  <2>2. PICK l \in Nat : l = HeadLength + ReplyLength
    BY <2>1
  <2>3. ReplyUnits(i) = [j \in 1..l |-> <<i, j>>]
    BY <2>2 DEF ReplyUnits
  <2>4. \A j \in 1..l : <<i, j>> \in Unit
    BY DEF Unit
  <2> QED
    BY <2>2, <2>3, <2>4 DEF Units
<1> DEFINE ss(k) == [i \in 1..k |-> ReplyUnits(i)]
<1>2. ASSUME NEW k \in Nat PROVE ss(k) \in Seq(Seq(Unit)) /\ Len(ss(k)) = k
  BY <1>1 DEF Units
<1>3. ss(n + 1) = Append(ss(n), ReplyUnits(n + 1))
  <2>1. \A i \in 1..n + 1 : Append(ss(n), ReplyUnits(n + 1))[i] = ReplyUnits(i)
    OBVIOUS
  <2>2. Len(Append(ss(n), ReplyUnits(n + 1))) = n + 1
    OBVIOUS
  <2> QED
    BY <2>1, <2>2
<1>4. ss(0) = <<>>
  OBVIOUS
<1>5. /\ Replies(0) = FlattenSeq(ss(0)) /\ Replies(n) = FlattenSeq(ss(n))
      /\ Replies(n + 1) = FlattenSeq(ss(n + 1))
  BY DEF Replies
<1> HIDE DEF ss
<1>6. ReplyUnits(n + 1) \in Seq(Unit)
  BY <1>1 DEF Units
<1>7. FlattenSeq(Append(ss(n), ReplyUnits(n + 1))) = FlattenSeq(ss(n)) \o ReplyUnits(n + 1)
  BY <1>2, <1>6, FlattenAppendSeq
<1>8. FlattenSeq(ss(n)) \in Seq(Unit)
  BY <1>2, FlattenType
<1>9. Replies(0) = <<>>
  BY <1>4, <1>5, FlattenEmpty
<1> QED
  <2>1. Replies(n + 1) = Replies(n) \o ReplyUnits(n + 1)
    BY <1>3, <1>5, <1>7
  <2>2. Replies(n) \in Units
    BY <1>5, <1>8 DEF Units
  <2> QED
    BY <1>1, <1>9, <2>1, <2>2

-----------------------------------------------------------------------------
(* the rounds of handle_read *)

\* The messages handled are those at the beginning of the script, and what has been
\* read and not handled is the stream between them and the units sent.
Tracks(script, frames, data, sent) ==
  /\ frames \in Seq(Units) /\ data \in Units /\ sent \in Nat
  /\ Len(frames) <= Len(script)
  /\ \A i \in 1..Len(frames) : frames[i] = Frame(script, i)
  /\ Position(script, Len(frames)) + Len(data) = sent
  /\ sent <= Len(Stream(script))
  /\ \A j \in 1..Len(data) : data[j] = Stream(script)[Position(script, Len(frames)) + j]

\* What Append does.
LEMMA AppendedTo ==
  ASSUME NEW S, NEW s \in Seq(S), NEW e \in S
  PROVE  /\ Append(s, e) \in Seq(S) /\ Len(Append(s, e)) = Len(s) + 1
         /\ Append(s, e)[Len(s) + 1] = e /\ Append(s, e) # <<>> /\ Last(Append(s, e)) = e
         /\ \A i \in 1..Len(s) : Append(s, e)[i] = s[i]
BY DEF Last

\* What a buffer that holds a head begins with is the next message of the script, and
\* if it is all there, taking it keeps track.
LEMMA NextFrame ==
  ASSUME NEW script \in ScriptsOrNone, NEW frames, NEW data, NEW sent,
         Tracks(script, frames, data, sent), Len(data) >= HeadLength
  PROVE  LET k == Len(frames) + 1
             size == HeadLength + script[k].len
         IN /\ k \in 1..Len(script)
            /\ data[1] = <<k, 1>>
            /\ script[k].len \in Nat
            /\ Len(data) >= size =>
                 Tracks(script, Append(frames, SubSeq(data, 1, size)),
                        SubSeq(data, size + 1, Len(data)), sent)
<1> DEFINE n == Len(frames)
           st == Stream(script)
           p == Position(script, n)
<1>0. HeadLength \in Nat \ {0}
  BY ServerAssumption
<1>1. /\ n \in Nat /\ frames \in Seq(Units) /\ data \in Units /\ Len(data) \in Nat /\ sent \in Nat
      /\ n <= Len(script) /\ Len(script) \in Nat
      /\ p + Len(data) = sent /\ sent <= Len(st)
      /\ \A j \in 1..Len(data) : data[j] = st[p + j]
      /\ \A i \in 1..n : frames[i] = Frame(script, i)
  BY ScriptType DEF Tracks, Units
<1>2. n + 1 \in 1..Len(script)
  <2>1. SUFFICES ASSUME n = Len(script) PROVE FALSE
    BY <1>1
  <2>2. p = Len(st) /\ Len(st) \in Nat
    BY <2>1, FrameEnds, StreamType DEF Units
  <2> QED
    BY <1>0, <1>1, <2>2
<1> DEFINE l == HeadLength + script[n + 1].len
<1>3. /\ p \in Nat /\ Position(script, n + 1) = p + l
      /\ \A j \in 1..l : st[p + j] = <<n + 1, j>>
  <2>1. script[n + 1].len \in Nat
    BY <1>2, FramesType
  <2>2. /\ p \in Nat /\ Position(script, n + 1) = p + HeadLength + script[n + 1].len
        /\ \A j \in 1..HeadLength + script[n + 1].len : st[p + j] = <<n + 1, j>>
    BY <1>1, <1>2, FramePlace
  <2> QED
    BY <1>0, <2>1, <2>2
<1>4. /\ script[n + 1].len \in Nat /\ l \in Nat /\ l >= HeadLength
      /\ Len(Frame(script, n + 1)) = l /\ Frame(script, n + 1) \in Units
      /\ \A j \in 1..l : Frame(script, n + 1)[j] = <<n + 1, j>>
  <2>1. /\ script[n + 1].len \in Nat /\ Len(Frame(script, n + 1)) = l
        /\ Frames(script) \in Seq(Units) /\ Frames(script)[n + 1] = Frame(script, n + 1)
        /\ Len(Frames(script)) = Len(script)
        /\ \A j \in 1..l : Frame(script, n + 1)[j] = <<n + 1, j>>
    BY <1>2, FramesType
  <2>2. Frame(script, n + 1) \in Units
    BY <1>2, <2>1, ElementOfSeq
  <2> QED
    BY <1>0, <2>1, <2>2
<1> HIDE DEF n, st, p, l
<1>5. data[1] = <<n + 1, 1>>
  <2>1. 1 \in 1..Len(data) /\ 1 \in 1..l
    BY <1>0, <1>1, <1>4
  <2>2. data[1] = st[p + 1] /\ st[p + 1] = <<n + 1, 1>>
    BY <1>1, <1>3, <2>1
  <2> QED
    BY <2>2
<1>6. ASSUME Len(data) >= l
      PROVE  Tracks(script, Append(frames, SubSeq(data, 1, l)), SubSeq(data, l + 1, Len(data)),
                    sent)
  <2> DEFINE head == SubSeq(data, 1, l)
             rest == SubSeq(data, l + 1, Len(data))
             more == Append(frames, head)
  <2>1. /\ head \in Units /\ Len(head) = l
        /\ \A j \in 1..l : head[j] = data[j]
    BY <1>1, <1>4, <1>6 DEF Units
  <2>2. head = Frame(script, n + 1)
    <3>1. \A j \in 1..l : head[j] = Frame(script, n + 1)[j]
      <4>1. SUFFICES ASSUME NEW j \in 1..l PROVE head[j] = Frame(script, n + 1)[j]
        OBVIOUS
      <4>2. j \in 1..Len(data)
        BY <1>1, <1>4, <1>6
      <4>3. head[j] = data[j] /\ data[j] = st[p + j]
        BY <1>1, <2>1, <4>2
      <4>4. st[p + j] = <<n + 1, j>> /\ Frame(script, n + 1)[j] = <<n + 1, j>>
        BY <1>3, <1>4
      <4> QED
        BY <4>3, <4>4
    <3> QED
      BY <1>4, <2>1, <3>1, SeqEqual DEF Units
  <2>3. /\ rest \in Units /\ Len(rest) = Len(data) - l
        /\ \A j \in 1..Len(data) - l : rest[j] = data[l + j]
    BY <1>1, <1>4, <1>6 DEF Units
  <2> HIDE DEF head, rest
  <2>4. /\ more \in Seq(Units) /\ Len(more) = n + 1 /\ more[n + 1] = head
        /\ \A i \in 1..n : more[i] = frames[i]
    BY <1>1, <2>1, AppendedTo DEF n
  <2> HIDE DEF more
  <2>5. \A i \in 1..n + 1 : more[i] = Frame(script, i)
    <3>1. SUFFICES ASSUME NEW i \in 1..n + 1 PROVE more[i] = Frame(script, i)
      OBVIOUS
    <3>2. CASE i = n + 1
      BY <2>2, <2>4, <3>2
    <3>3. CASE i # n + 1
      <4>1. i \in 1..n
        BY <1>1, <3>3
      <4> QED
        BY <1>1, <2>4, <4>1
    <3> QED
      BY <3>2, <3>3
  <2>6. Position(script, n + 1) + Len(rest) = sent
    BY <1>1, <1>3, <1>4, <1>6, <2>3
  <2>7. ASSUME NEW j \in 1..Len(rest) PROVE rest[j] = st[Position(script, n + 1) + j]
    <3>1. l + j \in 1..Len(data) /\ j \in 1..Len(data) - l
      BY <1>1, <1>4, <1>6, <2>3
    <3>2. rest[j] = data[l + j] /\ data[l + j] = st[p + (l + j)]
      BY <1>1, <2>3, <3>1
    <3>3. p + (l + j) = Position(script, n + 1) + j
      BY <1>3, <1>4, <3>1
    <3> QED
      BY <3>2, <3>3
  <2>8. Tracks(script, more, rest, sent)
    BY <1>1, <1>2, <2>3, <2>4, <2>5, <2>6, <2>7 DEF Tracks, st
  <2> QED
    BY <2>8 DEF head, rest, more
<1> QED
  BY <1>2, <1>4, <1>5, <1>6 DEF n, l

\* What the output of a connection is.
Answers(w, out) ==
  /\ w.head # 0 => w.spoilt
  /\ w.spoilt \/ out \o w.obuf = Replies(w.replies)

\* send_data loses units only with the mark of it.
LEMMA ReplyKeeps ==
  ASSUME NEW w \in Works, NEW out \in Units, Answers(w, out)
  PROVE  /\ Reply(w) \in Works /\ Answers(Reply(w), out)
         /\ Reply(w).ibuf = w.ibuf /\ Reply(w).frames = w.frames
         /\ Reply(w).end = w.end \/ Reply(w).spoilt
<1> DEFINE units == ReplyUnits(w.replies + 1)
           room == Capacity - Len(w.obuf)
           left == SubSeq(w.obuf \o SubSeq(units, 1, HeadLength), HeadLength + 1,
                          Len(w.obuf) + HeadLength)
<1>1. /\ w.replies \in Nat /\ w.obuf \in Units /\ w.ibuf \in Units /\ w.head \in Nat
      /\ w.spoilt \in BOOLEAN /\ w.frames \in Seq(Units)
      /\ w.end \in {"more", "wait", "clean", "abort"}
      /\ HeadLength \in Nat \ {0} /\ Capacity \in Nat /\ ReplyLength \in Nat
  BY ServerAssumption DEF Works
<1>2. /\ units \in Units /\ Len(units) = HeadLength + ReplyLength
      /\ Replies(w.replies) \in Units
      /\ Replies(w.replies + 1) = Replies(w.replies) \o units
  BY <1>1, RepliesAdd
<1>3. CASE w.obuf # <<>> /\ w.head # 0
  <2>1. Reply(w) = [w EXCEPT !.end = "abort"]
    BY <1>3 DEF Reply
  <2> QED
    BY <1>1, <1>3, <2>1 DEF Works, Answers
<1>4. CASE ~(w.obuf # <<>> /\ w.head # 0) /\ room < HeadLength
  <2>1. Reply(w) = w
    BY <1>4 DEF Reply
  <2> QED
    BY <2>1
<1>5. CASE ~(w.obuf # <<>> /\ w.head # 0) /\ ~(room < HeadLength) /\ room < Len(units)
  <2>1. Reply(w) = [w EXCEPT !.obuf = left, !.head = IF left = <<>> THEN 0 ELSE HeadLength,
                             !.spoilt = w.spoilt \/ w.obuf # <<>>]
    BY <1>5 DEF Reply
  <2>2. left \in Units /\ (w.obuf = <<>> => left = <<>>)
    <3>1. PICK h : h = SubSeq(units, 1, HeadLength)
      OBVIOUS
    <3>2. h \in Units /\ Len(h) = HeadLength
      <4> HIDE DEF units
      <4>1. HeadLength \in 0..Len(units)
        BY <1>1, <1>2
      <4> QED
        BY <1>2, <3>1, <4>1, Cut
    <3>3. PICK both : both = w.obuf \o h
      OBVIOUS
    <3>4. both \in Units /\ Len(both) = Len(w.obuf) + HeadLength
      BY <1>1, <3>2, <3>3, Join
    <3>5. left = SubSeq(both, HeadLength + 1, Len(both))
      BY <3>1, <3>3, <3>4
    <3>6. Len(w.obuf) \in Nat
      BY <1>1 DEF Units
    <3> HIDE DEF left, units, room
    <3>7. HeadLength \in 0..Len(both) /\ Len(both) - HeadLength = Len(w.obuf)
      BY <1>1, <3>4, <3>6
    <3>8. left \in Units /\ Len(left) = Len(w.obuf)
      BY <3>4, <3>5, <3>7, Cut
    <3>9. w.obuf = <<>> => left = <<>>
      BY <3>8, EmptySeq DEF Units
    <3> QED
      BY <3>8, <3>9
  <2> HIDE DEF left, units, room
  <2>3. PICK r : r = Reply(w)
    OBVIOUS
  <2>4. PICK hd \in Nat : hd = IF left = <<>> THEN 0 ELSE HeadLength
    BY <1>1
  <2>5. PICK sp \in BOOLEAN : sp = (w.spoilt \/ w.obuf # <<>>)
    BY <1>1
  <2>6. r = [w EXCEPT !.obuf = left, !.head = hd, !.spoilt = sp]
    BY <2>1, <2>3, <2>4, <2>5
  <2>7. /\ r \in Works /\ r.obuf = left /\ r.head = hd /\ r.spoilt = sp
        /\ r.ibuf = w.ibuf /\ r.frames = w.frames /\ r.end = w.end /\ r.replies = w.replies
    BY <2>2, <2>6 DEF Works
  <2>8. Answers(r, out)
    <3>1. CASE w.obuf = <<>>
      BY <1>1, <2>2, <2>4, <2>5, <2>7, <3>1 DEF Answers
    <3>2. CASE w.obuf # <<>>
      BY <1>1, <2>5, <2>7, <3>2 DEF Answers
    <3> QED
      BY <3>1, <3>2
  <2> QED
    BY <2>3, <2>7, <2>8
<1>6. CASE ~(w.obuf # <<>> /\ w.head # 0) /\ ~(room < HeadLength) /\ ~(room < Len(units))
  <2>1. Reply(w) = [w EXCEPT !.obuf = w.obuf \o units, !.head = 0, !.replies = w.replies + 1]
    BY <1>6 DEF Reply
  <2> HIDE DEF units, room
  <2>2. PICK ob \in Units : ob = w.obuf \o units
    BY <1>1, <1>2, Join
  <2>3. PICK r : r = Reply(w)
    OBVIOUS
  <2>4. PICK n \in Nat : n = w.replies + 1
    BY <1>1
  <2>5. r = [w EXCEPT !.obuf = ob, !.head = 0, !.replies = n]
    BY <2>1, <2>2, <2>3, <2>4
  <2>6. /\ r \in Works /\ r.obuf = ob /\ r.head = 0 /\ r.spoilt = w.spoilt
        /\ r.ibuf = w.ibuf /\ r.frames = w.frames /\ r.end = w.end /\ r.replies = n
    BY <2>5 DEF Works
  <2>7. w.spoilt \/ out \o ob = Replies(n)
    <3>1. SUFFICES ASSUME ~w.spoilt PROVE out \o ob = Replies(n)
      OBVIOUS
    <3>2. out \o w.obuf = Replies(w.replies)
      BY <3>1 DEF Answers
    <3>3. out \o (w.obuf \o units) = (out \o w.obuf) \o units
      BY <1>1, <1>2, JoinThree
    <3> QED
      BY <1>2, <2>2, <2>4, <3>2, <3>3
  <2> QED
    BY <2>3, <2>6, <2>7 DEF Answers
<1> QED
  BY <1>3, <1>4, <1>5, <1>6

\* What a work of handle_read is between two rounds.
WorkIsRight(w, script, sent, out) ==
  /\ w \in Works
  /\ Answers(w, out)
  /\ w.end = "abort" =>
       w.spoilt \/ (w.frames # <<>> /\ Len(Last(w.frames)) = HeadLength)
  /\ Tracks(script, w.frames, w.ibuf, sent)

\* A round that only ends the work.
LEMMA WorkEnds ==
  ASSUME NEW w, NEW script, NEW sent, NEW out, WorkIsRight(w, script, sent, out),
         NEW e \in {"wait", "clean"}
  PROVE  WorkIsRight([w EXCEPT !.end = e], script, sent, out)
<1>1. PICK v : v = [w EXCEPT !.end = e]
  OBVIOUS
<1>2. /\ v \in Works /\ v.ibuf = w.ibuf /\ v.obuf = w.obuf /\ v.head = w.head /\ v.end = e
      /\ v.frames = w.frames /\ v.replies = w.replies /\ v.spoilt = w.spoilt
  BY <1>1 DEF WorkIsRight, Works
<1>3. WorkIsRight(v, script, sent, out)
  BY <1>2 DEF WorkIsRight, Answers
<1> QED
  BY <1>1, <1>3

\* A round keeps what a work is, and takes from the buffer unless it is the last.
LEMMA MessageKeeps ==
  ASSUME NEW w, NEW script \in ScriptsOrNone, NEW sent, NEW out \in Units,
         WorkIsRight(w, script, sent, out), w.end = "more"
  PROVE  /\ WorkIsRight(Message(w, script), script, sent, out)
         /\ Message(w, script).end = "more" => Len(Message(w, script).ibuf) < Len(w.ibuf)
<1> DEFINE k == Len(w.frames) + 1
           len == script[k].len
           size == HeadLength + len
           frame == SubSeq(w.ibuf, 1, size)
           rest == SubSeq(w.ibuf, size + 1, Len(w.ibuf))
           after == [w EXCEPT !.ibuf = rest, !.frames = Append(w.frames, frame)]
<1>0. /\ w \in Works /\ w.ibuf \in Units /\ w.frames \in Seq(Units) /\ Len(w.ibuf) \in Nat
      /\ HeadLength \in Nat \ {0} /\ LengthLimit \in Nat
  BY ServerAssumption DEF WorkIsRight, Works, Units
<1>1. CASE Len(w.ibuf) < HeadLength
  <2>1. Message(w, script) = [w EXCEPT !.end = "wait"]
    BY <1>1 DEF Message
  <2>2. WorkIsRight([w EXCEPT !.end = "wait"], script, sent, out)
    BY WorkEnds
  <2>3. [w EXCEPT !.end = "wait"].end = "wait"
    BY <1>0 DEF Works
  <2> QED
    BY <2>1, <2>2, <2>3
<1>2. CASE ~(Len(w.ibuf) < HeadLength)
  <2>1. /\ k \in 1..Len(script) /\ w.ibuf[1] = <<k, 1>> /\ len \in Nat
        /\ Len(w.ibuf) >= size => Tracks(script, Append(w.frames, frame), rest, sent)
    <3>1. Len(w.ibuf) >= HeadLength /\ Tracks(script, w.frames, w.ibuf, sent)
      BY <1>0, <1>2 DEF WorkIsRight
    <3> QED
      BY <3>1, NextFrame
  <2>2. w.ibuf[1][1] = k
    BY <2>1
  <2>3. \/ Message(w, script) = [w EXCEPT !.end = "clean"]
        \/ Message(w, script) = [w EXCEPT !.end = "wait"]
        \/ /\ Len(w.ibuf) >= size
           /\ Message(w, script) =
                IF len = 0 /\ Len(w.ibuf) = HeadLength
                THEN [Reply(after) EXCEPT !.end = "abort"] ELSE Reply(after)
    BY <1>0, <1>2, <2>1, <2>2 DEF Message, Pop, IsHalf
  <2>4. ASSUME NEW e \in {"wait", "clean"}, Message(w, script) = [w EXCEPT !.end = e]
        PROVE  /\ WorkIsRight(Message(w, script), script, sent, out)
               /\ Message(w, script).end # "more"
    <3>1. WorkIsRight([w EXCEPT !.end = e], script, sent, out)
      BY WorkEnds
    <3>2. [w EXCEPT !.end = e].end = e
      BY <1>0 DEF Works
    <3> QED
      BY <2>4, <3>1, <3>2
  <2>5. CASE /\ Len(w.ibuf) >= size
             /\ Message(w, script) =
                  IF len = 0 /\ Len(w.ibuf) = HeadLength
                  THEN [Reply(after) EXCEPT !.end = "abort"] ELSE Reply(after)
    <3>1. size \in Nat /\ size >= HeadLength /\ size \in 0..Len(w.ibuf)
      BY <1>0, <2>1, <2>5
    <3>2. /\ frame \in Units /\ Len(frame) = size /\ rest \in Units
          /\ Len(rest) = Len(w.ibuf) - size
      <4> HIDE DEF size
      <4> QED
        BY <1>0, <3>1, Cut
    <3>3. Tracks(script, Append(w.frames, frame), rest, sent)
      BY <2>1, <2>5
    <3> HIDE DEF frame, rest
    <3>4. PICK fs : fs = Append(w.frames, frame)
      OBVIOUS
    <3>5. fs \in Seq(Units) /\ fs # <<>> /\ Last(fs) = frame
      BY <1>0, <3>2, <3>4, AppendedTo
    <3>6. PICK a : a = [w EXCEPT !.ibuf = rest, !.frames = fs]
      OBVIOUS
    <3>7. /\ a \in Works /\ a.ibuf = rest /\ a.obuf = w.obuf /\ a.head = w.head
          /\ a.frames = fs /\ a.replies = w.replies /\ a.spoilt = w.spoilt /\ a.end = "more"
      BY <1>0, <3>2, <3>5, <3>6 DEF Works
    <3>8. Answers(a, out)
      BY <3>7 DEF WorkIsRight, Answers
    <3>9. PICK r : r = Reply(a)
      OBVIOUS
    <3>10. /\ r \in Works /\ Answers(r, out) /\ r.ibuf = rest /\ r.frames = fs
           /\ r.end = "more" \/ r.spoilt
      BY <3>7, <3>8, <3>9, ReplyKeeps
    <3>11. WorkIsRight(r, script, sent, out)
      BY <3>3, <3>4, <3>10 DEF WorkIsRight
    <3>12. CASE len = 0 /\ Len(w.ibuf) = HeadLength
      <4>1. PICK v : v = [r EXCEPT !.end = "abort"]
        OBVIOUS
      <4>2. /\ v \in Works /\ v.ibuf = r.ibuf /\ v.obuf = r.obuf /\ v.head = r.head
            /\ v.frames = r.frames /\ v.replies = r.replies /\ v.spoilt = r.spoilt
            /\ v.end = "abort"
        BY <3>10, <4>1 DEF Works
      <4>3. Message(w, script) = v
        BY <2>5, <3>4, <3>6, <3>9, <3>12, <4>1
      <4>4. Len(Last(fs)) = HeadLength
        BY <1>0, <3>2, <3>5, <3>12
      <4>5. WorkIsRight(v, script, sent, out)
        BY <3>5, <3>10, <3>11, <4>2, <4>4 DEF WorkIsRight, Answers
      <4> QED
        BY <4>2, <4>3, <4>5
    <3>13. CASE ~(len = 0 /\ Len(w.ibuf) = HeadLength)
      <4>1. Message(w, script) = r
        BY <2>5, <3>4, <3>6, <3>9, <3>13
      <4>2. Len(rest) < Len(w.ibuf)
        BY <1>0, <3>1, <3>2
      <4> QED
        BY <3>10, <3>11, <4>1, <4>2
    <3> QED
      BY <3>12, <3>13
  <2> QED
    BY <2>3, <2>4, <2>5
<1> QED
  BY <1>1, <1>2

\* A round as the recursion of Messages states it.
After(v, script) == CHOOSE next \in {Round(last, script) : last \in {v}} : TRUE

\* f[i] is the work after i rounds.
RoundsOf(f, w, script, n) ==
  f = [i \in 0..n |-> IF i = 0 THEN w ELSE After(f[i - 1], script)]

\* The recursion of Messages has a solution.
LEMMA RoundsExist ==
  ASSUME NEW w, NEW script, NEW n \in Nat
  PROVE  \E f : RoundsOf(f, w, script, n)
<1> DEFINE S == {k \in Nat : \E f : RoundsOf(f, w, script, k)}
<1>1. 0 \in S
  <2>1. RoundsOf([i \in 0..0 |-> w], w, script, 0)
    BY DEF RoundsOf
  <2> QED
    BY <2>1
<1>2. ASSUME NEW k \in Nat, k \in S PROVE k + 1 \in S
  <2>1. PICK f : RoundsOf(f, w, script, k)
    BY <1>2
  <2> DEFINE g == [i \in 0..k + 1 |-> IF i \in 0..k THEN f[i] ELSE After(f[i - 1], script)]
  <2>2. ASSUME NEW i \in 0..k + 1 PROVE g[i] = IF i = 0 THEN w ELSE After(g[i - 1], script)
    <3>1. CASE i \in 0..k
      <4>1. f[i] = IF i = 0 THEN w ELSE After(f[i - 1], script)
        BY <2>1, <3>1 DEF RoundsOf
      <4>2. i # 0 => i - 1 \in 0..k /\ i - 1 \in 0..k + 1
        BY <3>1
      <4> QED
        BY <3>1, <4>1, <4>2
    <3>2. CASE i = k + 1
      <4>1. i \notin 0..k /\ i # 0 /\ i - 1 \in 0..k /\ i - 1 \in 0..k + 1
        BY <3>2
      <4> QED
        BY <4>1
    <3> QED
      BY <3>1, <3>2
  <2>3. RoundsOf(g, w, script, k + 1)
    BY <2>2 DEF RoundsOf
  <2> QED
    BY <2>3
<1>3. n \in S
  <2> HIDE DEF S
  <2> QED
    BY <1>1, <1>2, Counting
<1> QED
  BY <1>3

\* A choice from one element.
LEMMA OneRound ==
  ASSUME NEW script, NEW v
  PROVE  After(v, script) = Round(v, script)
<1>1. {Round(last, script) : last \in {v}} = {Round(v, script)}
  OBVIOUS
<1> QED
  BY <1>1 DEF After

\* The rounds of a call of handle_read keep what a work is, and the last of them ends it.
LEMMA MessagesKeep ==
  ASSUME NEW w, NEW script \in ScriptsOrNone, NEW sent, NEW out \in Units,
         WorkIsRight(w, script, sent, out)
  PROVE  /\ WorkIsRight(Messages(w, script), script, sent, out)
         /\ Messages(w, script).end # "more"
<1> DEFINE D(f) == f = [i \in 0..Len(w.ibuf) + 1 |->
                         IF i = 0 THEN w ELSE After(f[i - 1], script)]
           f == CHOOSE g : D(g)
<1>1. Len(w.ibuf) \in Nat /\ Len(w.ibuf) + 1 \in Nat
  BY DEF WorkIsRight, Works, Units
<1>2. D(f)
  <2>1. \E g : D(g)
    <3> HIDE DEF f
    <3>1. \E g : RoundsOf(g, w, script, Len(w.ibuf) + 1)
      BY <1>1, RoundsExist
    <3> QED
      BY <3>1, Zenon DEF RoundsOf
  <2> QED
    BY <2>1, Zenon
<1>3. Messages(w, script) = f[Len(w.ibuf) + 1]
  BY DEF Messages, After
<1> HIDE DEF f
<1>4. f[0] = w
  BY <1>1, <1>2
<1>5. ASSUME NEW i \in Nat, i + 1 \in 0..Len(w.ibuf) + 1 PROVE f[i + 1] = Round(f[i], script)
  <2>1. PICK n \in 0..Len(w.ibuf) + 1 : n = i + 1
    BY <1>5
  <2>2. n # 0 /\ n - 1 = i
    BY <2>1
  <2>3. f[n] = After(f[n - 1], script)
    BY <1>2, <2>1, <2>2
  <2> QED
    BY <2>1, <2>2, <2>3, OneRound
<1> HIDE DEF D
<1> DEFINE Good(v, i) ==
             /\ WorkIsRight(v, script, sent, out)
             /\ v.end = "more" => Len(v.ibuf) + i <= Len(w.ibuf)
           T == {i \in Nat : i \in 0..Len(w.ibuf) + 1 => Good(f[i], i)}
<1>6. 0 \in T
  <2>1. Good(w, 0)
    BY <1>1
  <2> HIDE DEF Good
  <2> QED
    BY <1>4, <2>1
<1>7. ASSUME NEW i \in Nat, i \in T PROVE i + 1 \in T
  <2>1. SUFFICES ASSUME i + 1 \in 0..Len(w.ibuf) + 1 PROVE Good(f[i + 1], i + 1)
    <3> HIDE DEF Good
    <3> QED
      OBVIOUS
  <2>2. Good(f[i], i)
    <3> HIDE DEF Good
    <3>1. i \in 0..Len(w.ibuf) + 1
      BY <1>1, <2>1
    <3> QED
      BY <1>7, <3>1
  <2>3. f[i + 1] = Round(f[i], script)
    BY <1>5, <2>1
  <2>4. PICK v : v = f[i]
    OBVIOUS
  <2>5. CASE v.end = "more"
    <3>1. f[i + 1] = Message(v, script)
      BY <2>3, <2>4, <2>5 DEF Round
    <3>2. WorkIsRight(v, script, sent, out) /\ Len(v.ibuf) + i <= Len(w.ibuf)
      BY <2>2, <2>4, <2>5
    <3>3. PICK m : m = Message(v, script)
      OBVIOUS
    <3>4. WorkIsRight(m, script, sent, out) /\ (m.end = "more" => Len(m.ibuf) < Len(v.ibuf))
      BY <2>5, <3>2, <3>3, MessageKeeps
    <3>5. Len(m.ibuf) \in Nat /\ Len(v.ibuf) \in Nat
      <4>1. m.ibuf \in Units /\ v.ibuf \in Units
        BY <3>2, <3>4 DEF WorkIsRight, Works
      <4> QED
        BY <4>1 DEF Units
    <3>6. m.end = "more" => Len(m.ibuf) + (i + 1) <= Len(w.ibuf)
      <4>1. PICK a \in Nat, b \in Nat, c \in Nat :
                 a = Len(m.ibuf) /\ b = Len(v.ibuf) /\ c = Len(w.ibuf)
        BY <1>1, <3>5
      <4>2. b + i <= c /\ (m.end = "more" => a < b)
        BY <3>2, <3>4, <4>1
      <4>3. b + i <= c /\ a < b => a + (i + 1) <= c
        OBVIOUS
      <4> QED
        BY <4>1, <4>2, <4>3, Zenon
    <3> QED
      BY <3>1, <3>3, <3>4, <3>6
  <2>6. CASE v.end # "more"
    <3>1. f[i + 1] = v
      BY <2>3, <2>4, <2>6 DEF Round
    <3> QED
      BY <2>2, <2>4, <2>6, <3>1
  <2> QED
    BY <2>5, <2>6
<1>8. PICK n \in Nat : n = Len(w.ibuf) + 1
  BY <1>1
<1>9. Good(f[n], n)
  <2>1. n \in T
    <3> HIDE DEF T
    <3> QED
      BY <1>6, <1>7, Counting
  <2> HIDE DEF Good
  <2> QED
    BY <1>8, <2>1
<1>10. Len(f[n].ibuf) \in Nat
  BY <1>9 DEF WorkIsRight, Works, Units
<1>11. f[n].end = "more" => Len(f[n].ibuf) + n <= Len(w.ibuf)
  BY <1>9
<1>12. ~(Len(f[n].ibuf) + n <= Len(w.ibuf))
  <2>1. PICK a \in Nat, b \in Nat : a = Len(f[n].ibuf) /\ b = Len(w.ibuf)
    BY <1>1, <1>10
  <2>2. n = b + 1
    BY <1>8, <2>1
  <2>3. ~(a + n <= b)
    BY <2>2
  <2> QED
    BY <2>1, <2>3, Zenon
<1>13. WorkIsRight(f[n], script, sent, out) /\ f[n].end # "more"
  BY <1>9, <1>11, <1>12
<1> QED
  BY <1>3, <1>8, <1>13

-----------------------------------------------------------------------------
(* the invariant *)

Types ==
  /\ used \subseteq Fds /\ aborted \in BOOLEAN /\ lost \in BOOLEAN
  /\ \A fd \in Live :
       /\ conn[fd] \in Conn
       /\ handled[fd] \in Seq(Units) /\ accepted[fd] \in Nat
  /\ DOMAIN handled = DOMAIN accepted /\ Live \subseteq DOMAIN handled
  /\ \A fd \in DOMAIN sock : sock[fd] \in Sock

\* As long as the acceptor has its reserve, descriptors are what they are taken for.
Descriptors ==
  ~lost => /\ Live \subseteq used /\ _reserve_fd \notin Live
           /\ accepting # "full" => _reserve_fd \in used
           /\ stolen = {}

\* The loop knows no descriptor that is not a connection's, and reads every connection
\* until its output has been written.
Registered ==
  ~lost => /\ DOMAIN loop.io \subseteq Live
           /\ \A fd \in Live \ flushed :
                /\ fd \in DOMAIN loop.io /\ "in" \in loop.io[fd]
                /\ fd \in DOMAIN loop.ep /\ "in" \in loop.ep[fd]

\* Output that does not begin at 0 has lost units.
HeadIsSpoilt == \A fd \in Live : conn[fd].head # 0 => fd \in spoiled

\* What callbacks got, what waits in the buffer and what waits in the socket are the
\* beginning of the script; what the peer got and what waits for it are the replies.
Crossing ==
  \A fd \in Live \cap DOMAIN sock :
    /\ Tracks(sock[fd].script, handled[fd], conn[fd].ibuf \o sock[fd].wire, sock[fd].sent)
    /\ fd \in spoiled \/ sock[fd].out \o conn[fd].obuf = Replies(accepted[fd])

\* Reactor threads set up no connection.
NoneWithThreads == _thd_pool => Live = {}

\* How descriptors, connections and their count belong together.
Counted ==
  /\ _max_conns \in Nat \ {0} /\ _conn_size = _max_conns + 2
  /\ _thd_pool \in BOOLEAN
  /\ _curr_conns \in Nat
  /\ IsFiniteSet(Live) /\ Cardinality(Live) <= _curr_conns
  /\ _thd_pool => _curr_conns = 0
  /\ ~_thd_pool => used \ {1} \subseteq Live
  /\ _reserve_fd = 1
  /\ accepting = "full" => Fds \ used \subseteq {1}

ServerInv ==
  /\ Types /\ Descriptors /\ Registered /\ HeadIsSpoilt /\ Crossing /\ NoneWithThreads
  /\ AbortHasCause

-----------------------------------------------------------------------------
(* functions that gain or lose a descriptor *)

\* What Without does.
LEMMA WithoutIs ==
  ASSUME NEW f, NEW fd
  PROVE  /\ DOMAIN Without(f, fd) = DOMAIN f \ {fd}
         /\ \A x \in DOMAIN f \ {fd} : Without(f, fd)[x] = f[x]
BY DEF Without

\* Descriptors are numbers, from the reserve on.
LEMMA FdsAreNumbers ==
  /\ IsFiniteSet(Fds) /\ Fds \subseteq Nat \ {0} /\ {1, 2} \subseteq Fds
  /\ \A fd \in Fds : \A n \in 1..fd : n \in Fds
<1>1. PICK n : n = Cardinality(Fds)
  OBVIOUS
<1>2. n \in Nat /\ n > 1 /\ Fds = 1..n /\ IsFiniteSet(Fds)
  BY <1>1, FS_CardinalityType, ServerAssumption
<1> QED
  BY <1>2

\* The descriptor the system hands out is a free one.
LEMMA NewIsFree ==
  ASSUME used \subseteq Fds, used # Fds
  PROVE  New \in Fds \ used /\ \A fd \in Fds \ used : New <= fd
<1>1. Fds \ used # {} /\ Fds \ used \subseteq Nat
  BY FdsAreNumbers
<1>2. \E m \in Fds \ used : \A k \in Fds \ used : m <= k
  BY <1>1, Least
<1> QED
  BY <1>2 DEF New, Lowest

-----------------------------------------------------------------------------
(* steps *)

\* The invariant holds before the first connection.
LEMMA InitIsRight == Init => ServerInv
<1> SUFFICES ASSUME Init PROVE ServerInv
  OBVIOUS
<1>1. Live = {} /\ DOMAIN sock = {} /\ DOMAIN handled = {} /\ DOMAIN accepted = {}
  BY DEF Init, Live
<1>2. DOMAIN loop.io = {}
  BY DEF Init, NoEvents
<1>3. Types
  BY <1>1, FdsAreNumbers DEF Init, Types
<1>4. Descriptors
  BY <1>1 DEF Init, Descriptors
<1> QED
  BY <1>1, <1>2, <1>3, <1>4 DEF Init, ServerInv, Registered, HeadIsSpoilt, Crossing,
     NoneWithThreads, AbortHasCause

\* The cause of an abort is there as long as the server has aborted.
LEMMA CauseStays ==
  ASSUME AbortHasCause,
         \/ aborted' = FALSE
         \/ UNCHANGED <<_thd_pool, _conn_size, used, _curr_conns, conn, aborted, handled, spoiled>>
  PROVE  AbortHasCause'
<1>1. CASE aborted' = FALSE
  BY <1>1 DEF AbortHasCause
<1>2. CASE UNCHANGED <<_thd_pool, _conn_size, used, _curr_conns, conn, aborted, handled, spoiled>>
  BY <1>2 DEF AbortHasCause, SlotsRunOut, Live
<1> QED
  BY <1>1, <1>2

\* Steps of peers, and of the acceptor that set up no connection.
LEMMA QuietKeeps ==
  ASSUME ServerInv,
         \/ PeerConnects \/ PeerGivesUp \/ BeginAccept \/ OverLimit \/ EndAccept \/ MessageComes
         \/ TurnAway \/ UNCHANGED vars
  PROVE  ServerInv'
<1>1. UNCHANGED <<_thd_pool, conn, sock, loop, aborted, handled, accepted, flushed, spoiled,
                 stolen>>
  BY DEF PeerConnects, PeerGivesUp, BeginAccept, OverLimit, EndAccept, MessageComes, TurnAway,
     vars, config, history
<1>2. /\ used' \subseteq Fds /\ used \subseteq used' /\ lost' \in BOOLEAN /\ (lost => lost')
      /\ ~lost' => /\ _reserve_fd' \notin Live
                   /\ accepting' # "full" => _reserve_fd' \in used'
  <2>1. CASE TurnAway
    <3>1. New \in Fds \ used
      BY <2>1, NewIsFree DEF ServerInv, Types, TurnAway, Given
    <3> QED
      BY <2>1, <3>1 DEF TurnAway, Given, ServerInv, Types, Descriptors
  <2>2. CASE EndAccept
    BY <2>2 DEF EndAccept, ServerInv, Types, Descriptors, config
  <2>3. CASE BeginAccept
    BY <2>3 DEF BeginAccept, Loop, ServerInv, Types, Descriptors, config
  <2>4. CASE PeerConnects \/ PeerGivesUp \/ OverLimit \/ MessageComes \/ UNCHANGED vars
    <3>1. UNCHANGED <<used, _reserve_fd, accepting, lost>>
      BY <2>4 DEF PeerConnects, PeerGivesUp, OverLimit, MessageComes, vars, config
    <3> QED
      BY <3>1 DEF ServerInv, Types, Descriptors
  <2> QED
    BY <2>1, <2>2, <2>3, <2>4
<1>3. Types' /\ Descriptors'
  BY <1>1, <1>2 DEF ServerInv, Types, Descriptors, Live
<1>4. Registered'
  BY <1>1, <1>2 DEF ServerInv, Registered, Live
<1>5. HeadIsSpoilt' /\ NoneWithThreads' /\ AbortHasCause'
  <2>1. \/ aborted' = FALSE
        \/ UNCHANGED <<_thd_pool, _conn_size, used, _curr_conns, conn, aborted, handled, spoiled>>
    <3>1. CASE BeginAccept \/ OverLimit \/ EndAccept \/ TurnAway
      BY <1>1, <3>1 DEF BeginAccept, Loop, OverLimit, EndAccept, TurnAway, Given, ServerInv, Types
    <3>2. CASE PeerConnects \/ PeerGivesUp \/ MessageComes \/ UNCHANGED vars
      BY <1>1, <3>2 DEF PeerConnects, PeerGivesUp, MessageComes, vars, config
    <3> QED
      BY <3>1, <3>2
  <2>2. AbortHasCause'
    BY <2>1, CauseStays DEF ServerInv
  <2> QED
    BY <1>1, <2>2 DEF ServerInv, HeadIsSpoilt, NoneWithThreads, Live
<1>6. Crossing'
  BY <1>1 DEF ServerInv, Crossing, Live
<1> QED
  BY <1>3, <1>4, <1>5, <1>6 DEF ServerInv

\* accept hands the socket to a loop.
LEMMA HandOverKeeps ==
  ASSUME ServerInv, HandOver
  PROVE  ServerInv'
<1>1. /\ UNCHANGED <<_thd_pool, _reserve_fd, accepting, conn, loop, aborted, handled, accepted,
                     flushed, spoiled, lost, stolen>>
      /\ used' = used \cup {New} /\ ~aborted
  BY DEF HandOver, Given, config, history
<1>2. PICK script \in ScriptsNow : sock' = With(sock, New, Socket(script))
  BY DEF HandOver
<1>3. New \in Fds \ used
  BY NewIsFree DEF ServerInv, Types, HandOver, Given
<1>4. Socket(script) \in Sock
  BY DEF ScriptsNow, Socket, Sock, ScriptsOrNone, Units
<1>5. \A fd \in DOMAIN sock' : sock'[fd] \in Sock
  <2>1. /\ DOMAIN sock' = DOMAIN sock \cup {New} /\ sock'[New] = Socket(script)
        /\ \A x \in DOMAIN sock : x # New => sock'[x] = sock[x]
    <3>1. PICK f, g, fd, v : f = sock /\ g = sock' /\ fd = New /\ v = Socket(script)
      OBVIOUS
    <3>2. g = With(f, fd, v)
      BY <1>2, <3>1
    <3>3. /\ DOMAIN g = DOMAIN f \cup {fd} /\ g[fd] = v
          /\ \A x \in DOMAIN f : x # fd => g[x] = f[x]
      BY <3>2 DEF With
    <3> QED
      BY <3>1, <3>3
  <2> QED
    BY <1>4, <2>1 DEF ServerInv, Types
<1>6. Live = {}
  BY DEF HandOver, ServerInv, NoneWithThreads
<1>7. Types' /\ Descriptors'
  BY <1>1, <1>3, <1>5, <1>6 DEF ServerInv, Types, Descriptors, Live
<1>8. Registered'
  BY <1>1 DEF ServerInv, Registered, Live
<1>9. HeadIsSpoilt' /\ NoneWithThreads' /\ AbortHasCause'
  <2>1. AbortHasCause'
    BY <1>1, CauseStays DEF ServerInv, Types
  <2> QED
    BY <1>1, <2>1 DEF ServerInv, HeadIsSpoilt, NoneWithThreads, Live
<1>10. Crossing'
  BY <1>1, <1>6 DEF Crossing, Live
<1> QED
  BY <1>7, <1>8, <1>9, <1>10 DEF ServerInv

\* accept finds no free descriptor.
LEMMA NoDescriptorKeeps ==
  ASSUME ServerInv, NoDescriptor
  PROVE  ServerInv'
<1>1. /\ UNCHANGED <<_thd_pool, _reserve_fd, conn, aborted, handled, accepted, flushed, spoiled,
                     lost>>
      /\ ~aborted /\ accepting' = "full" /\ used' = used \ {_reserve_fd}
      /\ loop' = Closed(loop, _reserve_fd) /\ sock' = Without(sock, _reserve_fd)
      /\ stolen' = IF _reserve_fd \in Live THEN stolen \cup {_reserve_fd} ELSE stolen
  BY DEF NoDescriptor, config, history
<1>2. DOMAIN sock' \subseteq DOMAIN sock /\ \A fd \in DOMAIN sock' : sock'[fd] = sock[fd]
  <2>1. /\ DOMAIN sock' = DOMAIN sock \ {_reserve_fd}
        /\ \A x \in DOMAIN sock \ {_reserve_fd} : sock'[x] = sock[x]
    BY <1>1, WithoutIs
  <2> QED
    BY <2>1
<1>3. Types' /\ Descriptors'
  BY <1>1, <1>2 DEF ServerInv, Types, Descriptors, Live
<1>4. Registered'
  <2>1. SUFFICES ASSUME ~lost
                 PROVE  /\ DOMAIN loop'.io \subseteq Live
                        /\ \A fd \in Live \ flushed :
                             /\ fd \in DOMAIN loop'.io /\ "in" \in loop'.io[fd]
                             /\ fd \in DOMAIN loop'.ep /\ "in" \in loop'.ep[fd]
    BY <1>1 DEF Registered, Live
  <2>2. _reserve_fd \notin Live
    BY <2>1 DEF ServerInv, Descriptors
  <2>3. loop'.io = loop.io /\ loop'.ep = Without(loop.ep, _reserve_fd)
    BY <1>1 DEF Closed
  <2>4. \A fd \in DOMAIN loop.ep :
          fd # _reserve_fd => fd \in DOMAIN loop'.ep /\ loop'.ep[fd] = loop.ep[fd]
    <3>1. PICK f, g, fd : f = loop.ep /\ g = loop'.ep /\ fd = _reserve_fd
      OBVIOUS
    <3>2. g = Without(f, fd)
      BY <2>3, <3>1
    <3>3. DOMAIN g = DOMAIN f \ {fd} /\ \A x \in DOMAIN f \ {fd} : g[x] = f[x]
      BY <3>2, WithoutIs
    <3> QED
      BY <3>1, <3>3
  <2> QED
    BY <2>1, <2>2, <2>3, <2>4 DEF ServerInv, Registered
<1>5. HeadIsSpoilt' /\ NoneWithThreads' /\ AbortHasCause'
  <2>1. AbortHasCause'
    BY <1>1, CauseStays DEF ServerInv, Types
  <2> QED
    BY <1>1, <2>1 DEF ServerInv, HeadIsSpoilt, NoneWithThreads, Live
<1>6. Crossing'
  BY <1>1, <1>2 DEF ServerInv, Crossing, Live
<1> QED
  BY <1>3, <1>4, <1>5, <1>6 DEF ServerInv

\* A new connection begins with nothing: no message, no reply.
LEMMA TracksNothing ==
  ASSUME NEW script \in ScriptsOrNone
  PROVE  Tracks(script, <<>>, <<>> \o <<>>, 0) /\ <<>> \o <<>> = Replies(0)
<1>1. <<>> \o <<>> = <<>> /\ Len(<<>>) = 0 /\ <<>> \in Units /\ <<>> \in Seq(Units)
  BY DEF Units
<1>2. Position(script, 0) = 0
  BY FrameEnds
<1>3. Len(script) \in Nat /\ Stream(script) \in Seq(Unit)
  BY FramesType, StreamType DEF Units
<1>4. Tracks(script, <<>>, <<>>, 0)
  BY <1>1, <1>2, <1>3 DEF Tracks
<1>5. Replies(0) = <<>>
  BY RepliesAdd
<1> QED
  BY <1>1, <1>4, <1>5

\* The connection callback registers the descriptor.
LEMMA SetUpKeeps ==
  ASSUME ServerInv, SetUp
  PROVE  ServerInv'
<1>1. /\ UNCHANGED <<_thd_pool, _reserve_fd, accepting, aborted, lost, stolen>>
      /\ used' = used \cup {New} /\ ~aborted /\ accepting = "free" /\ ~_thd_pool
      /\ flushed' = flushed \ {New} /\ spoiled' = spoiled \ {New}
  BY DEF SetUp, Given, config
<1>2. PICK script \in ScriptsNow : sock' = With(sock, New, Socket(script))
  BY DEF SetUp
<1>3. New \in Fds \ used
  BY NewIsFree DEF ServerInv, Types, SetUp, Given
<1>4. PICK fd : fd = New
  OBVIOUS
<1>5. script \in ScriptsOrNone /\ Socket(script) \in Sock
  BY DEF ScriptsNow, Socket, Sock, ScriptsOrNone, Units
<1> DEFINE none == [ibuf |-> <<>>, obuf |-> <<>>, head |-> 0]
<1>6. none \in Conn
  BY DEF Conn, Units
<1>7. /\ DOMAIN sock' = DOMAIN sock \cup {fd} /\ sock'[fd] = Socket(script)
      /\ \A x \in DOMAIN sock : x # fd => sock'[x] = sock[x]
  BY <1>2, <1>4 DEF With
<1>8. /\ Live' = Live \cup {fd} /\ conn'[fd] = none
      /\ \A x \in Live : x # fd => conn'[x] = conn[x]
  BY <1>4 DEF With, SetUp, Live
<1>9. /\ DOMAIN handled' = DOMAIN handled \cup {fd} /\ handled'[fd] = <<>>
      /\ \A x \in DOMAIN handled : x # fd => handled'[x] = handled[x]
  BY <1>4 DEF With, SetUp
<1>10. /\ DOMAIN accepted' = DOMAIN accepted \cup {fd} /\ accepted'[fd] = 0
       /\ \A x \in DOMAIN accepted : x # fd => accepted'[x] = accepted[x]
  BY <1>4 DEF With, SetUp
<1>11. /\ none.ibuf = <<>> /\ none.obuf = <<>> /\ none.head = 0
       /\ Socket(script).script = script /\ Socket(script).sent = 0
       /\ Socket(script).wire = <<>> /\ Socket(script).out = <<>>
  BY DEF Socket
<1> HIDE DEF none
<1>12. Types'
  <2>1. \A x \in Live' : /\ conn'[x] \in Conn
                         /\ handled'[x] \in Seq(Units) /\ accepted'[x] \in Nat
    <3>1. SUFFICES ASSUME NEW x \in Live'
                   PROVE  /\ conn'[x] \in Conn
                          /\ handled'[x] \in Seq(Units) /\ accepted'[x] \in Nat
      OBVIOUS
    <3>2. CASE x = fd
      BY <1>6, <1>8, <1>9, <1>10, <3>2
    <3>3. CASE x # fd
      <4>1. x \in Live /\ x \in DOMAIN handled /\ x \in DOMAIN accepted
        BY <1>8, <3>3 DEF ServerInv, Types
      <4> QED
        BY <1>8, <1>9, <1>10, <3>3, <4>1 DEF ServerInv, Types
    <3> QED
      BY <3>2, <3>3
  <2>2. \A x \in DOMAIN sock' : sock'[x] \in Sock
    BY <1>5, <1>7 DEF ServerInv, Types
  <2>3. used' \subseteq Fds
    BY <1>1, <1>3 DEF ServerInv, Types
  <2>4. DOMAIN handled' = DOMAIN accepted' /\ Live' \subseteq DOMAIN handled'
    BY <1>8, <1>9, <1>10 DEF ServerInv, Types
  <2>5. aborted' \in BOOLEAN /\ lost' \in BOOLEAN
    BY <1>1 DEF ServerInv, Types
  <2> QED
    BY <2>1, <2>2, <2>3, <2>4, <2>5 DEF Types
<1>13. Descriptors'
  <2>1. SUFFICES ASSUME ~lost
                 PROVE  /\ Live' \subseteq used' /\ _reserve_fd \notin Live'
                        /\ _reserve_fd \in used' /\ stolen = {}
    BY <1>1 DEF Descriptors
  <2> QED
    BY <1>1, <1>3, <1>4, <1>8, <2>1 DEF ServerInv, Descriptors
<1>14. Registered'
  <2>1. SUFFICES ASSUME ~lost
                 PROVE  /\ DOMAIN loop'.io \subseteq Live'
                        /\ \A x \in Live' \ flushed' :
                             /\ x \in DOMAIN loop'.io /\ "in" \in loop'.io[x]
                             /\ x \in DOMAIN loop'.ep /\ "in" \in loop'.ep[x]
    BY <1>1 DEF Registered
  <2>2. fd \notin DOMAIN loop.io
    BY <1>3, <1>4, <2>1 DEF ServerInv, Descriptors, Registered
  <2>3. loop' = [io |-> With(loop.io, fd, {"in"}), ep |-> With(loop.ep, fd, {"in"})]
    BY <1>4, <2>2 DEF SetUp, Watch
  <2>4. loop'.io = With(loop.io, fd, {"in"}) /\ loop'.ep = With(loop.ep, fd, {"in"})
    BY <2>3
  <2>5. /\ DOMAIN loop'.io = DOMAIN loop.io \cup {fd} /\ loop'.io[fd] = {"in"}
        /\ \A x \in DOMAIN loop.io : x # fd => loop'.io[x] = loop.io[x]
    BY <2>4 DEF With
  <2>6. /\ DOMAIN loop'.ep = DOMAIN loop.ep \cup {fd} /\ loop'.ep[fd] = {"in"}
        /\ \A x \in DOMAIN loop.ep : x # fd => loop'.ep[x] = loop.ep[x]
    BY <2>4 DEF With
  <2> QED
    BY <1>1, <1>4, <1>8, <2>1, <2>5, <2>6 DEF ServerInv, Registered
<1>15. HeadIsSpoilt' /\ NoneWithThreads' /\ AbortHasCause'
  <2>1. HeadIsSpoilt'
    BY <1>1, <1>4, <1>8, <1>11 DEF ServerInv, HeadIsSpoilt
  <2> QED
    BY <1>1, <2>1 DEF NoneWithThreads, AbortHasCause
<1>16. Crossing'
  <2>1. SUFFICES ASSUME NEW x \in Live' \cap DOMAIN sock'
                 PROVE  /\ Tracks(sock'[x].script, handled'[x], conn'[x].ibuf \o sock'[x].wire,
                                  sock'[x].sent)
                        /\ x \in spoiled' \/ sock'[x].out \o conn'[x].obuf = Replies(accepted'[x])
    BY DEF Crossing
  <2>2. CASE x = fd
    BY <1>5, <1>7, <1>8, <1>9, <1>10, <1>11, <2>2, TracksNothing
  <2>3. CASE x # fd
    <3>1. x \in Live /\ x \in DOMAIN sock /\ x \in DOMAIN handled /\ x \in DOMAIN accepted
      BY <1>7, <1>8, <2>3 DEF ServerInv, Types
    <3>2. /\ conn'[x] = conn[x] /\ sock'[x] = sock[x] /\ handled'[x] = handled[x]
          /\ accepted'[x] = accepted[x] /\ (x \in spoiled => x \in spoiled')
      BY <1>1, <1>4, <1>7, <1>8, <1>9, <1>10, <2>3, <3>1
    <3> QED
      BY <3>1, <3>2 DEF ServerInv, Crossing
  <2> QED
    BY <2>2, <2>3
<1> QED
  BY <1>12, <1>13, <1>14, <1>15, <1>16 DEF ServerInv

\* What arrives continues the stream.
LEMMA TracksMore ==
  ASSUME NEW script \in ScriptsOrNone, NEW frames, NEW ibuf \in Units, NEW wire \in Units, NEW sent,
         Tracks(script, frames, ibuf \o wire, sent),
         NEW n \in sent + 1..Len(Stream(script))
  PROVE  LET more == SubSeq(Stream(script), sent + 1, n)
         IN wire \o more \in Units /\ n \in Nat /\ Tracks(script, frames, ibuf \o (wire \o more), n)
<1> DEFINE st == Stream(script)
           p == Position(script, Len(frames))
<1>1. /\ frames \in Seq(Units) /\ ibuf \o wire \in Units /\ sent \in Nat
      /\ Len(frames) <= Len(script)
      /\ \A i \in 1..Len(frames) : frames[i] = Frame(script, i)
      /\ p + Len(ibuf \o wire) = sent /\ sent <= Len(st)
      /\ \A j \in 1..Len(ibuf \o wire) : (ibuf \o wire)[j] = st[p + j]
  BY DEF Tracks
<1>2. st \in Units /\ Len(st) \in Nat
  BY StreamType DEF Units
<1>3. p \in Nat
  <2>1. Frames(script) \in Seq(Seq(Unit)) /\ Len(frames) \in 0..Len(Frames(script))
    BY <1>1, FramesType DEF Units
  <2>2. Upto(Frames(script), Len(frames)) \in Seq(Unit)
    BY <2>1, UptoType
  <2> QED
    BY <2>2 DEF Position, Place
<1> HIDE DEF st, p
<1>4. PICK data : data = ibuf \o wire
  OBVIOUS
<1>5. PICK more : more = SubSeq(st, sent + 1, n)
  OBVIOUS
<1>6. n \in Nat /\ sent < n /\ n <= Len(st)
  BY <1>1, <1>2 DEF st
<1>7. /\ more \in Units /\ Len(more) = n - sent
      /\ \A j \in 1..n - sent : more[j] = st[sent + j]
  <2>1. st \in Seq(Unit)
    BY <1>2 DEF Units
  <2>2. \A i \in sent + 1..n : st[i] \in Unit
    BY <1>1, <1>2, <1>6, <2>1
  <2>3. sent + 1 \in Int /\ n \in Int /\ n - (sent + 1) + 1 = n - sent
    BY <1>1, <1>6
  <2>4. /\ SubSeq(st, sent + 1, n) \in Seq(Unit)
        /\ Len(SubSeq(st, sent + 1, n)) = n - sent
        /\ \A j \in 1..n - sent : SubSeq(st, sent + 1, n)[j] = st[sent + j]
    BY <1>1, <1>6, <2>1, <2>2, <2>3, SubSeqProperties
  <2> QED
    BY <1>5, <2>4 DEF Units
<1>8. data \in Units /\ Len(data) \in Nat /\ p + Len(data) = sent
      /\ \A j \in 1..Len(data) : data[j] = st[p + j]
  BY <1>1, <1>4 DEF Units
<1>9. PICK all : all = data \o more
  OBVIOUS
<1>10. /\ all \in Units /\ Len(all) = Len(data) + (n - sent)
       /\ \A j \in 1..Len(data) + Len(more) :
            all[j] = IF j <= Len(data) THEN data[j] ELSE more[j - Len(data)]
  <2>1. data \in Seq(Unit) /\ more \in Seq(Unit)
    BY <1>7, <1>8 DEF Units
  <2>2. /\ data \o more \in Seq(Unit) /\ Len(data \o more) = Len(data) + Len(more)
        /\ \A j \in 1..Len(data) + Len(more) :
             (data \o more)[j] = IF j <= Len(data) THEN data[j] ELSE more[j - Len(data)]
    BY <2>1, ConcatProperties
  <2> QED
    BY <1>7, <1>9, <2>2 DEF Units
<1>11. p + Len(all) = n
  BY <1>1, <1>3, <1>6, <1>8, <1>10
<1>12. ASSUME NEW j \in 1..Len(all) PROVE all[j] = st[p + j]
  <2>1. CASE j <= Len(data)
    BY <1>7, <1>8, <1>10, <2>1
  <2>2. CASE ~(j <= Len(data))
    <3>1. PICK i : i = j - Len(data)
      OBVIOUS
    <3>2. i \in 1..n - sent /\ sent + i = p + j
      <4>1. PICK d \in Nat : d = Len(data)
        BY <1>8
      <4>2. /\ j \in 1..d + (n - sent) /\ ~(j <= d) /\ i = j - d /\ p + d = sent
            /\ p \in Int /\ n \in Int /\ sent \in Int
        BY <1>1, <1>3, <1>6, <1>8, <1>10, <2>2, <3>1, <4>1
      <4> QED
        BY <4>2
    <3>3. all[j] = more[i]
      BY <1>1, <1>6, <1>7, <1>8, <1>10, <2>2, <3>1
    <3> QED
      BY <1>7, <3>2, <3>3
  <2> QED
    BY <2>1, <2>2
<1>13. all = ibuf \o (wire \o more)
  BY <1>4, <1>7, <1>9, JoinThree
<1>14. wire \o more \in Units
  BY <1>7, Join
<1>15. Tracks(script, frames, all, n)
  BY <1>1, <1>6, <1>10, <1>11, <1>12 DEF Tracks, st, p
<1> QED
  BY <1>5, <1>6, <1>13, <1>14, <1>15 DEF st

\* The peer sends or closes.
LEMMA PeerKeeps ==
  ASSUME ServerInv, NEW fd \in Fds, PeerSends(fd) \/ PeerCloses(fd)
  PROVE  ServerInv'
<1>1. /\ UNCHANGED <<_thd_pool, _conn_size, _curr_conns, used, _reserve_fd, accepting, conn, loop, aborted, handled, accepted,
                     flushed, spoiled, lost, stolen>>
      /\ fd \in DOMAIN sock
  BY DEF PeerSends, PeerCloses, config, history, acceptVars
<1>2. PICK old \in Sock : old = sock[fd]
  BY <1>1 DEF ServerInv, Types
<1>3. PICK new \in Sock :
        /\ sock' = [sock EXCEPT ![fd] = new]
        /\ new.script = old.script /\ new.out = old.out
        /\ fd \in Live => Tracks(old.script, handled[fd], conn[fd].ibuf \o new.wire, new.sent)
  <2>1. CASE PeerCloses(fd)
    <3>1. sock' = [sock EXCEPT ![fd] = [old EXCEPT !.closed = TRUE]]
      BY <1>1, <1>2, <2>1 DEF PeerCloses
    <3>2. PICK new : new = [old EXCEPT !.closed = TRUE]
      OBVIOUS
    <3>3. /\ new \in Sock /\ new.script = old.script /\ new.out = old.out
          /\ new.wire = old.wire /\ new.sent = old.sent
      BY <3>2 DEF Sock
    <3>4. fd \in Live => Tracks(old.script, handled[fd], conn[fd].ibuf \o old.wire, old.sent)
      BY <1>1, <1>2 DEF ServerInv, Crossing
    <3> QED
      BY <3>1, <3>2, <3>3, <3>4
  <2>2. CASE PeerSends(fd)
    <3>1. /\ old.script \in ScriptsOrNone /\ old.wire \in Units /\ old.sent \in Nat
          /\ Stream(old.script) \in Units /\ Streams[old.script] = Stream(old.script)
      BY StreamType DEF Sock
    <3>2. PICK n \in old.sent + 1..Len(Stream(old.script)) :
            sock' = [sock EXCEPT ![fd].sent = n,
                       ![fd].wire = @ \o SubSeq(Stream(old.script), old.sent + 1, n)]
      BY <1>2, <2>2, <3>1 DEF PeerSends
    <3>3. PICK wire : wire = old.wire \o SubSeq(Stream(old.script), old.sent + 1, n)
      OBVIOUS
    <3>4. PICK new : new = [old EXCEPT !.sent = n, !.wire = wire]
      OBVIOUS
    <3>5. sock' = [sock EXCEPT ![fd] = new]
      BY <1>1, <1>2, <3>2, <3>3, <3>4
    <3>6. wire \in Units /\ n \in Nat
      <4>1. Len(Stream(old.script)) \in Nat
        BY <3>1 DEF Units
      <4>2. n \in Nat /\ n <= Len(Stream(old.script)) /\ old.sent + 1 \in Nat
        BY <3>1, <4>1
      <4>3. \A i \in old.sent + 1..n : Stream(old.script)[i] \in Unit
        BY <3>1, <4>1, <4>2 DEF Units
      <4>4. SubSeq(Stream(old.script), old.sent + 1, n) \in Seq(Unit)
        BY <4>2, <4>3, SubSeqProperties
      <4> QED
        BY <3>1, <3>3, <4>2, <4>4, Join DEF Units
    <3>7. /\ new \in Sock /\ new.script = old.script /\ new.out = old.out
          /\ new.wire = wire /\ new.sent = n
      BY <3>4, <3>6 DEF Sock
    <3>8. ASSUME fd \in Live
          PROVE  Tracks(old.script, handled[fd], conn[fd].ibuf \o wire, n)
      <4>1. PICK ibuf \in Units : ibuf = conn[fd].ibuf
        BY <3>8 DEF ServerInv, Types, Conn
      <4>2. PICK frames : frames = handled[fd]
        OBVIOUS
      <4>3. Tracks(old.script, frames, ibuf \o old.wire, old.sent)
        BY <1>1, <1>2, <3>8, <4>1, <4>2 DEF ServerInv, Crossing
      <4>4. Tracks(old.script, frames,
                   ibuf \o (old.wire \o SubSeq(Stream(old.script), old.sent + 1, n)), n)
        BY <3>1, <4>3, TracksMore
      <4> QED
        BY <3>3, <4>1, <4>2, <4>4
    <3> QED
      BY <3>5, <3>7, <3>8
  <2> QED
    BY <2>1, <2>2
<1>4. /\ DOMAIN sock' = DOMAIN sock /\ sock'[fd] = new
      /\ \A x \in DOMAIN sock : x # fd => sock'[x] = sock[x]
  BY <1>1, <1>3
<1>5. Types'
  BY <1>1, <1>4 DEF ServerInv, Types, Live
<1>6. Descriptors' /\ Registered'
  BY <1>1 DEF ServerInv, Descriptors, Registered, Live
<1>7. HeadIsSpoilt' /\ NoneWithThreads' /\ AbortHasCause'
  <2>1. AbortHasCause'
    BY <1>1, CauseStays DEF ServerInv
  <2> QED
    BY <1>1, <2>1 DEF ServerInv, HeadIsSpoilt, NoneWithThreads, Live
<1>8. Crossing'
  <2>1. SUFFICES ASSUME NEW x \in Live \cap DOMAIN sock
                 PROVE  /\ Tracks(sock'[x].script, handled[x], conn[x].ibuf \o sock'[x].wire,
                                  sock'[x].sent)
                        /\ x \in spoiled \/ sock'[x].out \o conn[x].obuf = Replies(accepted[x])
    BY <1>1, <1>4 DEF Crossing, Live
  <2>2. CASE x = fd
    BY <1>2, <1>3, <1>4, <2>2 DEF ServerInv, Crossing
  <2>3. CASE x # fd
    BY <1>4, <2>3 DEF ServerInv, Crossing
  <2> QED
    BY <2>2, <2>3
<1> QED
  BY <1>5, <1>6, <1>7, <1>8 DEF ServerInv

\* clean_conn drops the connection and its descriptor.
LEMMA CleanKeeps ==
  ASSUME ServerInv, ~aborted, NEW fd \in Live, Clean(fd)
  PROVE  ServerInv'
<1>1. /\ UNCHANGED <<_thd_pool, _reserve_fd, accepting, aborted, handled, accepted,
                     flushed, spoiled, lost>>
      /\ used' = used \ {fd} /\ stolen' = stolen \ {fd}
  BY DEF Clean, config, history
<1>2. Live' = Live \ {fd} /\ \A x \in Live' : conn'[x] = conn[x]
  BY DEF Clean, Without, Live
<1>3. DOMAIN sock' = DOMAIN sock \ {fd} /\ \A x \in DOMAIN sock' : sock'[x] = sock[x]
  BY DEF Clean, Without
<1>4. /\ DOMAIN loop'.io = DOMAIN loop.io \ {fd}
      /\ \A x \in DOMAIN loop'.io : loop'.io[x] = loop.io[x]
      /\ DOMAIN loop'.ep = DOMAIN loop.ep \ {fd}
      /\ \A x \in DOMAIN loop'.ep : loop'.ep[x] = loop.ep[x]
  <2>1. loop'.io = Without(loop.io, fd) /\ loop'.ep = Without(loop.ep, fd)
    BY DEF Clean, Unwatch
  <2> QED
    BY <2>1 DEF Without
<1>5. Types'
  BY <1>1, <1>2, <1>3 DEF ServerInv, Types
<1>6. Descriptors' /\ Registered'
  BY <1>1, <1>2, <1>4 DEF ServerInv, Descriptors, Registered
<1>7. HeadIsSpoilt' /\ NoneWithThreads' /\ AbortHasCause'
  BY <1>1, <1>2 DEF ServerInv, HeadIsSpoilt, NoneWithThreads, AbortHasCause
<1>8. Crossing'
  BY <1>1, <1>2, <1>3 DEF ServerInv, Crossing
<1> QED
  BY <1>5, <1>6, <1>7, <1>8 DEF ServerInv

\* handle_read that ends the connection.
LEMMA HandleReadEndsKeeps ==
  ASSUME ServerInv, NEW fd \in Fds, HandleReadEnds(fd)
  PROVE  ServerInv'
BY CleanKeeps DEF HandleReadEnds, Loop

\* handle_write that ends the connection.
LEMMA HandleWriteFailsKeeps ==
  ASSUME ServerInv, NEW fd \in Fds, HandleWriteFails(fd)
  PROVE  ServerInv'
<1>1. fd \in Live /\ ~aborted
  BY DEF HandleWriteFails, Loop
<1>2. CASE conn[fd].head = 0
  BY <1>1, <1>2, CleanKeeps DEF HandleWriteFails
<1>3. CASE conn[fd].head # 0
  <2>1. /\ UNCHANGED <<_thd_pool, used, _reserve_fd, accepting, conn, sock, loop, handled, accepted,
                       flushed, spoiled, lost, stolen>>
        /\ aborted' = TRUE
    BY <1>3 DEF HandleWriteFails, Abort, config, history, acceptVars
  <2>2. AbortHasCause'
    BY <1>1, <1>3, <2>1 DEF ServerInv, HeadIsSpoilt, AbortHasCause, Live
  <2>3. Types' /\ Descriptors' /\ Registered' /\ HeadIsSpoilt' /\ NoneWithThreads'
    BY <2>1 DEF ServerInv, Types, Descriptors, Registered, HeadIsSpoilt, NoneWithThreads, Live
  <2>4. Crossing'
    BY <2>1 DEF ServerInv, Crossing, Live
  <2> QED
    BY <2>2, <2>3, <2>4 DEF ServerInv
<1> QED
  BY <1>2, <1>3

\* handle_write that flushes.
LEMMA HandleWriteKeeps ==
  ASSUME ServerInv, NEW fd \in Fds, HandleWrite(fd)
  PROVE  ServerInv'
<1>1. /\ UNCHANGED <<_thd_pool, used, _reserve_fd, accepting, aborted, handled, accepted,
                     spoiled, lost, stolen>>
      /\ fd \in Live /\ fd \in DOMAIN sock /\ ~aborted /\ conn[fd].head = 0
  BY DEF HandleWrite, Loop, config, history, acceptVars
<1>2. PICK c \in Conn, k \in Sock : c = conn[fd] /\ k = sock[fd]
  BY <1>1 DEF ServerInv, Types
<1>3. PICK n \in 0..Len(c.obuf) :
        /\ conn' = [conn EXCEPT ![fd].obuf = Pop(@, n)]
        /\ sock' = [sock EXCEPT ![fd].out = @ \o SubSeq(conn[fd].obuf, 1, n)]
        /\ IF n = Len(c.obuf)
           THEN loop' = UnwatchOne(loop, fd, "out") /\ flushed' = flushed \cup {fd}
           ELSE UNCHANGED <<loop, flushed>>
  BY <1>2 DEF HandleWrite
<1>4. c.obuf \in Units /\ c.ibuf \in Units /\ k.out \in Units /\ k.wire \in Units /\ c.head = 0
  BY <1>1, <1>2 DEF Conn, Sock
<1>5. PICK left, gone : left = SubSeq(c.obuf, n + 1, Len(c.obuf)) /\ gone = SubSeq(c.obuf, 1, n)
  OBVIOUS
<1>6. left \in Units /\ gone \in Units /\ gone \o left = c.obuf
  BY <1>4, <1>5, Cut
<1>7. PICK c2 : c2 = [c EXCEPT !.obuf = left]
  OBVIOUS
<1>8. PICK k2 : k2 = [k EXCEPT !.out = k.out \o gone]
  OBVIOUS
<1>9. conn' = [conn EXCEPT ![fd] = c2]
  BY <1>1, <1>2, <1>3, <1>5, <1>7 DEF Pop
<1>10. sock' = [sock EXCEPT ![fd] = k2]
  BY <1>1, <1>2, <1>3, <1>5, <1>8
<1>11. /\ c2 \in Conn /\ c2.obuf = left /\ c2.ibuf = c.ibuf /\ c2.head = 0
  BY <1>4, <1>6, <1>7 DEF Conn
<1>12. PICK out \in Units : out = k.out \o gone
  BY <1>4, <1>6, Join
<1>13. /\ k2 \in Sock /\ k2.out = out /\ k2.script = k.script /\ k2.wire = k.wire
       /\ k2.sent = k.sent
  BY <1>8, <1>12 DEF Sock
<1>14. out \o left = k.out \o c.obuf
  <2>1. (k.out \o gone) \o left = k.out \o (gone \o left)
    BY <1>4, <1>6, JoinThree
  <2> QED
    BY <1>6, <1>12, <2>1
<1>15. /\ Live' = Live /\ conn'[fd] = c2 /\ \A x \in Live : x # fd => conn'[x] = conn[x]
       /\ DOMAIN sock' = DOMAIN sock /\ sock'[fd] = k2
       /\ \A x \in DOMAIN sock : x # fd => sock'[x] = sock[x]
  BY <1>1, <1>9, <1>10 DEF Live
<1>16. flushed \subseteq flushed' /\ (fd \notin flushed' => loop' = loop)
  BY <1>3
<1>17. /\ DOMAIN loop'.io \subseteq DOMAIN loop.io
       /\ \A x \in DOMAIN loop.io : x # fd => x \in DOMAIN loop'.io /\ loop'.io[x] = loop.io[x]
       /\ \A x \in DOMAIN loop.ep : x # fd => x \in DOMAIN loop'.ep /\ loop'.ep[x] = loop.ep[x]
  <2>1. CASE loop' = loop
    BY <2>1
  <2>2. CASE loop' = UnwatchOne(loop, fd, "out") /\ fd \in DOMAIN loop.io
    <3>1. /\ loop'.io = (IF loop.io[fd] = {"out"} THEN Without(loop.io, fd)
                         ELSE With(loop.io, fd, loop.io[fd] \ {"out"}))
          /\ loop'.ep = Without(loop.ep, fd)
      BY <2>2 DEF UnwatchOne
    <3>2. \A x \in DOMAIN loop.ep : x # fd => x \in DOMAIN loop'.ep /\ loop'.ep[x] = loop.ep[x]
      BY <3>1 DEF Without
    <3>3. CASE loop.io[fd] = {"out"}
      <4>1. loop'.io = Without(loop.io, fd)
        BY <3>1, <3>3
      <4>2. /\ DOMAIN loop'.io = DOMAIN loop.io \ {fd}
            /\ \A x \in DOMAIN loop.io : x # fd => loop'.io[x] = loop.io[x]
        BY <4>1 DEF Without
      <4> QED
        BY <3>2, <4>2
    <3>4. CASE loop.io[fd] # {"out"}
      <4>1. loop'.io = With(loop.io, fd, loop.io[fd] \ {"out"})
        BY <3>1, <3>4
      <4>2. /\ DOMAIN loop'.io = DOMAIN loop.io \cup {fd}
            /\ \A x \in DOMAIN loop.io : x # fd => loop'.io[x] = loop.io[x]
        BY <4>1 DEF With
      <4> QED
        BY <2>2, <3>2, <4>2
    <3> QED
      BY <3>3, <3>4
  <2>3. CASE loop' = UnwatchOne(loop, fd, "out") /\ fd \notin DOMAIN loop.io
    <3>1. loop' = loop
      BY <2>3 DEF UnwatchOne
    <3> QED
      BY <3>1
  <2> QED
    BY <1>3, <2>1, <2>2, <2>3
<1>18. Types'
  <2>1. \A x \in Live : conn'[x] \in Conn
    BY <1>11, <1>15 DEF ServerInv, Types
  <2>2. \A x \in DOMAIN sock : sock'[x] \in Sock
    BY <1>13, <1>15 DEF ServerInv, Types
  <2> QED
    BY <1>1, <1>15, <2>1, <2>2 DEF ServerInv, Types
<1>19. Descriptors' /\ NoneWithThreads' /\ AbortHasCause'
  BY <1>1, <1>15 DEF ServerInv, Descriptors, NoneWithThreads, AbortHasCause
<1>20. Registered'
  <2>1. SUFFICES ASSUME ~lost
                 PROVE  /\ DOMAIN loop'.io \subseteq Live
                        /\ \A x \in Live \ flushed' :
                             /\ x \in DOMAIN loop'.io /\ "in" \in loop'.io[x]
                             /\ x \in DOMAIN loop'.ep /\ "in" \in loop'.ep[x]
    BY <1>1, <1>15 DEF Registered
  <2>2. /\ DOMAIN loop.io \subseteq Live
        /\ \A x \in Live \ flushed :
              /\ x \in DOMAIN loop.io /\ "in" \in loop.io[x]
              /\ x \in DOMAIN loop.ep /\ "in" \in loop.ep[x]
    BY <2>1 DEF ServerInv, Registered
  <2>3. DOMAIN loop'.io \subseteq Live
    BY <1>17, <2>2
  <2>4. ASSUME NEW x \in Live \ flushed'
        PROVE  /\ x \in DOMAIN loop'.io /\ "in" \in loop'.io[x]
               /\ x \in DOMAIN loop'.ep /\ "in" \in loop'.ep[x]
    <3>1. x \in Live \ flushed
      BY <1>16
    <3>2. CASE x = fd
      BY <1>16, <2>2, <3>1, <3>2
    <3>3. CASE x # fd
      BY <1>17, <2>2, <3>1, <3>3
    <3> QED
      BY <3>2, <3>3
  <2> QED
    BY <2>3, <2>4
<1>21. HeadIsSpoilt'
  BY <1>1, <1>11, <1>15 DEF ServerInv, HeadIsSpoilt
<1>22. Crossing'
  <2>1. SUFFICES ASSUME NEW x \in Live \cap DOMAIN sock
                 PROVE  /\ Tracks(sock'[x].script, handled[x], conn'[x].ibuf \o sock'[x].wire,
                                  sock'[x].sent)
                        /\ x \in spoiled \/ sock'[x].out \o conn'[x].obuf = Replies(accepted[x])
    BY <1>1, <1>15 DEF Crossing
  <2>2. CASE x = fd
    BY <1>2, <1>11, <1>13, <1>14, <1>15, <2>2 DEF ServerInv, Crossing
  <2>3. CASE x # fd
    BY <1>15, <2>3 DEF ServerInv, Crossing
  <2> QED
    BY <2>2, <2>3
<1> QED
  BY <1>18, <1>19, <1>20, <1>21, <1>22 DEF ServerInv

\* Watching one more event of a connection stops no reading.
LEMMA WatchKeeps ==
  ASSUME NEW lp, NEW fd, NEW live, NEW quiet, fd \in live, DOMAIN lp.io \subseteq live,
         \A x \in live \ quiet : /\ x \in DOMAIN lp.io /\ "in" \in lp.io[x]
                                 /\ x \in DOMAIN lp.ep /\ "in" \in lp.ep[x]
  PROVE  LET after == Watch(lp, fd, "out")
         IN /\ DOMAIN after.io \subseteq live
            /\ \A x \in live \ quiet : /\ x \in DOMAIN after.io /\ "in" \in after.io[x]
                                       /\ x \in DOMAIN after.ep /\ "in" \in after.ep[x]
<1>1. PICK after : after = Watch(lp, fd, "out")
  OBVIOUS
<1>2. CASE fd \notin DOMAIN lp.io
  <2>1. after.io = With(lp.io, fd, {"out"}) /\ after.ep = With(lp.ep, fd, {"out"})
    BY <1>1, <1>2 DEF Watch
  <2>2. /\ DOMAIN after.io = DOMAIN lp.io \cup {fd}
        /\ \A x \in DOMAIN lp.io : x # fd => after.io[x] = lp.io[x]
    BY <2>1 DEF With
  <2>3. /\ DOMAIN after.ep = DOMAIN lp.ep \cup {fd}
        /\ \A x \in DOMAIN lp.ep : x # fd => after.ep[x] = lp.ep[x]
    BY <2>1 DEF With
  <2> QED
    BY <1>1, <1>2, <2>2, <2>3
<1>3. CASE fd \in DOMAIN lp.io
  <2>1. PICK mask : mask = lp.io[fd] \cup {"out"}
    OBVIOUS
  <2>2. /\ after.io = With(lp.io, fd, mask)
        /\ after.ep = IF fd \in DOMAIN lp.ep THEN With(lp.ep, fd, mask) ELSE lp.ep
    BY <1>1, <1>3, <2>1 DEF Watch
  <2>3. /\ DOMAIN after.io = DOMAIN lp.io \cup {fd} /\ after.io[fd] = mask
        /\ \A x \in DOMAIN lp.io : x # fd => after.io[x] = lp.io[x]
    BY <2>2 DEF With
  <2>4. CASE fd \in DOMAIN lp.ep
    <3>1. after.ep = With(lp.ep, fd, mask)
      BY <2>2, <2>4
    <3>2. /\ DOMAIN after.ep = DOMAIN lp.ep \cup {fd} /\ after.ep[fd] = mask
          /\ \A x \in DOMAIN lp.ep : x # fd => after.ep[x] = lp.ep[x]
      BY <3>1 DEF With
    <3> QED
      BY <1>1, <2>1, <2>3, <3>2
  <2>5. CASE fd \notin DOMAIN lp.ep
    <3>1. after.ep = lp.ep
      BY <2>2, <2>5
    <3> QED
      BY <1>1, <2>1, <2>3, <2>5, <3>1
  <2> QED
    BY <2>4, <2>5
<1> QED
  BY <1>2, <1>3

\* handle_read that reads and runs the message loop.
LEMMA HandleReadKeeps ==
  ASSUME ServerInv, NEW fd \in Fds, HandleRead(fd)
  PROVE  ServerInv'
<1>1. fd \in Live /\ fd \in DOMAIN sock /\ ~aborted
  BY DEF HandleRead, Loop
<1>2. PICK c \in Conn, k \in Sock : c = conn[fd] /\ k = sock[fd]
  BY <1>1 DEF ServerInv, Types
<1>3. /\ c.obuf \in Units /\ c.ibuf \in Units /\ k.out \in Units /\ k.wire \in Units
      /\ c.head \in Nat /\ k.script \in ScriptsOrNone /\ k.sent \in Nat
      /\ handled[fd] \in Seq(Units) /\ accepted[fd] \in Nat
  BY <1>1, <1>2 DEF ServerInv, Types, Conn, Sock
<1>4. PICK read : read = [c EXCEPT !.ibuf = c.ibuf \o k.wire]
  OBVIOUS
<1>5. /\ read.ibuf = c.ibuf \o k.wire /\ read.obuf = c.obuf /\ read.head = c.head
      /\ read.ibuf \in Units
  BY <1>3, <1>4, Join DEF Conn
<1>6. WorkIsRight(Work(read, fd), k.script, k.sent, k.out)
  <2>1. PICK w, spoilt : w = Work(read, fd) /\ spoilt = (fd \in spoiled)
    OBVIOUS
  <2>2. /\ w.ibuf = read.ibuf /\ w.obuf = c.obuf /\ w.head = c.head /\ w.frames = handled[fd]
        /\ w.replies = accepted[fd] /\ w.spoilt = spoilt /\ w.end = "more"
    BY <1>5, <2>1 DEF Work
  <2>3. w \in Works
    BY <1>3, <1>5, <2>1 DEF Work, Works
  <2>4. Tracks(k.script, w.frames, w.ibuf, k.sent)
    BY <1>1, <1>2, <1>5, <2>2 DEF ServerInv, Crossing
  <2>5. Answers(w, k.out)
    BY <1>1, <1>2, <2>1, <2>2 DEF ServerInv, Crossing, HeadIsSpoilt, Answers
  <2> QED
    BY <2>1, <2>2, <2>3, <2>4, <2>5 DEF WorkIsRight
<1>7. PICK work : work = Messages(Work(read, fd), k.script)
  OBVIOUS
<1>8. WorkIsRight(work, k.script, k.sent, k.out) /\ work.end # "more"
  BY <1>3, <1>6, <1>7, MessagesKeep
<1>9. IF work.end = "clean" THEN Clean(fd)
      ELSE /\ aborted' = (work.end = "abort")
           /\ conn' = [conn EXCEPT ![fd] = [ibuf |-> work.ibuf, obuf |-> work.obuf,
                                            head |-> work.head]]
           /\ sock' = [sock EXCEPT ![fd].wire = <<>>]
           /\ loop' = IF conn[fd].obuf = <<>> /\ work.replies > accepted[fd]
                      THEN Watch(loop, fd, "out") ELSE loop
           /\ handled' = [handled EXCEPT ![fd] = work.frames]
           /\ accepted' = [accepted EXCEPT ![fd] = work.replies]
           /\ spoiled' = IF work.spoilt THEN spoiled \cup {fd} ELSE spoiled
           /\ UNCHANGED <<config, acceptVars, _curr_conns, flushed>>
  BY <1>2, <1>4, <1>7 DEF HandleRead
<1>10. CASE work.end = "clean"
  BY <1>1, <1>9, <1>10, CleanKeeps
<1>11. CASE work.end # "clean"
  <2>1. /\ UNCHANGED <<_thd_pool, used, _reserve_fd, accepting, flushed, lost, stolen>>
        /\ aborted' = (work.end = "abort")
        /\ handled' = [handled EXCEPT ![fd] = work.frames]
        /\ accepted' = [accepted EXCEPT ![fd] = work.replies]
        /\ spoiled' = IF work.spoilt THEN spoiled \cup {fd} ELSE spoiled
    BY <1>9, <1>11 DEF config, acceptVars
  <2>2. PICK c2 : c2 = [ibuf |-> work.ibuf, obuf |-> work.obuf, head |-> work.head]
    OBVIOUS
  <2>3. PICK k2 : k2 = [k EXCEPT !.wire = <<>>]
    OBVIOUS
  <2>4. /\ work \in Works /\ work.ibuf \in Units /\ work.frames \in Seq(Units)
        /\ work.replies \in Nat
        /\ Answers(work, k.out) /\ Tracks(k.script, work.frames, work.ibuf, k.sent)
    BY <1>8 DEF WorkIsRight, Works
  <2>5. c2 \in Conn /\ c2.ibuf = work.ibuf /\ c2.obuf = work.obuf /\ c2.head = work.head
    BY <2>2, <2>4 DEF Conn, Works
  <2>6. /\ k2 \in Sock /\ k2.wire = <<>> /\ k2.script = k.script /\ k2.sent = k.sent
        /\ k2.out = k.out
    <3>1. <<>> \in Units
      BY DEF Units
    <3> QED
      BY <2>3, <3>1 DEF Sock
  <2>7. /\ Live' = Live /\ conn'[fd] = c2 /\ \A x \in Live : x # fd => conn'[x] = conn[x]
    BY <1>1, <1>9, <1>11, <2>2 DEF Live
  <2>8. /\ DOMAIN sock' = DOMAIN sock /\ sock'[fd] = k2
        /\ \A x \in DOMAIN sock : x # fd => sock'[x] = sock[x]
    BY <1>1, <1>2, <1>9, <1>11, <2>3
  <2>9. fd \in DOMAIN handled /\ fd \in DOMAIN accepted
    BY <1>1 DEF ServerInv, Types
  <2>10. /\ DOMAIN handled' = DOMAIN handled /\ handled'[fd] = work.frames
         /\ \A x \in DOMAIN handled : x # fd => handled'[x] = handled[x]
         /\ DOMAIN accepted' = DOMAIN accepted /\ accepted'[fd] = work.replies
         /\ \A x \in DOMAIN accepted : x # fd => accepted'[x] = accepted[x]
    BY <2>1, <2>9
  <2>11. fd \in spoiled' <=> work.spoilt \/ fd \in spoiled
    BY <2>1
  <2>12. spoiled \subseteq spoiled' /\ \A x : x # fd /\ x \in spoiled' => x \in spoiled
    BY <2>1
  <2>13. Types'
    <3>1. aborted' \in BOOLEAN
      BY <2>1
    <3>2. \A x \in Live : /\ conn'[x] \in Conn
                          /\ handled'[x] \in Seq(Units) /\ accepted'[x] \in Nat
      BY <2>4, <2>5, <2>7, <2>10 DEF ServerInv, Types
    <3>3. \A x \in DOMAIN sock : sock'[x] \in Sock
      BY <2>6, <2>8 DEF ServerInv, Types
    <3> QED
      BY <2>1, <2>7, <2>8, <2>10, <3>1, <3>2, <3>3 DEF ServerInv, Types
  <2>14. Descriptors' /\ NoneWithThreads'
    BY <2>1, <2>7 DEF ServerInv, Descriptors, NoneWithThreads
  <2>15. AbortHasCause'
    <3>1. SUFFICES ASSUME work.end = "abort"
                   PROVE  \/ fd \in spoiled'
                          \/ handled'[fd] # <<>> /\ Len(Last(handled'[fd])) = HeadLength
      BY <1>1, <2>1, <2>7 DEF AbortHasCause
    <3>2. work.spoilt \/ (work.frames # <<>> /\ Len(Last(work.frames)) = HeadLength)
      BY <1>8, <3>1 DEF WorkIsRight
    <3> QED
      BY <2>10, <2>11, <3>2
  <2>16. HeadIsSpoilt'
    <3>1. c2.head # 0 => fd \in spoiled'
      BY <2>4, <2>5, <2>11 DEF Answers
    <3> QED
      BY <2>7, <2>12, <3>1 DEF ServerInv, HeadIsSpoilt
  <2>17. Registered'
    <3>1. SUFFICES ASSUME ~lost
                   PROVE  /\ DOMAIN loop'.io \subseteq Live
                          /\ \A x \in Live \ flushed :
                               /\ x \in DOMAIN loop'.io /\ "in" \in loop'.io[x]
                               /\ x \in DOMAIN loop'.ep /\ "in" \in loop'.ep[x]
      BY <2>1, <2>7 DEF Registered
    <3>2. /\ DOMAIN loop.io \subseteq Live
          /\ \A x \in Live \ flushed :
                /\ x \in DOMAIN loop.io /\ "in" \in loop.io[x]
                /\ x \in DOMAIN loop.ep /\ "in" \in loop.ep[x]
      BY <3>1 DEF ServerInv, Registered
    <3>3. CASE loop' = loop
      BY <3>2, <3>3
    <3>4. CASE loop' = Watch(loop, fd, "out")
      BY <1>1, <3>2, <3>4, WatchKeeps
    <3> QED
      BY <1>9, <1>11, <3>3, <3>4
  <2>18. Crossing'
    <3>1. SUFFICES ASSUME NEW x \in Live \cap DOMAIN sock
                   PROVE  /\ Tracks(sock'[x].script, handled'[x], conn'[x].ibuf \o sock'[x].wire,
                                    sock'[x].sent)
                          /\ x \in spoiled' \/ sock'[x].out \o conn'[x].obuf = Replies(accepted'[x])
      BY <2>7, <2>8 DEF Crossing
    <3>2. CASE x = fd
      <4>1. work.ibuf \o <<>> = work.ibuf
        BY <2>4, ConcatEmptySeq DEF Units
      <4>2. Tracks(sock'[x].script, handled'[x], conn'[x].ibuf \o sock'[x].wire, sock'[x].sent)
        BY <2>4, <2>5, <2>6, <2>7, <2>8, <2>10, <3>2, <4>1
      <4>3. work.spoilt \/ k.out \o work.obuf = Replies(work.replies)
        BY <2>4 DEF Answers
      <4> QED
        BY <2>5, <2>6, <2>7, <2>8, <2>10, <2>11, <3>2, <4>2, <4>3
    <3>3. CASE x # fd
      <4>1. x \in DOMAIN handled /\ x \in DOMAIN accepted
        BY DEF ServerInv, Types
      <4>2. /\ conn'[x] = conn[x] /\ sock'[x] = sock[x] /\ handled'[x] = handled[x]
            /\ accepted'[x] = accepted[x]
        BY <2>7, <2>8, <2>10, <3>3, <4>1
      <4> QED
        BY <2>12, <4>2 DEF ServerInv, Crossing
    <3> QED
      BY <3>2, <3>3
  <2> QED
    BY <2>13, <2>14, <2>15, <2>16, <2>17, <2>18 DEF ServerInv
<1> QED
  BY <1>10, <1>11

-----------------------------------------------------------------------------
(* how many connections there are *)

\* Before the first connection.
LEMMA CountedInit == Init => Counted
<1> SUFFICES ASSUME Init PROVE Counted
  OBVIOUS
<1>1. Live = {} /\ IsFiniteSet({}) /\ Cardinality({}) = 0
  BY FS_EmptySet DEF Init, Live
<1>2. New = 2
  <2>1. used \subseteq Fds /\ used # Fds /\ 2 \in Fds \ used
    BY FdsAreNumbers DEF Init
  <2>2. New \in Fds \ used /\ New <= 2
    BY <2>1, NewIsFree
  <2> QED
    BY <2>2, FdsAreNumbers DEF Init
<1>3. _max_conns \in Nat \ {0}
  BY ServerAssumption DEF Init
<1> QED
  BY <1>1, <1>2, <1>3 DEF Init, Counted

\* Steps that set up and close nothing.
LEMMA CountedStays ==
  ASSUME Counted, UNCHANGED <<config, used, _curr_conns, _reserve_fd>>, Live' = Live,
         accepting' = accepting \/ accepting' # "full"
  PROVE  Counted'
BY DEF Counted, config

\* A connection that is closed is counted no longer.
LEMMA CountedCleans ==
  ASSUME Counted, accepting = "no", NEW fd \in Live, Clean(fd)
  PROVE  Counted'
<1>1. /\ UNCHANGED <<config, _reserve_fd, accepting>>
      /\ used' = used \ {fd} /\ _curr_conns' = _curr_conns - 1
  BY DEF Clean
<1>2. Live' = Live \ {fd}
  BY DEF Clean, Without, Live
<1>3. /\ IsFiniteSet(Live') /\ Cardinality(Live') = Cardinality(Live) - 1
      /\ Cardinality(Live) \in Nat /\ Cardinality(Live') \in Nat
  <2>1. IsFiniteSet(Live) /\ Cardinality(Live) \in Nat
    BY FS_CardinalityType DEF Counted
  <2>2. IsFiniteSet(Live') /\ Cardinality(Live') = Cardinality(Live) - 1
    BY <1>2, <2>1, FS_RemoveElement
  <2> QED
    BY <2>1, <2>2, FS_CardinalityType
<1>4. _curr_conns' \in Nat /\ Cardinality(Live') <= _curr_conns' /\ _curr_conns # 0
  BY <1>1, <1>3 DEF Counted
<1> QED
  BY <1>1, <1>2, <1>3, <1>4 DEF Counted, config

\* The acceptor: the reserve is opened again under its number, and a connection that is set
\* up is counted.
LEMMA CountedAccepts ==
  ASSUME ServerInv, Counted, Accept
  PROVE  Counted'
<1>1. CASE BeginAccept \/ OverLimit \/ EndAccept \/ NoSlot
  <2>1. /\ UNCHANGED <<config, used, _curr_conns, _reserve_fd, conn>>
        /\ accepting' = accepting \/ accepting' # "full"
    BY <1>1 DEF BeginAccept, OverLimit, EndAccept, NoSlot
  <2> QED
    BY <2>1, CountedStays DEF Live
<1>2. CASE TurnAway
  <2>1. /\ UNCHANGED <<config, accepting, _curr_conns, conn>> /\ used' = used \cup {New}
        /\ _reserve_fd' = New /\ accepting = "full"
    BY <1>2 DEF TurnAway, Given
  <2>2. New \in Fds \ used
    BY <1>2, NewIsFree DEF TurnAway, Given, ServerInv, Types
  <2>3. New = 1
    BY <2>1, <2>2 DEF Counted
  <2> QED
    BY <2>1, <2>3 DEF Counted, Live, config
<1>3. CASE SetUp
  <2>1. /\ UNCHANGED <<config, _reserve_fd, accepting>> /\ used' = used \cup {New}
        /\ accepting = "free" /\ _curr_conns' = _curr_conns + 1 /\ ~_thd_pool
    BY <1>3 DEF SetUp, Given
  <2>2. Live' = Live \cup {New}
    BY <1>3 DEF SetUp, With, Live
  <2>3. /\ IsFiniteSet(Live') /\ Cardinality(Live) \in Nat /\ Cardinality(Live') \in Nat
        /\ Cardinality(Live') <= Cardinality(Live) + 1
    <3>1. IsFiniteSet(Live) /\ Cardinality(Live) \in Nat
      BY FS_CardinalityType DEF Counted
    <3>2. /\ IsFiniteSet(Live')
          /\ Cardinality(Live') = IF New \in Live THEN Cardinality(Live) ELSE Cardinality(Live) + 1
      BY <2>2, <3>1, FS_AddElement
    <3> QED
      BY <3>1, <3>2
  <2>4. _curr_conns' \in Nat /\ Cardinality(Live') <= _curr_conns'
    BY <2>1, <2>3 DEF Counted
  <2> QED
    BY <2>1, <2>2, <2>3, <2>4 DEF Counted, config
<1>4. CASE HandOver
  <2>1. /\ UNCHANGED <<config, _reserve_fd, accepting, _curr_conns, conn>>
        /\ accepting = "free" /\ _thd_pool
    BY <1>4 DEF HandOver, Given
  <2> QED
    BY <2>1 DEF Counted, Live, config
<1>5. CASE NoDescriptor
  <2>1. /\ UNCHANGED <<config, _reserve_fd, _curr_conns, conn>>
        /\ used = Fds /\ used' = used \ {_reserve_fd}
    BY <1>5 DEF NoDescriptor
  <2> QED
    BY <2>1 DEF Counted, Live, config
<1> QED
  BY <1>1, <1>2, <1>3, <1>4, <1>5 DEF Accept

\* The callbacks of a connection set up nothing and close only it.
LEMMA CountedConnection ==
  ASSUME Counted, NEW fd \in Fds, Connection(fd)
  PROVE  Counted'
<1>1. fd \in Live /\ accepting = "no"
  BY DEF Connection, HandleRead, HandleReadEnds, HandleWrite, HandleWriteFails, Loop
<1>2. CASE Clean(fd)
  BY <1>1, <1>2, CountedCleans
<1>3. CASE ~Clean(fd)
  <2>1. /\ UNCHANGED <<config, acceptVars, _curr_conns>> /\ Live' = Live
    <3>1. CASE HandleRead(fd)
      BY <1>3, <3>1 DEF HandleRead, Live
    <3>2. CASE HandleReadEnds(fd)
      BY <1>3, <3>2 DEF HandleReadEnds
    <3>3. CASE HandleWrite(fd)
      BY <3>3 DEF HandleWrite, Live
    <3>4. CASE HandleWriteFails(fd)
      BY <1>3, <3>4 DEF HandleWriteFails, Abort, Live
    <3> QED
      BY <3>1, <3>2, <3>3, <3>4 DEF Connection
  <2> QED
    BY <2>1, CountedStays DEF acceptVars
<1> QED
  BY <1>2, <1>3

\* Every step keeps the count.
LEMMA CountedKeeps ==
  ASSUME ServerInv, Counted, [Next]_vars
  PROVE  Counted'
<1>1. CASE Peers \/ MessageComes \/ UNCHANGED vars
  <2>1. UNCHANGED <<config, used, _curr_conns, _reserve_fd, accepting, conn>>
    BY <1>1 DEF Peers, PeerConnects, PeerGivesUp, PeerSends, PeerCloses, MessageComes, vars,
       acceptVars
  <2> QED
    BY <2>1, CountedStays DEF Live
<1>2. CASE Accept
  BY <1>2, CountedAccepts
<1>3. CASE \E fd \in Fds : Connection(fd)
  BY <1>3, CountedConnection
<1> QED
  BY <1>1, <1>2, <1>3 DEF Next

\* The assertion on the slot fails with reactor threads only: without them the descriptors
\* below the least free one belong to connections, and those are counted.
LEMMA NoSlotKeeps ==
  ASSUME ServerInv, Counted, NoSlot
  PROVE  ServerInv'
<1>1. /\ UNCHANGED <<config, used, _reserve_fd, accepting, _curr_conns, conn, sock, loop, history,
                     lost, stolen>>
      /\ aborted' = TRUE /\ _curr_conns < _max_conns /\ ~(New < _conn_size)
  BY DEF NoSlot, HasSlot
<1>2. New \in Fds \ used /\ \A fd \in Fds \ used : New <= fd
  BY NewIsFree DEF NoSlot, Given, ServerInv, Types
<1>3. New \in Nat /\ _max_conns \in Nat /\ _conn_size = _max_conns + 2
  BY <1>2, FdsAreNumbers DEF Counted
<1>4. \A fd \in Fds : fd < _conn_size => fd \in used
  BY <1>1, <1>2, <1>3, FdsAreNumbers
<1>5. _thd_pool
  <2>1. SUFFICES ASSUME ~_thd_pool PROVE FALSE
    BY DEF Counted
  <2>2. 2.._max_conns + 1 \subseteq Live
    <3>1. SUFFICES ASSUME NEW n \in 2.._max_conns + 1 PROVE n \in Live
      OBVIOUS
    <3>2. n \in 1..New /\ n < _conn_size /\ n # 1
      BY <1>1, <1>3, <3>1
    <3>3. n \in Fds
      BY <1>2, <3>2, FdsAreNumbers
    <3> QED
      BY <1>4, <2>1, <3>2, <3>3 DEF Counted
  <2>3. Cardinality(2.._max_conns + 1) = _max_conns
    <3>1. PICK a, b : a = 2 /\ b = _max_conns + 1
      OBVIOUS
    <3>2. a \in Int /\ b \in Int
      BY <1>3, <3>1
    <3>3. Cardinality(a..b) = IF a > b THEN 0 ELSE b - a + 1
      BY <3>2, FS_Interval
    <3> QED
      BY <1>3, <3>1, <3>3
  <2>4. Cardinality(2.._max_conns + 1) <= Cardinality(Live) /\ Cardinality(Live) \in Nat
    BY <2>2, FS_Subset, FS_CardinalityType DEF Counted
  <2> QED
    BY <1>1, <1>3, <2>3, <2>4 DEF Counted
<1>6. _curr_conns = 0
  BY <1>5 DEF Counted
<1>7. AbortHasCause'
  BY <1>1, <1>4, <1>5, <1>6 DEF AbortHasCause, SlotsRunOut, config
<1>8. Types' /\ Descriptors' /\ Registered'
  BY <1>1 DEF ServerInv, Types, Descriptors, Registered, Live, history
<1>9. HeadIsSpoilt' /\ NoneWithThreads' /\ Crossing'
  BY <1>1 DEF ServerInv, HeadIsSpoilt, NoneWithThreads, Crossing, Live, history, config
<1> QED
  BY <1>7, <1>8, <1>9 DEF ServerInv

-----------------------------------------------------------------------------
(* theorems *)

\* Every step keeps the invariant.
LEMMA StepKeeps == ServerInv /\ Counted /\ [Next]_vars => ServerInv'
<1> SUFFICES ASSUME ServerInv, Counted, [Next]_vars PROVE ServerInv'
  OBVIOUS
<1>1. CASE Peers
  BY <1>1, QuietKeeps, PeerKeeps DEF Peers
<1>2. CASE Accept
  BY <1>2, QuietKeeps, SetUpKeeps, HandOverKeeps, NoDescriptorKeeps, NoSlotKeeps
     DEF Accept
<1>3. CASE MessageComes \/ UNCHANGED vars
  BY <1>3, QuietKeeps
<1>4. ASSUME NEW fd \in Fds, Connection(fd) PROVE ServerInv'
  BY <1>4, HandleReadKeeps, HandleReadEndsKeeps, HandleWriteKeeps, HandleWriteFailsKeeps
     DEF Connection
<1> QED
  BY <1>1, <1>2, <1>3, <1>4 DEF Next

\* The inductive invariant.
THEOREM ServerIsRight == Spec => [](ServerInv /\ Counted)
<1>1. Init => ServerInv /\ Counted
  BY InitIsRight, CountedInit
<1>2. (ServerInv /\ Counted) /\ [Next]_vars => (ServerInv /\ Counted)'
  BY StepKeeps, CountedKeeps
<1> QED
  BY <1>1, <1>2, PTL DEF Spec

\* For any scripts, lengths and limits: callbacks get the messages that were sent, whole
\* and in order, and a peer receives the replies.
THEOREM CrossWhole == Spec => []MessagesAreWhole
<1>1. ServerInv => MessagesAreWhole
  <2> SUFFICES ASSUME ServerInv PROVE MessagesAreWhole
    OBVIOUS
  <2>1. FramesAreWhole
    <3>1. SUFFICES ASSUME NEW fd \in Live \cap DOMAIN sock, NEW i \in DOMAIN handled[fd]
                   PROVE  handled[fd][i] = Frame(sock[fd].script, i)
      BY DEF FramesAreWhole
    <3>2. handled[fd] \in Seq(Units)
      BY DEF ServerInv, Types
    <3>3. i \in 1..Len(handled[fd])
      BY <3>2
    <3> QED
      BY <3>3 DEF ServerInv, Crossing, Tracks
  <2>2. RepliesAreWhole
    BY DEF ServerInv, Crossing, RepliesAreWhole
  <2> QED
    BY <2>1, <2>2 DEF MessagesAreWhole
<1> QED
  BY <1>1, ServerIsRight, PTL

\* Every connection is read until its output has once been written, unless the acceptor
\* has lost its reserve.
THEOREM ReadUntilFlushed == Spec => []DeafOnlyAfterReply
<1>1. ServerInv => DeafOnlyAfterReply
  BY DEF ServerInv, Registered, DeafOnlyAfterReply, Watches
<1> QED
  BY <1>1, ServerIsRight, PTL

\* The server aborts, and closes connections under their feet, for the causes named only.
THEOREM LossesHaveCauses == Spec => []LossHasCause
<1>1. ServerInv => LossHasCause
  BY DEF ServerInv, Descriptors, LossHasCause, StolenOnlyAfterLoss
<1> QED
  BY <1>1, ServerIsRight, PTL
=============================================================================
