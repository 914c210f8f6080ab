-------------------------- MODULE FlushDiskProofs --------------------------
(***************************************************************************)
(* Proofs about FlushDisk for any fields, shards, keys, sizes and bounds:  *)
(* its types, and that the three paths on which queue_flush_disk moves     *)
(* index entries (into the pending entries of a field, into an index       *)
(* block, into the blocks written before a file is left) neither lose an   *)
(* entry nor write it twice; and, for one shard, that the room it sets     *)
(* aside keeps blocks apart and the index readable.                        *)
(***************************************************************************)
EXTENDS FlushDisk, SequencesExt, SequenceTheorems, NaturalsInduction,
        WellFoundedInduction, FiniteSetTheorems, TLAPS

-----------------------------------------------------------------------------
(* numbers *)

\* A set that has 0 and the successor of each of its numbers has them all.
LEMMA Counting ==
  ASSUME NEW S, 0 \in S, \A n \in Nat : n \in S => n + 1 \in S
  PROVE  Nat \subseteq S
<1> DEFINE T == Nat \ S
<1>1. SUFFICES ASSUME T # {} PROVE FALSE
  OBVIOUS
<1> DEFINE R == OpToRel(<, Nat)
<1>0. IsWellFoundedOn(R, Nat) /\ T \subseteq Nat
  BY NatLessThanWellFounded, Zenon
<1>5. ASSUME NEW a \in Nat, NEW b \in Nat, a < b PROVE <<a, b>> \in R
  BY <1>5 DEF OpToRel
<1> HIDE DEF R
<1>2. PICK x \in T : \A y \in T : ~ (<<y, x>> \in R)
  BY <1>0, <1>1, WFMin
<1>3. x \in Nat /\ x # 0 /\ x - 1 \in Nat /\ x - 1 < x /\ x - 1 + 1 = x
  BY DEF T
<1>4. x - 1 \in T
  BY <1>3 DEF T
<1> QED
  BY <1>2, <1>3, <1>4, <1>5

-----------------------------------------------------------------------------
(* sums over finite sets *)

\* A set that has every subset of U of which it has all the subsets smaller by one
\* element has all subsets of U.
LEMMA BySubsets ==
  ASSUME NEW U, IsFiniteSet(U), NEW Q,
         \A s \in SUBSET U : (\A x \in s : s \ {x} \in Q) => s \in Q
  PROVE  SUBSET U \subseteq Q
<1> DEFINE C == {n \in Nat : \A s \in SUBSET U : Cardinality(s) = n => s \in Q}
<1>1. \A s \in SUBSET U : IsFiniteSet(s) /\ Cardinality(s) \in Nat
  BY FS_Subset, FS_CardinalityType
<1>2. 0 \in C
  <2>1. \A s \in SUBSET U : Cardinality(s) = 0 => s = {}
    BY <1>1, FS_EmptySet
  <2> QED
    BY <2>1
<1>3. ASSUME NEW n \in Nat, n \in C PROVE n + 1 \in C
  <2>1. SUFFICES ASSUME NEW s \in SUBSET U, Cardinality(s) = n + 1 PROVE s \in Q
    OBVIOUS
  <2>2. ASSUME NEW x \in s PROVE s \ {x} \in Q
    <3>1. Cardinality(s \ {x}) = Cardinality(s) - 1
      BY <1>1, FS_RemoveElement
    <3>2. Cardinality(s \ {x}) = n /\ s \ {x} \in SUBSET U
      BY <1>3, <2>1, <3>1
    <3> QED
      BY <1>3, <3>2
  <2> QED
    BY <2>2
<1> HIDE DEF C
<1>4. Nat \subseteq C
  BY <1>2, <1>3, Counting
<1> QED
  BY <1>1, <1>4 DEF C

-----------------------------------------------------------------------------
(* sums *)

\* The element that a fold takes first.
First(s) == CHOOSE x \in s : TRUE

Step(g, f, s) == IF s = {} THEN 0 ELSE f[First(s)] + g[s \ {First(s)}]

\* g adds the values of f for the sets of D: the recursion of SumFunctionOnSet.
SumsOn(g, f, D) == g = [s \in D |-> Step(g, f, s)]

\* First takes an element of the set.
LEMMA FirstIsIn == ASSUME NEW s, s # {} PROVE First(s) \in s
BY DEF First

\* The recursion has a solution.
LEMMA SumExists ==
  ASSUME NEW U, IsFiniteSet(U), NEW f
  PROVE  \E g : SumsOn(g, f, SUBSET U)
<1> DEFINE Small(n) == {s \in SUBSET U : Cardinality(s) <= n}
           C == {n \in Nat : \E g : SumsOn(g, f, Small(n))}
<1>1. \A s \in SUBSET U : IsFiniteSet(s) /\ Cardinality(s) \in Nat
  BY FS_Subset, FS_CardinalityType
<1>2. \A s \in SUBSET U : Cardinality(s) = 0 => s = {}
  BY <1>1, FS_EmptySet
<1>3. \A s \in SUBSET U : \A x \in s : Cardinality(s \ {x}) = Cardinality(s) - 1
  BY <1>1, FS_RemoveElement
<1>4. 0 \in C
  <2> DEFINE g == [s \in Small(0) |-> 0]
  <2>1. \A s \in Small(0) : s = {}
    BY <1>1, <1>2
  <2>2. g = [s \in Small(0) |-> Step(g, f, s)]
    <3>1. \A s \in Small(0) : Step(g, f, s) = 0
      BY <2>1 DEF Step
    <3> HIDE DEF Small
    <3> QED
      BY <3>1
  <2>3. SumsOn(g, f, Small(0))
    BY <2>2 DEF SumsOn
  <2> QED
    BY <2>3
<1>5. ASSUME NEW n \in Nat, n \in C PROVE n + 1 \in C
  <2>1. PICK g : SumsOn(g, f, Small(n))
    BY <1>5
  <2> DEFINE h == [s \in Small(n + 1) |-> Step(g, f, s)]
  <2>2. \A s \in Small(n) : s \in Small(n + 1)
    BY <1>1
  <2>3. \A s \in Small(n + 1) : s # {} => s \ {First(s)} \in Small(n)
    <3>1. SUFFICES ASSUME NEW s \in Small(n + 1), s # {} PROVE s \ {First(s)} \in Small(n)
      OBVIOUS
    <3>2. First(s) \in s
      BY <3>1, FirstIsIn
    <3>3. Cardinality(s \ {First(s)}) = Cardinality(s) - 1 /\ Cardinality(s) \in Nat
      BY <1>1, <1>3, <3>2
    <3> QED
      BY <3>3
  <2> HIDE DEF Small
  <2>4. \A s \in Small(n) : g[s] = Step(g, f, s)
    BY <2>1 DEF SumsOn
  <2>5. \A s \in Small(n) : h[s] = g[s]
    BY <2>2, <2>4
  <2>6. \A s \in Small(n + 1) : Step(g, f, s) = Step(h, f, s)
    BY <2>3, <2>5 DEF Step
  <2>7. h = [s \in Small(n + 1) |-> Step(h, f, s)]
    BY <2>6
  <2>8. SumsOn(h, f, Small(n + 1))
    BY <2>7 DEF SumsOn
  <2> QED
    BY <2>8
<1>6. PICK n \in Nat : n = Cardinality(U)
  BY FS_CardinalityType
<1>7. \A s \in SUBSET U : Cardinality(s) <= n
  BY <1>6, FS_Subset
<1>8. Small(n) = SUBSET U
  BY <1>7
<1> HIDE DEF C
<1>9. n \in C
  BY <1>4, <1>5, Counting
<1> HIDE DEF Small
<1> QED
  BY <1>8, <1>9 DEF C

SumsTo(g, f, U) == SumsOn(g, f, SUBSET U)

\* SumFunctionOnSet is a value of a solution.
LEMMA SumIsValue ==
  ASSUME NEW S, IsFiniteSet(S), NEW f
  PROVE  \E g : SumsTo(g, f, S) /\ SumFunctionOnSet(f, S) = g[S]
<1> DEFINE D(g) == g = [s \in SUBSET S |-> IF s = {} THEN 0
                          ELSE f[CHOOSE x \in s : TRUE] + g[s \ {CHOOSE x \in s : TRUE}]]
<1>1. \E g : D(g)
  <2>1. PICK g : SumsTo(g, f, S)
    BY SumExists DEF SumsTo
  <2>2. D(g)
    BY <2>1 DEF SumsTo, SumsOn, Step, First
  <2> HIDE DEF D
  <2> QED
    BY <2>2
<1>2. D(CHOOSE g : D(g))
  BY <1>1, Zenon
<1>3. SumFunctionOnSet(f, S) = (CHOOSE g : D(g))[S]
  BY DEF SumFunctionOnSet, FoldFunctionOnSet, MapThenFoldSet
<1>4. PICK g : D(g) /\ SumFunctionOnSet(f, S) = g[S]
  BY <1>2, <1>3, Zenon
<1>5. SumsTo(g, f, S)
  BY <1>4 DEF SumsTo, SumsOn, Step, First
<1> QED
  BY <1>4, <1>5

\* Two solutions agree where both are defined and the values agree.
LEMMA SumsAgree ==
  ASSUME NEW S, IsFiniteSet(S), NEW U, S \subseteq U, NEW f, NEW e, NEW g, NEW h,
         SumsTo(g, f, S), SumsTo(h, e, U), \A x \in S : f[x] = e[x]
  PROVE  g[S] = h[S]
<1> DEFINE Q == {s \in SUBSET S : g[s] = h[s]}
<1>1. ASSUME NEW s \in SUBSET S, \A x \in s : s \ {x} \in Q PROVE s \in Q
  <2>1. g[s] = Step(g, f, s) /\ h[s] = Step(h, e, s)
    BY DEF SumsTo, SumsOn
  <2>2. Step(g, f, s) = Step(h, e, s)
    <3>1. CASE s = {}
      BY <3>1 DEF Step
    <3>2. CASE s # {}
      <4>1. First(s) \in s
        BY <3>2, FirstIsIn
      <4>2. g[s \ {First(s)}] = h[s \ {First(s)}] /\ f[First(s)] = e[First(s)]
        BY <1>1, <4>1
      <4> QED
        BY <3>2, <4>2 DEF Step
    <3> QED
      BY <3>1, <3>2
  <2> QED
    BY <2>1, <2>2
<1> HIDE DEF Q
<1>2. SUBSET S \subseteq Q
  BY <1>1, BySubsets
<1>3. S \in Q
  BY <1>2
<1> QED
  BY <1>3 DEF Q

\* A sum depends on the values alone.
LEMMA SumOfEquals ==
  ASSUME NEW S, IsFiniteSet(S), NEW f, NEW e, \A x \in S : f[x] = e[x]
  PROVE  SumFunctionOnSet(f, S) = SumFunctionOnSet(e, S)
<1>1. PICK g : SumsTo(g, f, S) /\ SumFunctionOnSet(f, S) = g[S]
  BY SumIsValue
<1>2. PICK h : SumsTo(h, e, S) /\ SumFunctionOnSet(e, S) = h[S]
  BY SumIsValue
<1>3. g[S] = h[S]
  BY <1>1, <1>2, SumsAgree
<1> QED
  BY <1>1, <1>2, <1>3

\* The sum over no index.
LEMMA SumEmpty == ASSUME NEW f PROVE SumFunctionOnSet(f, {}) = 0
<1>1. IsFiniteSet({})
  BY FS_EmptySet
<1>2. PICK g : SumsTo(g, f, {}) /\ SumFunctionOnSet(f, {}) = g[{}]
  BY <1>1, SumIsValue
<1> QED
  BY <1>2 DEF SumsTo, SumsOn, Step

\* An element can be taken from a sum first.
LEMMA SumTakes ==
  ASSUME NEW S, IsFiniteSet(S), NEW f, \A x \in S : f[x] \in Nat
  PROVE  /\ SumFunctionOnSet(f, S) \in Nat
         /\ \A x \in S : SumFunctionOnSet(f, S) = f[x] + SumFunctionOnSet(f, S \ {x})
<1>1. PICK g : SumsTo(g, f, S) /\ SumFunctionOnSet(f, S) = g[S]
  BY SumIsValue
<1>2. ASSUME NEW s \in SUBSET S PROVE SumFunctionOnSet(f, s) = g[s]
  <2>1. IsFiniteSet(s)
    BY FS_Subset
  <2>2. PICK h : SumsTo(h, f, s) /\ SumFunctionOnSet(f, s) = h[s]
    BY <2>1, SumIsValue
  <2>3. PICK e : e = f
    OBVIOUS
  <2>4. h[s] = g[s]
    <3>1. SumsTo(g, e, S) /\ s \subseteq S /\ \A x \in s : f[x] = e[x]
      BY <1>1, <2>3
    <3> QED
      BY <2>1, <2>2, <3>1, SumsAgree
  <2> QED
    BY <2>2, <2>4
<1>8. \A s \in SUBSET S : g[s] \in Nat
  <2> DEFINE Q == {s \in SUBSET S : g[s] \in Nat}
  <2>1. ASSUME NEW s \in SUBSET S, \A x \in s : s \ {x} \in Q PROVE s \in Q
    <3>1. g[s] = Step(g, f, s)
      BY <1>1 DEF SumsTo, SumsOn
    <3>2. s # {} => First(s) \in s
      BY FirstIsIn
    <3>3. CASE s = {}
      BY <3>1, <3>3 DEF Step
    <3>4. CASE s # {}
      <4>1. PICK c \in s : c = First(s)
        BY <3>2, <3>4
      <4>2. g[s] = f[c] + g[s \ {c}] /\ f[c] \in Nat /\ g[s \ {c}] \in Nat
        BY <2>1, <3>1, <3>4, <4>1 DEF Step
      <4> QED
        BY <4>2
    <3> QED
      BY <3>3, <3>4
  <2> HIDE DEF Q
  <2>2. SUBSET S \subseteq Q
    BY <2>1, BySubsets
  <2> QED
    BY <2>2 DEF Q
<1> DEFINE Q == {s \in SUBSET S : \A x \in s : g[s] = f[x] + g[s \ {x}]}
<1>3. ASSUME NEW s \in SUBSET S, \A x \in s : s \ {x} \in Q PROVE s \in Q
  <2>1. g[s] = Step(g, f, s)
    BY <1>1 DEF SumsTo, SumsOn
  <2>2. CASE s = {}
    BY <2>1, <2>2 DEF Step
  <2>3. CASE s # {}
    <3>1. PICK c \in s : c = First(s)
      BY <2>3, FirstIsIn
    <3>2. g[s] = f[c] + g[s \ {c}] /\ f[c] \in Nat
      BY <2>1, <2>3, <3>1 DEF Step
    <3>3. ASSUME NEW x \in s, x # c PROVE g[s] = f[x] + g[s \ {x}]
      <4>1. /\ s \ {c} \in Q /\ x \in s \ {c} /\ s \ {x} \in Q /\ c \in s \ {x}
        BY <1>3, <3>3
      <4>2. /\ g[s \ {c}] = f[x] + g[(s \ {c}) \ {x}]
            /\ g[s \ {x}] = f[c] + g[(s \ {x}) \ {c}]
        BY <4>1
      <4>3. (s \ {c}) \ {x} = (s \ {x}) \ {c}
        OBVIOUS
      <4>4. PICK a \in Nat : a = g[(s \ {c}) \ {x}]
        BY <1>8
      <4>5. f[x] \in Nat
        OBVIOUS
      <4>6. g[s \ {c}] = f[x] + a /\ g[s \ {x}] = f[c] + a
        BY <4>2, <4>3, <4>4
      <4> QED
        BY <3>2, <4>5, <4>6
    <3> QED
      BY <3>2, <3>3
  <2> QED
    BY <2>2, <2>3
<1> HIDE DEF Q
<1>4. SUBSET S \subseteq Q
  BY <1>3, BySubsets
<1>5. S \in Q
  BY <1>4
<1>6. g[S] \in Nat /\ \A x \in S : g[S] = f[x] + g[S \ {x}]
  BY <1>5, <1>8 DEF Q
<1>7. \A x \in S : SumFunctionOnSet(f, S \ {x}) = g[S \ {x}]
  BY <1>2
<1> QED
  BY <1>1, <1>6, <1>7

\* Of fewer indices the sum is no larger.
LEMMA SumOfFewer ==
  ASSUME NEW S, IsFiniteSet(S), NEW f, \A x \in S : f[x] \in Nat, NEW T \in SUBSET S
  PROVE  SumFunctionOnSet(f, T) <= SumFunctionOnSet(f, S)
<1> DEFINE Q == {s \in SUBSET S : T \subseteq s => SumFunctionOnSet(f, T) <= SumFunctionOnSet(f, s)}
<1>0. \A s \in SUBSET S : IsFiniteSet(s)
  BY FS_Subset
<1>1. SumFunctionOnSet(f, T) \in Nat
  BY <1>0, SumTakes
<1>2. ASSUME NEW s \in SUBSET S, \A x \in s : s \ {x} \in Q PROVE s \in Q
  <2>1. CASE T = s
    BY <1>1, <2>1
  <2>2. CASE T # s /\ T \subseteq s
    <3>1. PICK x \in s : x \notin T
      BY <2>2
    <3>2. SumFunctionOnSet(f, T) <= SumFunctionOnSet(f, s \ {x})
      BY <1>2, <2>2, <3>1
    <3>3. /\ SumFunctionOnSet(f, s \ {x}) \in Nat /\ f[x] \in Nat
          /\ SumFunctionOnSet(f, s) = f[x] + SumFunctionOnSet(f, s \ {x})
      BY <1>0, SumTakes
    <3>4. SumFunctionOnSet(f, T) <= SumFunctionOnSet(f, s)
      BY <1>1, <3>2, <3>3
    <3> QED
      BY <3>4
  <2> QED
    BY <2>1, <2>2
<1> HIDE DEF Q
<1>3. SUBSET S \subseteq Q
  BY <1>2, BySubsets
<1>4. S \in Q
  BY <1>3
<1> QED
  BY <1>4 DEF Q

-----------------------------------------------------------------------------
(* the inductive invariant *)

ShardRecords == [file : Nat, margin : Int, head : Int, tail : Int]

Types ==
  /\ pushed \in Nat
  /\ m_data_deque \in Seq(Blocks)
  /\ m_index_block_meta_key \in [Fields -> Keys \cup {NoKey}]
  /\ shard \in [Shards -> ShardRecords]
  /\ m_index_map \in [Fields -> [shard : Shards \cup {NoShard}, deque : Seq(Entries)]]
  /\ m_index_task_queue \in Seq(Fields)
  /\ \E S : files \in Seq(S)

\* The blocks of the deque are numbered on from the last one taken from it.
Taken == pushed - Len(m_data_deque)

InOrder ==
  /\ Taken \in Nat
  /\ \A i \in 1..Len(m_data_deque) : m_data_deque[i].id = Taken + i

\* Field and shard of what is under way are known: Write::write has set the key
\* before it pushed, and the first entry has chosen the shard.
Known ==
  /\ \A i \in 1..Len(m_data_deque) :
       m_index_block_meta_key[FieldOf[m_data_deque[i].key]] # NoKey
  /\ \A f \in Fields : m_index_map[f].deque # <<>> =>
       /\ m_index_map[f].shard # NoShard
       /\ m_index_block_meta_key[f] # NoKey

\* The pending entries by field.
Pending == [f \in Fields |-> EntriesOf(f)]

\* Of the blocks still in the deque there is no entry.
OnlyTaken(P, X) ==
  /\ \A f \in Fields : \A e \in P[f] : e.id \in 1..Taken
  /\ \A x \in X : \A e \in x.entries : e.id \in 1..Taken
  /\ \A d \in data : d.id \in 1..Taken

PendingIn(P, i) == {f \in Fields : \E e \in P[f] : e.id = i}
WrittenIn(X, i) == {x \in X : \E e \in x.entries : e.id = i}

\* With pending entries P and index blocks X, block d has its one entry.
HasEntry(P, X, d) ==
  /\ \/ WrittenIn(X, d.id) = {} /\ \E f \in Fields : PendingIn(P, d.id) = {f}
     \/ PendingIn(P, d.id) = {} /\ \E x \in X : WrittenIn(X, d.id) = {x}
  /\ \A f \in PendingIn(P, d.id) : \E e \in P[f] : e.id = d.id /\ Describes(e, d)
  /\ \A x \in WrittenIn(X, d.id) : \E e \in x.entries : e.id = d.id /\ Describes(e, d)

EntryOfEach == \A d \in data : HasEntry(Pending, index, d)

\* What has been written over is of files that have been left, or under data.
SpoiltWhenLeft == \A x \in spoilt : x \in index /\ MayBeSpoilt(x)

LayoutInv ==
  /\ Types /\ InOrder /\ Known
  /\ OnlyTaken(Pending, index) /\ EntryOfEach

-----------------------------------------------------------------------------
(* entries on their way *)

\* One entry for each block, counted.
LEMMA EntryOfEachSuffices ==
  EntryOfEach /\ SpoiltWhenLeft => OneEntryPerBlock
<1> SUFFICES ASSUME EntryOfEach, SpoiltWhenLeft, NEW d \in data
             PROVE  LET pending == {f \in Fields : \E e \in EntriesOf(f) : e.id = d.id}
                        written == {x \in index : \E e \in x.entries : e.id = d.id}
                    IN /\ Cardinality(pending) + Cardinality(written) = 1
                       /\ \A f \in pending : \E e \in EntriesOf(f) : e.id = d.id /\ Describes(e, d)
                       /\ \A x \in written :
                            /\ \E e \in x.entries : e.id = d.id /\ Describes(e, d)
                            /\ x \in spoilt => MayBeSpoilt(x)
  BY DEF OneEntryPerBlock
<1> DEFINE pending == {f \in Fields : \E e \in EntriesOf(f) : e.id = d.id}
           written == {x \in index : \E e \in x.entries : e.id = d.id}
<1>1. PendingIn(Pending, d.id) = pending /\ WrittenIn(index, d.id) = written
  BY DEF PendingIn, WrittenIn, Pending
<1>2. HasEntry(Pending, index, d)  BY DEF EntryOfEach
<1>3. /\ \A f \in pending : \E e \in EntriesOf(f) : e.id = d.id /\ Describes(e, d)
      /\ \A x \in written : \E e \in x.entries : e.id = d.id /\ Describes(e, d)
  BY <1>1, <1>2 DEF HasEntry, Pending
<1>4. \/ written = {} /\ \E f \in Fields : pending = {f}
      \/ pending = {} /\ \E x \in index : written = {x}
  BY <1>1, <1>2 DEF HasEntry
<1> HIDE DEF pending, written
<1>5. \A x : Cardinality({x}) = 1  BY FS_Singleton
<1>6. Cardinality({}) = 0  BY FS_EmptySet
<1>7. Cardinality(pending) + Cardinality(written) = 1
  <2>1. CASE written = {} /\ \E f \in Fields : pending = {f}
    <3>1. Cardinality(pending) = 1 /\ Cardinality(written) = 0  BY <1>5, <1>6, <2>1, Zenon
    <3> QED  BY <3>1
  <2>2. CASE pending = {} /\ \E x \in index : written = {x}
    <3>1. Cardinality(written) = 1 /\ Cardinality(pending) = 0  BY <1>5, <1>6, <2>2, Zenon
    <3> QED  BY <3>1
  <2> QED  BY <1>4, <2>1, <2>2
<1>8. \A x \in written : x \in spoilt => MayBeSpoilt(x)  BY DEF SpoiltWhenLeft
<1> QED  BY <1>3, <1>7, <1>8 DEF pending, written

\* The entries of the fields L become the index blocks B: P and X turn into Q and Y.
Moves(P, X, L, B, Q, Y) ==
  /\ L \subseteq Fields
  /\ \A g \in L : Q[g] = {} /\ B[g] \in Y /\ B[g].entries = P[g]
  /\ \A g \in Fields \ L : Q[g] = P[g]
  /\ \A y : y \in Y <=> y \in X \/ \E g \in L : y = B[g]

\* An entry joins those of field g: P turns into Q.
Joins(P, g, e, Q) ==
  /\ g \in Fields
  /\ Q[g] = P[g] \cup {e}
  /\ \A f \in Fields \ {g} : Q[f] = P[f]

\* Entries that move into index blocks stay the one entry of their blocks.
LEMMA MovedToIndex ==
  ASSUME NEW P, NEW X, NEW L, NEW B, NEW Q, NEW Y, NEW d,
         HasEntry(P, X, d), Moves(P, X, L, B, Q, Y)
  PROVE  HasEntry(Q, Y, d)
<1>1. PendingIn(Q, d.id) = PendingIn(P, d.id) \ L  BY DEF Moves, PendingIn
<1>2. \A y : y \in WrittenIn(Y, d.id) <=>
               y \in WrittenIn(X, d.id) \/ \E g \in L \cap PendingIn(P, d.id) : y = B[g]
  BY DEF Moves, WrittenIn, PendingIn
<1>3. \A f \in PendingIn(Q, d.id) : \E e \in Q[f] : e.id = d.id /\ Describes(e, d)
  BY <1>1 DEF Moves, HasEntry, PendingIn
<1>4. \A x \in WrittenIn(Y, d.id) : \E e \in x.entries : e.id = d.id /\ Describes(e, d)
  BY <1>2 DEF Moves, HasEntry
<1>5. \/ WrittenIn(Y, d.id) = {} /\ \E f \in Fields : PendingIn(Q, d.id) = {f}
      \/ PendingIn(Q, d.id) = {} /\ \E x \in Y : WrittenIn(Y, d.id) = {x}
  <2>1. CASE PendingIn(P, d.id) = {} /\ \E x \in X : WrittenIn(X, d.id) = {x}
    <3>1. WrittenIn(Y, d.id) = WrittenIn(X, d.id)  BY <1>2, <2>1
    <3> QED  BY <1>1, <2>1, <3>1 DEF Moves
  <2>2. ASSUME NEW f \in Fields, WrittenIn(X, d.id) = {}, PendingIn(P, d.id) = {f}
        PROVE  <1>5
    <3>1. CASE f \in L
      <4>1. PendingIn(Q, d.id) = {} /\ WrittenIn(Y, d.id) = {B[f]}
        BY <1>1, <1>2, <2>2, <3>1
      <4> QED  BY <3>1, <4>1 DEF Moves
    <3>2. CASE f \notin L
      <4>1. PendingIn(Q, d.id) = {f} /\ WrittenIn(Y, d.id) = {}
        <5>1. L \cap PendingIn(P, d.id) = {}  BY <2>2, <3>2
        <5> QED  BY <1>1, <1>2, <2>2, <3>2, <5>1
      <4> QED  BY <4>1
    <3> QED  BY <3>1, <3>2
  <2> QED  BY <2>1, <2>2 DEF HasEntry
<1> QED  BY <1>3, <1>4, <1>5 DEF HasEntry

\* They are entries of blocks taken from the deque.
LEMMA MovedAreTaken ==
  ASSUME NEW P, NEW X, NEW L, NEW B, NEW Q, NEW Y,
         OnlyTaken(P, X), Moves(P, X, L, B, Q, Y)
  PROVE  OnlyTaken(Q, Y)
<1>1. \A f \in Fields : \A e \in Q[f] : e.id \in 1..Taken
  BY DEF Moves, OnlyTaken
<1>2. \A y \in Y : \A e \in y.entries : e.id \in 1..Taken
  BY DEF Moves, OnlyTaken
<1> QED  BY <1>1, <1>2 DEF OnlyTaken

\* Another block's entry joins those of a field.
LEMMA OtherEntryJoins ==
  ASSUME NEW P, NEW X, NEW d, NEW g, NEW e, NEW Q,
         HasEntry(P, X, d), Joins(P, g, e, Q), e.id # d.id
  PROVE  HasEntry(Q, X, d)
<1>1. PendingIn(Q, d.id) = PendingIn(P, d.id)  BY DEF Joins, PendingIn
<1>2. \A f \in PendingIn(Q, d.id) : \E x \in Q[f] : x.id = d.id /\ Describes(x, d)
  BY <1>1 DEF Joins, HasEntry, PendingIn
<1> QED  BY <1>1, <1>2 DEF HasEntry

\* The entry of a block that had none.
LEMMA OwnEntryJoins ==
  ASSUME NEW P, NEW X, NEW d, NEW g, NEW e, NEW Q,
         Joins(P, g, e, Q), e.id = d.id, Describes(e, d),
         \A f \in Fields : \A x \in P[f] : x.id # d.id,
         \A x \in X : \A y \in x.entries : y.id # d.id
  PROVE  HasEntry(Q, X, d)
<1>1. PendingIn(Q, d.id) = {g}  BY DEF Joins, PendingIn
<1>2. WrittenIn(X, d.id) = {}  BY DEF WrittenIn
<1>3. \A f \in PendingIn(Q, d.id) : \E x \in Q[f] : x.id = d.id /\ Describes(x, d)
  BY <1>1 DEF Joins
<1> QED  BY <1>1, <1>2, <1>3 DEF HasEntry, Joins

\* An index block has a size.
LEMMA SizeOfIndex ==
  ASSUME NEW k \in Keys, NEW q \in Seq(Entries)
  PROVE  IndexSize(k, q) \in Int
<1>1. Len(q) \in Nat /\ KeySize[k] \in Nat  BY LayoutAssumption
<1> QED  BY <1>1 DEF IndexSize, MetaSize, EntrySize

EntriesIn(q) == {q[i] : i \in DOMAIN q}

\* An appended entry joins the others.
LEMMA AppendedEntries ==
  ASSUME NEW S, NEW q \in Seq(S), NEW e \in S
  PROVE  EntriesIn(Append(q, e)) = EntriesIn(q) \cup {e}
<1>1. DOMAIN q = 1..Len(q) /\ DOMAIN Append(q, e) = 1..(Len(q) + 1)  OBVIOUS
<1>2. \A i \in 1..Len(q) : Append(q, e)[i] = q[i]  OBVIOUS
<1>3. Append(q, e)[Len(q) + 1] = e  OBVIOUS
<1>4. Len(q) \in Nat  OBVIOUS
<1>5. 1..(Len(q) + 1) = (1..Len(q)) \cup {Len(q) + 1}  BY <1>4
<1> QED  BY <1>1, <1>2, <1>3, <1>5 DEF EntriesIn

\* The head and the tail of a sequence, by position.
LEMMA HeadAndTail ==
  ASSUME NEW S, NEW q \in Seq(S), q # <<>>
  PROVE  /\ Len(q) \in Nat /\ Len(q) # 0
         /\ Head(q) \in S /\ Head(q) = q[1]
         /\ Tail(q) \in Seq(S) /\ Len(Tail(q)) = Len(q) - 1
         /\ \A i \in 1..Len(Tail(q)) : i + 1 \in 1..Len(q) /\ Tail(q)[i] = q[i + 1]
OBVIOUS

\* A sequence with one element changed.
LEMMA SequenceExcept ==
  ASSUME NEW S, NEW q \in Seq(S), NEW i, NEW v
  PROVE  \E T : [q EXCEPT ![i] = v] \in Seq(T)
<1> DEFINE r == [q EXCEPT ![i] = v]
<1>0. q \in [1..Len(q) -> S] /\ Len(q) \in Nat  OBVIOUS
<1>1. r \in [1..Len(q) -> S \cup {v}]  BY <1>0
<1>2. r \in Seq(S \cup {v})  BY <1>1
<1> QED  BY <1>2

-----------------------------------------------------------------------------
(* the steps *)

\* Nothing is under way at the start.
LEMMA LayoutInit == Init => LayoutInv
<1> SUFFICES ASSUME Init PROVE LayoutInv  OBVIOUS
<1>1. Types
  <2>1. \A s \in Shards : shard[s] \in ShardRecords  BY DEF Init, ShardRecords
  <2>2. files \in Seq({})  BY DEF Init
  <2> QED  BY <2>1, <2>2 DEF Init, Types, NoEntries
<1>2. InOrder /\ Known  BY DEF Init, InOrder, Known, Taken, NoEntries
<1>3. \A f \in Fields : EntriesOf(f) = {}  BY DEF Init, EntriesOf, NoEntries
<1>4. OnlyTaken(Pending, index)  BY <1>3 DEF Init, OnlyTaken, Pending
<1>5. EntryOfEach  BY DEF Init, EntryOfEach
<1> QED  BY <1>1, <1>2, <1>4, <1>5 DEF LayoutInv

\* What the entries and blocks are is all that OnlyTaken and EntryOfEach look at.
LEMMA EntriesFrame ==
  ASSUME LayoutInv, UNCHANGED <<m_index_map, index, data>>, Taken' = Taken
  PROVE  OnlyTaken(Pending, index)' /\ EntryOfEach'
<1>1. Pending' = Pending  BY DEF Pending, EntriesOf
<1> QED  BY <1>1 DEF LayoutInv, OnlyTaken, EntryOfEach, HasEntry, PendingIn, WrittenIn, Describes

\* The field of a block in the deque is known.
LEMMA QueuedField ==
  ASSUME LayoutInv, NEW i \in 1..Len(m_data_deque)
  PROVE  FieldOf[m_data_deque[i].key] \in Fields
<1>1. m_data_deque[i] \in Blocks  BY DEF LayoutInv, Types
<1>2. m_data_deque[i].key \in Keys  BY <1>1 DEF Blocks
<1> QED  BY <1>2, LayoutAssumption

\* A block pushed is numbered after the others.
LEMMA LayoutPush ==
  ASSUME LayoutInv, NEW k \in Keys, NEW s \in Shards, NEW size \in Sizes, Push(k, s, size)
  PROVE  LayoutInv'
<1> DEFINE b == [id |-> pushed + 1, key |-> k, shard |-> s, size |-> size]
<1>1. b \in Blocks  BY LayoutAssumption DEF Push, Blocks, LayoutInv, Types
<1>2. /\ m_data_deque' = Append(m_data_deque, b)
      /\ m_data_deque \in Seq(Blocks) /\ m_data_deque' \in Seq(Blocks)
      /\ Len(m_data_deque') = Len(m_data_deque) + 1
      /\ \A i \in 1..Len(m_data_deque) : m_data_deque'[i] = m_data_deque[i]
      /\ m_data_deque'[Len(m_data_deque) + 1] = b
  BY <1>1 DEF Push, LayoutInv, Types
<1>3. pushed \in Nat /\ pushed' = pushed + 1 /\ Len(m_data_deque) \in Nat
  BY <1>2 DEF Push, LayoutInv, Types
<1>4. Taken' = Taken  BY <1>2, <1>3 DEF Taken
<1>5. FieldOf[k] \in Fields /\ k # NoKey  BY LayoutAssumption
<1>6. m_index_block_meta_key' = [m_index_block_meta_key EXCEPT ![FieldOf[k]] = k]
  BY DEF Push
<1>7. \A f \in Fields : m_index_block_meta_key[f] # NoKey => m_index_block_meta_key'[f] # NoKey
  BY <1>5, <1>6 DEF LayoutInv, Types
<1>8. Types'
  BY <1>2, <1>3, <1>5 DEF Push, LayoutInv, Types, fieldVars, diskVars
<1>9. InOrder'
  BY <1>2, <1>3, <1>4 DEF LayoutInv, InOrder, Taken
<1>10. Known'
  <2>1. m_index_block_meta_key'[FieldOf[k]] # NoKey
    BY <1>5, <1>6 DEF LayoutInv, Types
  <2>2. \A i \in 1..Len(m_data_deque) : FieldOf[m_data_deque[i].key] \in Fields
    BY QueuedField
  <2>3. \A i \in 1..Len(m_data_deque') : m_index_block_meta_key'[FieldOf[m_data_deque'[i].key]] # NoKey
    BY <1>2, <1>3, <1>7, <2>1, <2>2 DEF LayoutInv, Known
  <2> QED  BY <1>7, <2>3 DEF LayoutInv, Known, Push, fieldVars
<1>11. UNCHANGED <<m_index_map, index, data>>  BY DEF Push, fieldVars, diskVars
<1> QED  BY <1>4, <1>8, <1>9, <1>10, <1>11, EntriesFrame DEF LayoutInv

\* Steps that leave blocks, entries and shards alone.
LEMMA LayoutFrame ==
  ASSUME LayoutInv, UNCHANGED <<m_data_deque, pushed, shard, m_index_map, diskVars>>,
         m_index_task_queue' \in Seq(Fields),
         m_index_block_meta_key' \in [Fields -> Keys \cup {NoKey}],
         \A f \in Fields : m_index_block_meta_key[f] # NoKey => m_index_block_meta_key'[f] # NoKey
  PROVE  LayoutInv'
<1>1. Types' /\ InOrder'  BY DEF LayoutInv, Types, InOrder, Taken, diskVars
<1>2. \A i \in 1..Len(m_data_deque) : FieldOf[m_data_deque[i].key] \in Fields
  BY QueuedField
<1>3. Known'  BY <1>2 DEF LayoutInv, Known
<1>4. Taken' = Taken  BY DEF Taken
<1> QED  BY <1>1, <1>3, <1>4, EntriesFrame DEF LayoutInv, diskVars

\* A write sets the key of its field.
LEMMA LayoutTouch ==
  ASSUME LayoutInv, NEW k \in Keys, Touch(k)
  PROVE  LayoutInv'
<1>1. FieldOf[k] \in Fields /\ k # NoKey  BY LayoutAssumption
<1>2. m_index_block_meta_key' = [m_index_block_meta_key EXCEPT ![FieldOf[k]] = k]
  BY DEF Touch
<1> QED  BY <1>1, <1>2, LayoutFrame DEF Touch, fieldVars, LayoutInv, Types

\* The task queue holds fields.
LEMMA PushTaskType ==
  ASSUME NEW q \in Seq(Fields), NEW f \in Fields
  PROVE  PushTask(q, f) \in Seq(Fields)
BY DEF PushTask

\* The monitor only adds a task.
LEMMA LayoutMonitor ==
  ASSUME LayoutInv, NEW f \in Fields, NEW late \in BOOLEAN, MonitorPushesTask(f, late)
  PROVE  LayoutInv'
<1>1. m_index_task_queue' \in Seq(Fields)
  BY PushTaskType DEF MonitorPushesTask, LayoutInv, Types
<1> QED  BY <1>1, LayoutFrame DEF MonitorPushesTask, queueVars, LayoutInv, Types

\* Passes that find nothing.
LEMMA LayoutIdle ==
  ASSUME LayoutInv, StaleTask \/ NoTask \/ EndFlush
  PROVE  LayoutInv'
<1>1. m_index_task_queue \in Seq(Fields)  BY DEF LayoutInv, Types
<1>2. m_index_task_queue' \in Seq(Fields)
  <2>1. CASE StaleTask
    BY <1>1, <2>1 DEF StaleTask
  <2>2. CASE NoTask \/ EndFlush
    BY <1>1, <2>2 DEF NoTask, EndFlush, fieldVars
  <2> QED  BY <2>1, <2>2
<1> QED  BY <1>2, LayoutFrame DEF StaleTask, NoTask, EndFlush, queueVars, fieldVars, LayoutInv, Types

\* The pending entries of a field move into its index block.
LEMMA LayoutWriteIndex ==
  ASSUME LayoutInv, WriteIndex
  PROVE  LayoutInv'
<1> DEFINE f == Head(m_index_task_queue)
           key == m_index_block_meta_key[f]
           entries == m_index_map[f].deque
           s == m_index_map[f].shard
           sh == Lowered(shard[s], IndexSize(key, entries))
           x == IndexBlock(sh.file, sh.tail, key, entries)
<1>1. /\ f \in Fields /\ Tail(m_index_task_queue) \in Seq(Fields)
      /\ entries # <<>> /\ entries \in Seq(Entries)
      /\ s \in Shards /\ key \in Keys
  <2>1. m_index_task_queue \in Seq(Fields) /\ m_index_task_queue # <<>>
    BY DEF WriteIndex, LayoutInv, Types
  <2>2. f \in Fields /\ Tail(m_index_task_queue) \in Seq(Fields)  BY <2>1
  <2>3. entries # <<>>  BY DEF WriteIndex
  <2> QED  BY <2>2, <2>3 DEF LayoutInv, Types, Known
<1>2. /\ index' = index \cup {x}
      /\ m_index_map' = [m_index_map EXCEPT ![f] = NoEntries]
      /\ shard' = [shard EXCEPT ![s] = sh]
      /\ m_index_task_queue' = Tail(m_index_task_queue)
      /\ UNCHANGED <<m_data_deque, pushed, m_index_block_meta_key, data>>
  BY DEF WriteIndex, queueVars
<1>3. \E i, v : files' = [files EXCEPT ![i] = v]
  BY Zenon DEF WriteIndex
<1>4. sh \in ShardRecords
  <2>1. IndexSize(key, entries) \in Int  BY <1>1, SizeOfIndex
  <2>2. shard[s] \in ShardRecords  BY <1>1 DEF LayoutInv, Types
  <2> HIDE DEF key, entries, s
  <2> QED  BY <2>1, <2>2 DEF Lowered, ShardRecords
<1>5. x.entries = EntriesOf(f)  BY DEF IndexBlock, EntriesOf
<1> HIDE DEF f, key, entries, s, sh, x
<1>6. NoEntries \in [shard : Shards \cup {NoShard}, deque : Seq(Entries)]
  BY DEF NoEntries
<1>7. Types'
  <2>1. PICK S : files \in Seq(S)  BY DEF LayoutInv, Types
  <2>2. \E T : files' \in Seq(T)  BY <1>3, <2>1, SequenceExcept
  <2>3. shard' \in [Shards -> ShardRecords]  BY <1>1, <1>2, <1>4 DEF LayoutInv, Types
  <2>4. m_index_map' \in [Fields -> [shard : Shards \cup {NoShard}, deque : Seq(Entries)]]
    BY <1>1, <1>2, <1>6 DEF LayoutInv, Types
  <2> QED  BY <1>1, <1>2, <2>2, <2>3, <2>4 DEF LayoutInv, Types
<1>8. InOrder' /\ Taken' = Taken  BY <1>2 DEF LayoutInv, InOrder, Taken
<1>9. /\ m_index_map'[f].deque = <<>>
      /\ \A g \in Fields \ {f} : m_index_map'[g] = m_index_map[g]
  BY <1>1, <1>2 DEF LayoutInv, Types, NoEntries
<1>10. Known'
  BY <1>1, <1>2, <1>9 DEF LayoutInv, Known
<1>11. Moves(Pending, index, {f}, [g \in {f} |-> x], Pending', index')
  <2>1. Pending'[f] = {}
    <3>1. DOMAIN <<>> = {}  OBVIOUS
    <3>2. \A g \in Fields : m_index_map'[g].deque = <<>> => Pending'[g] = {}
      BY <3>1 DEF EntriesOf, Pending
    <3> QED  BY <1>1, <1>9, <3>2
  <2>2. \A g \in Fields \ {f} : Pending'[g] = Pending[g]
    BY <1>9 DEF EntriesOf, Pending
  <2>3. x.entries = Pending[f]  BY <1>1, <1>5 DEF Pending
  <2> QED  BY <1>1, <1>2, <2>1, <2>2, <2>3 DEF Moves
<1>12. OnlyTaken(Pending', index')  BY <1>11, MovedAreTaken DEF LayoutInv
<1>13. OnlyTaken(Pending, index)'  BY <1>2, <1>8, <1>12 DEF OnlyTaken
<1>14. \A d \in data : HasEntry(Pending', index', d)
  BY <1>11, MovedToIndex DEF LayoutInv, EntryOfEach
<1>15. EntryOfEach'
  BY <1>2, <1>14 DEF EntryOfEach, HasEntry, PendingIn, WrittenIn, Describes
<1> QED  BY <1>7, <1>8, <1>10, <1>13, <1>15 DEF LayoutInv

\* R has a block B[g] for each field of L, the fields with entries.
Leave(L, B, R) ==
  /\ L \subseteq Fields
  /\ \A g \in Fields \ L : Pending[g] = {}
  /\ \A g \in L : B[g].entries = Pending[g]
  /\ \A x : x \in R <=> \E g \in L : x = B[g]

\* Leaving a file moves the pending entries of all fields.
LEMMA ResidueMoves ==
  ASSUME NEW f, NEW n, NEW tail
  PROVE  \E L, B : Leave(L, B, Residue(f, n, tail))
<1> DEFINE key == m_index_block_meta_key[f]
           size == [g \in Fields |-> IndexSize(key, m_index_map[g].deque)]
           L == {g \in Fields : m_index_map[g].deque # <<>>}
           at(g) == tail - SumFunctionOnSet(size, {h \in L : h < g})
           B == [g \in L |-> IndexBlock(n, at(g), key, m_index_map[g].deque)]
<1>1. Residue(f, n, tail) = {IndexBlock(n, at(g), key, m_index_map[g].deque) : g \in L}
  BY Zenon DEF Residue
<1> HIDE DEF key, size, at
<1>2. \A g \in L : B[g].entries = Pending[g]
  BY DEF IndexBlock, Pending, EntriesOf
<1>3. DOMAIN <<>> = {}  OBVIOUS
<1>4. \A g \in Fields \ L : Pending[g] = {}  BY <1>3 DEF Pending, EntriesOf
<1>5. \A x : x \in Residue(f, n, tail) <=> \E g \in L : x = B[g]  BY <1>1
<1>6. L \in SUBSET Fields  OBVIOUS
<1> HIDE DEF B, L
<1>7. Leave(L, B, Residue(f, n, tail))  BY <1>2, <1>4, <1>5, <1>6 DEF Leave
<1> QED  BY <1>7

\* A shard that has paid for a block is a shard.
LEMMA ChargedShard ==
  ASSUME NEW sh \in ShardRecords, NEW b \in Blocks, NEW meta \in Int
  PROVE  Charged(sh, b, meta) \in ShardRecords
<1>1. b.size \in Nat  BY LayoutAssumption DEF Blocks
<1>2. sh.margin - b.size - EntrySize - meta \in Int /\ sh.head + b.size \in Int
  BY <1>1 DEF ShardRecords, EntrySize
<1> QED  BY <1>2 DEF Charged, ShardRecords

\* The files with one of them changed are files.
LEMMA FilesExcept ==
  ASSUME NEW S, NEW q \in Seq(S), NEW i, NEW n
  PROVE  \E T : [q EXCEPT ![i].length = Grown(@, n)] \in Seq(T)
<1>1. [q EXCEPT ![i].length = Grown(@, n)] =
      [q EXCEPT ![i] = [q[i] EXCEPT !.length = Grown(q[i].length, n)]]
  OBVIOUS
<1> QED  BY <1>1, SequenceExcept

\* A data block leaves the deque and gets its entry.
LEMMA LayoutWriteBlock ==
  ASSUME LayoutInv, NEW late \in BOOLEAN, WriteBlock(late)
  PROVE  LayoutInv'
<1> DEFINE b == Head(m_data_deque)
           f == FieldOf[b.key]
           old == shard[b.shard]
           full == old.file # 0 /\ ~HasRoom(old, b)
           sh == IF full \/ old.file = 0 THEN Fresh(Len(files) + 1) ELSE old
           residue == IF full THEN Residue(f, old.file, old.tail) ELSE {}
           closed == IF full THEN [files EXCEPT ![old.file] = Closed(@, residue)] ELSE files
           opened == IF sh.file > Len(files)
                     THEN Append(closed, [length |-> FileSize, footer |-> 0]) ELSE closed
           kept == Kept(full)
           e == [id |-> b.id, offset |-> sh.head, size |-> b.size]
           meta == IF m_create_meta[f] THEN 0 ELSE MetaSize(m_index_block_meta_key[f])
           d == [id |-> b.id, key |-> b.key, file |-> sh.file, from |-> sh.head, size |-> b.size]
           entries == AddEntry(kept[f], b.shard, e)
<1>1. /\ index' = index \cup residue
      /\ files' = [opened EXCEPT ![sh.file].length = Grown(@, sh.head + b.size)]
      /\ data' = data \cup {d}
      /\ shard' = [shard EXCEPT ![b.shard] = Charged(sh, b, meta)]
      /\ m_index_map' = [kept EXCEPT ![f] = entries]
      /\ \/ m_index_task_queue' = PushTask(m_index_task_queue, f)
         \/ m_index_task_queue' = m_index_task_queue
      /\ m_data_deque # <<>> /\ m_data_deque' = Tail(m_data_deque)
      /\ UNCHANGED <<pushed, m_index_block_meta_key>>
  BY DEF WriteBlock
<1> HIDE DEF b
<1>2. /\ b \in Blocks /\ FieldOf[b.key] \in Fields /\ b.id = Taken + 1
      /\ m_index_block_meta_key[FieldOf[b.key]] \in Keys
  <2>1. m_data_deque \in Seq(Blocks)  BY DEF LayoutInv, Types
  <2>2. Len(m_data_deque) \in Nat /\ Len(m_data_deque) # 0 /\ b \in Blocks /\ b = m_data_deque[1]
    BY <1>1, <2>1, HeadAndTail DEF b
  <2>3. 1 \in 1..Len(m_data_deque)  BY <2>2
  <2>4. FieldOf[b.key] \in Fields  BY <2>2, <2>3, QueuedField
  <2> QED  BY <2>2, <2>3, <2>4 DEF LayoutInv, InOrder, Known, Types
<1>3. b.id \in 1..MaxBlocks /\ b.key \in Keys /\ b.shard \in Shards /\ b.size \in Sizes
      /\ b.size \in Nat /\ b.shard # NoShard
  BY <1>2, LayoutAssumption DEF Blocks
<1>4. sh \in ShardRecords
  <2>1. old \in ShardRecords  BY <1>3 DEF LayoutInv, Types
  <2>2. Len(files) \in Nat  BY DEF LayoutInv, Types
  <2>3. Fresh(Len(files) + 1) \in ShardRecords
    BY <2>2, LayoutAssumption DEF Fresh, ShardRecords, HeaderSize, FooterSize
  <2> HIDE DEF full, old
  <2> QED  BY <2>1, <2>3
<1>5. Charged(sh, b, meta) \in ShardRecords
  <2>1. meta \in Int
    <3>1. KeySize[m_index_block_meta_key[f]] \in Nat  BY <1>2, LayoutAssumption
    <3> QED  BY <3>1 DEF MetaSize
  <2> HIDE DEF sh, meta
  <2> QED  BY <1>2, <1>4, <2>1, ChargedShard
<1>6. e \in Entries
  <2>1. sh.head \in Int  BY <1>4 DEF ShardRecords
  <2> HIDE DEF sh
  <2> QED  BY <1>3, <2>1 DEF Entries
<1>7. e.id = Taken + 1 /\ d.id = Taken + 1 /\ Describes(e, d)
  BY <1>2 DEF Describes
<1> DEFINE Infos == [shard : Shards \cup {NoShard}, deque : Seq(Entries)]
<1>8. /\ f \in Fields
      /\ kept \in [Fields -> Infos]
      /\ full => \A g \in Fields : kept[g] = NoEntries
      /\ ~full => kept = m_index_map
  BY <1>2 DEF LayoutInv, Types, Kept, NoEntries
<1>9. \E S : files' \in Seq(S)
  <2>1. PICK S : files \in Seq(S)  BY DEF LayoutInv, Types
  <2>2. PICK T : closed \in Seq(T)
    <3> HIDE DEF old, residue, full
    <3>1. CASE full  BY <2>1, <3>1, SequenceExcept
    <3>2. CASE ~full  BY <2>1, <3>2
    <3> QED  BY <3>1, <3>2
  <2>3. PICK U : opened \in Seq(U)
    <3> HIDE DEF closed, sh
    <3> DEFINE x == [length |-> FileSize, footer |-> 0]
    <3>1. closed \in Seq(T \cup {x})  BY <2>2
    <3>2. Append(closed, x) \in Seq(T \cup {x})  BY <3>1
    <3> QED  BY <3>1, <3>2
  <2> HIDE DEF opened, sh
  <2> QED  BY <1>1, <2>3, FilesExcept
<1>10. shard' \in [Shards -> ShardRecords]
  <2> HIDE DEF sh, meta
  <2> QED  BY <1>1, <1>3, <1>5 DEF LayoutInv, Types
<1> HIDE DEF f, full, sh, residue, opened, kept, meta
<1>11. entries = [shard |-> IF kept[f].shard = NoShard THEN b.shard ELSE kept[f].shard,
                  deque |-> Append(kept[f].deque, e)]
  BY DEF AddEntry
<1>12. kept[f] \in Infos  BY <1>8
<1> HIDE DEF entries, e
<1>13. entries \in Infos /\ entries.shard # NoShard  BY <1>3, <1>6, <1>11, <1>12
<1>14. /\ m_index_map'[f] = entries
       /\ \A g \in Fields \ {f} : m_index_map'[g] = kept[g]
       /\ m_index_map' \in [Fields -> Infos]
  BY <1>1, <1>8, <1>13
<1>15. /\ m_data_deque' \in Seq(Blocks)
       /\ Len(m_data_deque) \in Nat /\ Len(m_data_deque') = Len(m_data_deque) - 1
       /\ \A i \in 1..Len(m_data_deque') :
            i + 1 \in 1..Len(m_data_deque) /\ m_data_deque'[i] = m_data_deque[i + 1]
  <2>1. m_data_deque \in Seq(Blocks)  BY DEF LayoutInv, Types
  <2> QED  BY <1>1, <2>1, HeadAndTail
<1>16. m_index_task_queue' \in Seq(Fields)
  BY <1>1, <1>8, PushTaskType DEF LayoutInv, Types
<1>17. Types'
  BY <1>1, <1>9, <1>10, <1>14, <1>15, <1>16 DEF LayoutInv, Types
<1>18. Taken' = Taken + 1 /\ Taken \in Nat
  BY <1>1, <1>15 DEF LayoutInv, Types, InOrder, Taken
<1>19. InOrder'
  <2>1. \A i \in 1..Len(m_data_deque') : m_data_deque'[i].id = Taken + (i + 1)
    BY <1>15 DEF LayoutInv, InOrder
  <2> QED  BY <1>15, <1>18, <2>1 DEF InOrder
<1>20. Known'
  <2>1. \A i \in 1..Len(m_data_deque') : m_index_block_meta_key'[FieldOf[m_data_deque'[i].key]] # NoKey
    BY <1>1, <1>15 DEF LayoutInv, Known
  <2>2. m_index_block_meta_key[f] # NoKey  BY <1>2, LayoutAssumption DEF f
  <2>3. \A g \in Fields \ {f} : m_index_map'[g].deque # <<>> =>
          /\ m_index_map'[g].shard # NoShard
          /\ m_index_block_meta_key[g] # NoKey
    BY <1>8, <1>14 DEF LayoutInv, Known, NoEntries
  <2> QED  BY <1>1, <1>13, <1>14, <2>1, <2>2, <2>3 DEF Known
<1> DEFINE Q == [g \in Fields |-> EntriesIn(kept[g].deque)]
<1>21. OnlyTaken(Q, index') /\ \A c \in data : HasEntry(Q, index', c)
  <2>1. CASE full
    <3>1. PICK L, B : Leave(L, B, residue)
      <4>1. PICK g, n, tail : residue = Residue(g, n, tail)
        BY <2>1, Zenon DEF residue
      <4> QED  BY <4>1, ResidueMoves
    <3>2. \A g \in Fields : Q[g] = {}
      <4>1. DOMAIN <<>> = {}  OBVIOUS
      <4> QED  BY <1>8, <2>1, <4>1 DEF NoEntries, EntriesIn
    <3> HIDE DEF Q
    <3>3. Moves(Pending, index, L, B, Q, index')  BY <1>1, <3>1, <3>2 DEF Moves, Leave
    <3> QED  BY <3>3, MovedToIndex, MovedAreTaken DEF LayoutInv, EntryOfEach
  <2>2. CASE ~full
    <3>1. index' = index  BY <1>1, <2>2 DEF residue
    <3>2. Q = Pending  BY <1>8, <2>2 DEF Pending, EntriesOf, EntriesIn
    <3> QED  BY <3>1, <3>2 DEF LayoutInv, EntryOfEach
  <2> QED  BY <2>1, <2>2
<1>22. Joins(Q, f, e, Pending')
  <2>1. Pending'[f] = EntriesIn(entries.deque)
    BY <1>8, <1>14 DEF Pending, EntriesOf, EntriesIn
  <2>2. EntriesIn(Append(kept[f].deque, e)) = EntriesIn(kept[f].deque) \cup {e}
    <3>1. kept[f].deque \in Seq(Entries)  BY <1>12
    <3> QED  BY <1>6, <3>1, AppendedEntries
  <2>3. Pending'[f] = Q[f] \cup {e}  BY <1>8, <1>11, <2>1, <2>2
  <2>4. \A g \in Fields \ {f} : Pending'[g] = Q[g]
    BY <1>14 DEF Pending, EntriesOf, EntriesIn
  <2> QED  BY <1>8, <2>3, <2>4 DEF Joins
<1> HIDE DEF Q
<1>23. OnlyTaken(Pending, index)'
  <2>1. \A g \in Fields : \A x \in Pending'[g] : x.id = Taken + 1 \/ x.id \in 1..Taken
    BY <1>7, <1>21, <1>22 DEF Joins, OnlyTaken
  <2>3. \A c \in data : c.id \in 1..Taken  BY DEF LayoutInv, OnlyTaken
  <2>2. \A c \in data' : c = d \/ c.id \in 1..Taken
    BY <1>1, <2>3
  <2>4. 1..Taken \subseteq 1..(Taken + 1) /\ Taken + 1 \in 1..(Taken + 1)  BY <1>18
  <2>5. \A x \in index' : \A y \in x.entries : y.id \in 1..(Taken + 1)
    BY <1>21, <2>4 DEF OnlyTaken
  <2> HIDE DEF d
  <2> QED  BY <1>1, <1>7, <1>8, <1>18, <2>1, <2>2, <2>4, <2>5 DEF OnlyTaken
<1>24. EntryOfEach'
  <2> SUFFICES ASSUME NEW c \in data' PROVE HasEntry(Pending', index', c)
    BY DEF EntryOfEach, HasEntry, PendingIn, WrittenIn, Describes
  <2>1. CASE c \in data
    <3>1. c.id \in 1..Taken  BY <2>1 DEF LayoutInv, OnlyTaken
    <3>2. e.id # c.id  BY <1>7, <1>18, <3>1
    <3> QED  BY <1>21, <1>22, <2>1, <3>2, OtherEntryJoins
  <2>2. CASE c = d
    <3>1. /\ \A g \in Fields : \A x \in Q[g] : x.id # d.id
          /\ \A x \in index' : \A y \in x.entries : y.id # d.id
      <4>1. Taken + 1 \notin 1..Taken  BY <1>18
      <4> HIDE DEF d
      <4> QED  BY <1>7, <1>21, <4>1 DEF OnlyTaken
    <3> QED  BY <1>7, <1>22, <2>2, <3>1, OwnEntryJoins
  <2> QED  BY <1>1, <2>1, <2>2
<1> QED  BY <1>17, <1>19, <1>20, <1>23, <1>24 DEF LayoutInv

-----------------------------------------------------------------------------

\* What FlushDisk keeps of files, queue, entries and index tasks is well formed, and
\* each block written has its entry, for any sizes, limits and numbers of fields and
\* shards.
THEOREM LayoutInvariant == Spec => []LayoutInv
<1>1. ASSUME LayoutInv, [Next]_vars PROVE LayoutInv'
  <2>1. CASE UNCHANGED vars
    <3>1. m_index_task_queue \in Seq(Fields)
          /\ m_index_block_meta_key \in [Fields -> Keys \cup {NoKey}]
      BY <1>1 DEF LayoutInv, Types
    <3> QED  BY <1>1, <2>1, <3>1, LayoutFrame DEF vars, queueVars, fieldVars
  <2>2. ASSUME NEW k \in Keys, NEW s \in Shards, NEW size \in Sizes, Push(k, s, size)
        PROVE  LayoutInv'
    BY <1>1, <2>2, LayoutPush
  <2>3. ASSUME NEW k \in Keys, Touch(k) PROVE LayoutInv'
    BY <1>1, <2>3, LayoutTouch
  <2>4. ASSUME NEW f \in Fields, NEW late \in BOOLEAN, MonitorPushesTask(f, late)
        PROVE  LayoutInv'
    BY <1>1, <2>4, LayoutMonitor
  <2>5. CASE WriteIndex  BY <1>1, <2>5, LayoutWriteIndex
  <2>6. CASE StaleTask \/ NoTask \/ EndFlush  BY <1>1, <2>6, LayoutIdle
  <2>7. ASSUME NEW late \in BOOLEAN, WriteBlock(late) PROVE LayoutInv'
    BY <1>1, <2>7, LayoutWriteBlock
  <2> QED  BY <1>1, <2>1, <2>2, <2>3, <2>4, <2>5, <2>6, <2>7 DEF Next
<1> QED  BY <1>1, LayoutInit, PTL DEF Spec

-----------------------------------------------------------------------------
(* the room in the files of one shard *)

\* What the theorems about the layout of a file suppose.
OneKeyLength == \A k, l \in Keys : KeySize[k] = KeySize[l]

BlocksFit ==
  \A size \in Sizes, k \in Keys :
    size + EntrySize + MetaSize(k) <= FileSize - (HeaderSize + FooterSize)

BlocksOutweighMeta == \A size \in Sizes, k \in Keys : size >= MetaSize(k)

Waiting == {f \in Fields : m_index_map[f].deque # <<>>}

Weights == [f \in Fields |-> IndexSize(m_index_block_meta_key[f], m_index_map[f].deque)]

\* What the index blocks of all pending entries will take.
Load == SumFunctionOnSet(Weights, Waiting)

End == FileSize - FooterSize

\* One shard s has all files, the last of them its current one.
Single(s) ==
  /\ m_create_meta \in [Fields -> BOOLEAN]
  /\ \A f \in Fields : m_index_map[f].shard = NoShard <=> m_index_map[f].deque = <<>>
  /\ \A f \in Fields : ~m_create_meta[f] => m_index_map[f].deque = <<>>
  /\ shard[s].file = Len(files)
  /\ shard[s].file = 0 => data = {} /\ index = {} /\ \A f \in Fields : ~m_create_meta[f]
  /\ shard[s].file = 1 => \A f \in Fields : m_create_meta[f] => f \in Waiting
  /\ \A d \in data : d.file \in 1..Len(files) /\ d.from \in Int /\ d.size \in Sizes
  /\ \A x \in index : x.file \in 1..Len(files) /\ x.from \in Int /\ x.size \in Nat \ {0}

\* What the index block of a waiting field will take.
LEMMA WeightType ==
  ASSUME LayoutInv, NEW f \in Waiting
  PROVE  /\ Weights[f] \in Nat \ {0}
         /\ m_index_block_meta_key[f] \in Keys /\ KeySize[m_index_block_meta_key[f]] \in Nat
         /\ Weights[f] = EntrySize * Len(m_index_map[f].deque)
                           + 8 + KeySize[m_index_block_meta_key[f]]
         /\ Len(m_index_map[f].deque) \in Nat
<1>1. f \in Fields /\ m_index_map[f].deque # <<>>
  BY DEF Waiting
<1>2. m_index_block_meta_key[f] \in Keys /\ m_index_map[f].deque \in Seq(Entries)
  BY <1>1 DEF LayoutInv, Types, Known
<1>3. KeySize[m_index_block_meta_key[f]] \in Nat
  BY <1>2, LayoutAssumption
<1>4. PICK n \in Nat : n = Len(m_index_map[f].deque)
  BY <1>2
<1>5. Weights[f] = EntrySize * n + (8 + KeySize[m_index_block_meta_key[f]])
  BY <1>1, <1>4 DEF Weights, IndexSize, MetaSize
<1>6. PICK k \in Nat : k = KeySize[m_index_block_meta_key[f]]
  BY <1>3
<1>7. EntrySize * n + (8 + k) \in Nat \ {0} /\ EntrySize * n + (8 + k) = EntrySize * n + 8 + k
  BY DEF EntrySize
<1> QED
  BY <1>2, <1>3, <1>4, <1>5, <1>6, <1>7

Weighed ==
  \A f \in Waiting :
    /\ Weights[f] \in Nat \ {0}
    /\ m_index_block_meta_key[f] \in Keys /\ KeySize[m_index_block_meta_key[f]] \in Nat
    /\ Weights[f] = EntrySize * Len(m_index_map[f].deque)
                      + 8 + KeySize[m_index_block_meta_key[f]]
    /\ Len(m_index_map[f].deque) \in Nat

\* The same for all of them, as a fact of a state.
LEMMA WeightTypes == LayoutInv => Weighed
BY WeightType DEF Weighed

\* Few fields wait.
LEMMA WaitingFinite == IsFiniteSet(Waiting)
<1>1. Waiting \subseteq Fields
  BY DEF Waiting
<1> QED
  BY <1>1, LayoutAssumption, FS_Subset

LoadIsNat == Load \in Nat

\* The load is a number of bytes.
LEMMA LoadType == LayoutInv => LoadIsNat
<1> SUFFICES ASSUME LayoutInv PROVE Load \in Nat
  BY DEF LoadIsNat
<1>1. \A f \in Waiting : Weights[f] \in Nat
  BY WeightType
<1> QED
  BY <1>1, WaitingFinite, SumTakes DEF Load

\* The load is the margin's PendingSize.
LEMMA LoadIsPending ==
  ASSUME LayoutInv, NEW s, Shards = {s}, Single(s)
  PROVE  PendingSize(s) = Load
<1> DEFINE pending == {f \in Fields : m_index_map[f].shard = s}
           sizes == [f \in pending |-> IndexSize(m_index_block_meta_key[f], m_index_map[f].deque)]
<1>1. PendingSize(s) = SumFunctionOnSet(sizes, DOMAIN sizes)
  BY DEF PendingSize, SumFunction
<1>2. pending = Waiting
  <2>1. \A f \in Fields : m_index_map[f].shard \in {s, NoShard}
    BY DEF LayoutInv, Types
  <2>2. s # NoShard
    BY LayoutAssumption
  <2> QED
    BY <2>1, <2>2 DEF Single, Waiting
<1>3. DOMAIN sizes = Waiting
  BY <1>2
<1>4. \A f \in Waiting : sizes[f] = Weights[f]
  BY <1>2 DEF Weights
<1> HIDE DEF sizes
<1> QED
  BY <1>1, <1>3, <1>4, WaitingFinite, SumOfEquals DEF Load

\* Two sums over sets that agree but for x.
LEMMA SumChange ==
  ASSUME NEW S, IsFiniteSet(S), NEW T, IsFiniteSet(T), NEW f, NEW e, NEW x,
         \A y \in S : f[y] \in Nat, \A y \in T : e[y] \in Nat,
         S \ {x} = T \ {x}, \A y \in S \ {x} : f[y] = e[y]
  PROVE  SumFunctionOnSet(f, S) + (IF x \in T THEN e[x] ELSE 0)
           = SumFunctionOnSet(e, T) + (IF x \in S THEN f[x] ELSE 0)
<1>1. IsFiniteSet(S \ {x})
  BY FS_Subset
<1>2. PICK a : a = SumFunctionOnSet(f, S \ {x})
  OBVIOUS
<1>3. SumFunctionOnSet(e, T \ {x}) = a /\ a \in Nat
  <2>1. SumFunctionOnSet(f, S \ {x}) = SumFunctionOnSet(e, S \ {x})
    BY <1>1, SumOfEquals
  <2>2. \A y \in S \ {x} : f[y] \in Nat
    OBVIOUS
  <2>3. SumFunctionOnSet(f, S \ {x}) \in Nat
    BY <1>1, <2>2, SumTakes
  <2> QED
    BY <1>2, <2>1, <2>3
<1>4. SumFunctionOnSet(f, S) = a + (IF x \in S THEN f[x] ELSE 0)
  <2>1. CASE x \in S
    <3>1. SumFunctionOnSet(f, S) = f[x] + a
      BY <1>2, <2>1, SumTakes
    <3> QED
      BY <1>3, <2>1, <3>1
  <2>2. CASE x \notin S
    <3>1. S \ {x} = S
      BY <2>2
    <3>2. SumFunctionOnSet(f, S) = a
      BY <1>2, <3>1
    <3> QED
      BY <1>3, <2>2, <3>2
  <2> QED
    BY <2>1, <2>2
<1>5. SumFunctionOnSet(e, T) = a + (IF x \in T THEN e[x] ELSE 0)
  <2>1. CASE x \in T
    <3>1. SumFunctionOnSet(e, T) = e[x] + SumFunctionOnSet(e, T \ {x})
      BY <2>1, SumTakes
    <3> QED
      BY <1>3, <2>1, <3>1
  <2>2. CASE x \notin T
    <3>1. T \ {x} = T
      BY <2>2
    <3>2. SumFunctionOnSet(e, T) = a
      BY <1>3, <3>1
    <3> QED
      BY <1>3, <2>2, <3>2
  <2> QED
    BY <2>1, <2>2
<1>6. PICK b \in Nat : b = IF x \in S THEN f[x] ELSE 0
  OBVIOUS
<1>7. PICK c \in Nat : c = IF x \in T THEN e[x] ELSE 0
  OBVIOUS
<1>8. (a + b) + c = (a + c) + b
  BY <1>3
<1> QED
  BY <1>4, <1>5, <1>6, <1>7, <1>8, Zenon

\* How the load changes with the entries of one field.
LEMMA LoadStep ==
  ASSUME LayoutInv, LayoutInv', UNCHANGED m_index_block_meta_key, NEW f \in Fields,
         \A g \in Fields \ {f} : m_index_map'[g].deque = m_index_map[g].deque
  PROVE  Load + (IF f \in Waiting' THEN Weights'[f] ELSE 0)
           = Load' + (IF f \in Waiting THEN Weights[f] ELSE 0)
<1>1. Waiting \ {f} = Waiting' \ {f}
  BY DEF Waiting
<1>2. \A g \in Waiting \ {f} : Weights[g] = Weights'[g]
  BY DEF Weights, Waiting
<1>3. IsFiniteSet(Waiting) /\ IsFiniteSet(Waiting')
  <2>1. Waiting' \subseteq Fields
    BY DEF Waiting
  <2> QED
    BY <2>1, WaitingFinite, LayoutAssumption, FS_Subset
<1>4. \A g \in Waiting : Weights[g] \in Nat
  BY WeightType
<1>5. \A g \in Waiting' : Weights'[g] \in Nat
  <2>1. Weighed'
    BY WeightTypes, PTL
  <2> QED
    BY <2>1 DEF Weighed
<1>6. PICK T, e : T = Waiting' /\ e = Weights'
  OBVIOUS
<1>7. SumFunctionOnSet(Weights, Waiting) + (IF f \in T THEN e[f] ELSE 0)
        = SumFunctionOnSet(e, T) + (IF f \in Waiting THEN Weights[f] ELSE 0)
  BY <1>1, <1>2, <1>3, <1>4, <1>5, <1>6, SumChange
<1> QED
  BY <1>6, <1>7 DEF Load

\* A step that leaves the entries alone.
LEMMA QuietLoad ==
  ASSUME LayoutInv, LayoutInv', OneKeyLength, UNCHANGED m_index_map
  PROVE  Load' = Load /\ Waiting' = Waiting
<1>1. Waiting' = Waiting
  BY DEF Waiting
<1>2. Weighed /\ Weighed'
  BY WeightTypes, PTL
<1>3. ASSUME NEW f \in Waiting PROVE Weights'[f] = Weights[f]
  <2>1. f \in Waiting'
    BY <1>1
  <2>2. m_index_block_meta_key[f] \in Keys /\ m_index_block_meta_key'[f] \in Keys
    BY <1>2, <2>1 DEF Weighed
  <2>3. KeySize[m_index_block_meta_key[f]] = KeySize[m_index_block_meta_key'[f]]
    BY <2>2 DEF OneKeyLength
  <2>4. f \in Fields
    BY DEF Waiting
  <2> QED
    BY <2>3, <2>4 DEF Weights, IndexSize, MetaSize
<1>4. PICK e : e = Weights'
  OBVIOUS
<1>5. \A f \in Waiting : e[f] = Weights[f]
  BY <1>3, <1>4
<1>6. SumFunctionOnSet(e, Waiting) = SumFunctionOnSet(Weights, Waiting)
  BY <1>5, WaitingFinite, SumOfEquals
<1> QED
  BY <1>1, <1>4, <1>6 DEF Load

-----------------------------------------------------------------------------
(* what the steps do to the files *)

\* Writes beside the flush, and passes that find nothing to write.
Quiet == UNCHANGED <<shard, m_index_map, m_create_meta, diskVars>>

\* Field f becomes index block x.
Indexes(s, f, x) ==
  /\ f \in Waiting
  /\ x.file = shard[s].file /\ x.size = Weights[f] /\ x.from = shard[s].tail - Weights[f]
  /\ index' = index \cup {x} /\ data' = data
  /\ files' = [files EXCEPT ![shard[s].file] = WithFooter(@, x.from + x.size, x.from)]
  /\ shard'[s] = [shard[s] EXCEPT !.tail = x.from]
  /\ m_index_map'[f] = NoEntries /\ \A g \in Fields \ {f} : m_index_map'[g] = m_index_map[g]
  /\ m_create_meta' = [m_create_meta EXCEPT ![f] = FALSE]
  /\ UNCHANGED m_index_block_meta_key

\* WriteIndex as Indexes sees it.
LEMMA WriteIndexIs ==
  ASSUME LayoutInv, NEW s, Shards = {s}, Single(s), WriteIndex
  PROVE  \E f, x : Indexes(s, f, x)
<1> DEFINE f == Head(m_index_task_queue)
           key == m_index_block_meta_key[f]
           entries == m_index_map[f].deque
           t == m_index_map[f].shard
           sh == Lowered(shard[t], IndexSize(key, entries))
           x == IndexBlock(sh.file, sh.tail, key, entries)
<1>1. /\ f \in Fields /\ entries # <<>> /\ t = s
  <2>1. m_index_task_queue \in Seq(Fields) /\ m_index_task_queue # <<>>
    BY DEF WriteIndex, LayoutInv, Types
  <2>2. f \in Fields
    BY <2>1
  <2>3. entries # <<>>
    BY DEF WriteIndex
  <2>4. t \in Shards \cup {NoShard} /\ t # NoShard
    BY <2>2, <2>3 DEF LayoutInv, Types, Known
  <2> QED
    BY <2>2, <2>3, <2>4
<1>2. /\ index' = index \cup {x} /\ data' = data
      /\ files' = [files EXCEPT ![sh.file] =
                     WithFooter(@, sh.tail + IndexSize(key, entries), sh.tail)]
      /\ shard' = [shard EXCEPT ![t] = sh]
      /\ m_index_map' = [m_index_map EXCEPT ![f] = NoEntries]
      /\ m_create_meta' = [m_create_meta EXCEPT ![f] = FALSE]
      /\ UNCHANGED m_index_block_meta_key
  BY DEF WriteIndex, queueVars
<1>3. f \in Waiting /\ IndexSize(key, entries) = Weights[f]
  BY <1>1 DEF Waiting, Weights
<1>4. /\ shard[s] \in ShardRecords /\ sh = [shard[s] EXCEPT !.tail = shard[s].tail - Weights[f]]
      /\ sh.file = shard[s].file /\ sh.tail = shard[s].tail - Weights[f]
  <2>1. shard[s] \in ShardRecords
    BY DEF LayoutInv, Types
  <2>2. sh = Lowered(shard[s], Weights[f])
    BY <1>1, <1>3
  <2> HIDE DEF sh
  <2> QED
    BY <2>1, <2>2 DEF Lowered, ShardRecords
<1>5. x.file = sh.file /\ x.from = sh.tail /\ x.size = Weights[f]
  BY <1>3 DEF IndexBlock
<1> HIDE DEF f, key, entries, t, sh, x
<1>6. shard'[s] = sh
  BY <1>1, <1>2 DEF LayoutInv, Types
<1>7. m_index_map'[f] = NoEntries /\ \A g \in Fields \ {f} : m_index_map'[g] = m_index_map[g]
  BY <1>1, <1>2 DEF LayoutInv, Types
<1>8. sh = [shard[s] EXCEPT !.tail = x.from]
  BY <1>4, <1>5
<1>9. files' = [files EXCEPT ![shard[s].file] = WithFooter(@, x.from + x.size, x.from)]
  BY <1>2, <1>3, <1>4, <1>5
<1> QED
  BY <1>2, <1>3, <1>4, <1>5, <1>6, <1>7, <1>8, <1>9 DEF Indexes

\* The file and the offsets that the next block finds.
Base(s, fresh) == IF fresh THEN Fresh(Len(files) + 1) ELSE shard[s]

NewMeta(f) == IF m_create_meta[f] THEN 0 ELSE MetaSize(m_index_block_meta_key[f])

LeftBlocks(s, f, full) == IF full THEN Residue(f, shard[s].file, shard[s].tail) ELSE {}

\* Block b of field f is written, after leaving the current file (full) or into a first
\* one (fresh and not full).
Writes(s, b, f, full, fresh) ==
  /\ b \in Blocks /\ f \in Fields /\ f = FieldOf[b.key] /\ m_index_block_meta_key[f] \in Keys
  /\ full \in BOOLEAN /\ fresh \in BOOLEAN
  /\ full <=> shard[s].file # 0 /\ ~HasRoom(shard[s], b)
  /\ fresh <=> full \/ shard[s].file = 0
  /\ \E d : /\ data' = data \cup {d} /\ d.file = Base(s, fresh).file
             /\ d.from = Base(s, fresh).head /\ d.size = b.size
  /\ index' = index \cup LeftBlocks(s, f, full)
  /\ shard'[s] = Charged(Base(s, fresh), b, NewMeta(f))
  /\ \A g \in Fields \ {f} : m_index_map'[g] = IF full THEN NoEntries ELSE m_index_map[g]
  /\ m_index_map'[f].shard = s
  /\ m_index_map'[f].deque # <<>>
  /\ Len(m_index_map'[f].deque) = IF full THEN 1 ELSE Len(m_index_map[f].deque) + 1
  /\ m_create_meta' = [m_create_meta EXCEPT ![f] = TRUE]
  /\ UNCHANGED m_index_block_meta_key

\* What that does to the files.
Files(s, b, f, full, fresh) ==
  /\ Len(files') = IF fresh THEN Len(files) + 1 ELSE Len(files)
  /\ fresh => files'[Len(files) + 1].footer = 0
               /\ files'[Len(files) + 1].length = Grown(FileSize, HeaderSize + b.size)
  /\ ~fresh => files'[Len(files)].footer = files[Len(files)].footer
                /\ files'[Len(files)].length
                     = Grown(files[Len(files)].length, shard[s].head + b.size)
  /\ \A i \in 1..Len(files) : i # Len(files) => files'[i] = files[i]
  /\ full => files'[Len(files)] = Closed(files[Len(files)], LeftBlocks(s, f, full))

\* WriteBlock as Writes and Files see it.
LEMMA WriteBlockIs ==
  ASSUME LayoutInv, NEW s, Shards = {s}, Single(s), NEW late, WriteBlock(late)
  PROVE  \E b, f, full, fresh : Writes(s, b, f, full, fresh) /\ Files(s, b, f, full, fresh)
<1> DEFINE b == Head(m_data_deque)
           f == FieldOf[b.key]
           old == shard[b.shard]
           full == old.file # 0 /\ ~HasRoom(old, b)
           sh == IF full \/ old.file = 0 THEN Fresh(Len(files) + 1) ELSE old
           residue == IF full THEN Residue(f, old.file, old.tail) ELSE {}
           closed == IF full THEN [files EXCEPT ![old.file] = Closed(@, residue)] ELSE files
           opened == IF sh.file > Len(files)
                     THEN Append(closed, [length |-> FileSize, footer |-> 0]) ELSE closed
           kept == Kept(full)
           e == [id |-> b.id, offset |-> sh.head, size |-> b.size]
           meta == IF m_create_meta[f] THEN 0 ELSE MetaSize(m_index_block_meta_key[f])
           d == [id |-> b.id, key |-> b.key, file |-> sh.file, from |-> sh.head, size |-> b.size]
           entries == AddEntry(kept[f], b.shard, e)
<1>1. /\ index' = index \cup residue
      /\ files' = [opened EXCEPT ![sh.file].length = Grown(@, sh.head + b.size)]
      /\ data' = data \cup {d}
      /\ shard' = [shard EXCEPT ![b.shard] = Charged(sh, b, meta)]
      /\ m_index_map' = [kept EXCEPT ![f] = entries]
      /\ m_create_meta' = [m_create_meta EXCEPT ![f] = TRUE]
      /\ m_data_deque # <<>>
      /\ UNCHANGED m_index_block_meta_key
  BY DEF WriteBlock
<1> HIDE DEF b
<1>2. /\ b \in Blocks /\ FieldOf[b.key] \in Fields
      /\ m_index_block_meta_key[FieldOf[b.key]] \in Keys
  <2>1. m_data_deque \in Seq(Blocks)
    BY DEF LayoutInv, Types
  <2>2. Len(m_data_deque) \in Nat /\ Len(m_data_deque) # 0 /\ b \in Blocks /\ b = m_data_deque[1]
    BY <1>1, <2>1, HeadAndTail DEF b
  <2>3. 1 \in 1..Len(m_data_deque)
    BY <2>2
  <2>4. FieldOf[b.key] \in Fields
    BY <2>2, <2>3, QueuedField
  <2> QED
    BY <2>2, <2>3, <2>4 DEF LayoutInv, Known, Types
<1>3. b.shard = s /\ b.shard # NoShard /\ b.size \in Nat
  <2>1. b.shard \in Shards /\ b.size \in Sizes
    BY <1>2 DEF Blocks
  <2> QED
    BY <2>1, LayoutAssumption
<1>4. /\ old = shard[s] /\ old.file = Len(files) /\ Len(files) \in Nat
      /\ old \in ShardRecords
  BY <1>3 DEF Single, LayoutInv, Types
<1> DEFINE fresh == full \/ shard[s].file = 0
<1>5. /\ sh = Base(s, fresh) /\ residue = LeftBlocks(s, f, full) /\ meta = NewMeta(f)
      /\ full \in BOOLEAN /\ fresh \in BOOLEAN
      /\ full <=> shard[s].file # 0 /\ ~HasRoom(shard[s], b)
      /\ fresh <=> full \/ shard[s].file = 0
  BY <1>4 DEF Base, LeftBlocks, NewMeta
<1>6. /\ fresh => sh.file = Len(files) + 1 /\ sh.head = HeaderSize
      /\ ~fresh => sh.file = Len(files) /\ sh.head = shard[s].head /\ Len(files) # 0
  <2> HIDE DEF full, old
  <2>1. shard[s].file = Len(files)
    BY <1>4
  <2> QED
    BY <2>1, <1>4, <1>5 DEF Base, Fresh
<1>7. /\ f \in Fields
      /\ \A g \in Fields \ {f} : m_index_map'[g] = IF full THEN NoEntries ELSE m_index_map[g]
      /\ m_index_map'[f] = entries
      /\ kept[f] = IF full THEN NoEntries ELSE m_index_map[f]
  <2>1. kept \in [Fields -> {NoEntries} \cup {m_index_map[g] : g \in Fields}]
    BY DEF Kept, LayoutInv, Types
  <2>2. \A g \in Fields : kept[g] = IF full THEN NoEntries ELSE m_index_map[g]
    BY DEF Kept
  <2>3. f \in Fields
    BY <1>2
  <2> HIDE DEF kept, entries, f, full
  <2> QED
    BY <1>1, <2>1, <2>2, <2>3
<1>8. /\ m_index_map'[f].shard = s /\ m_index_map'[f].deque # <<>>
      /\ Len(m_index_map'[f].deque) = IF full THEN 1 ELSE Len(m_index_map[f].deque) + 1
  <2>1. PICK x : x = e
    OBVIOUS
  <2>2. entries = [shard |-> IF kept[f].shard = NoShard THEN b.shard ELSE kept[f].shard,
                   deque |-> Append(kept[f].deque, x)]
    BY <2>1 DEF AddEntry
  <2>3. m_index_map[f].deque \in Seq(Entries) /\ m_index_map[f].shard \in {s, NoShard}
    BY <1>2 DEF LayoutInv, Types
  <2> HIDE DEF e, kept, entries, full, f
  <2>4. CASE full
    BY <1>3, <1>7, <2>2, <2>4 DEF NoEntries
  <2>5. CASE ~full
    <3>1. entries = [shard |-> s, deque |-> Append(m_index_map[f].deque, x)]
      BY <1>3, <1>7, <2>2, <2>3, <2>5
    <3>2. PICK q \in Seq(Entries) : q = m_index_map[f].deque
      BY <2>3
    <3>3. Append(q, x) # <<>> /\ Len(Append(q, x)) = Len(q) + 1
      BY <3>2
    <3> QED
      BY <1>7, <2>5, <3>1, <3>2, <3>3
  <2> QED
    BY <2>4, <2>5
<1>9. shard'[s] = Charged(sh, b, meta)
  <2> HIDE DEF sh, meta
  <2> QED
    BY <1>1, <1>3 DEF LayoutInv, Types
<1>10. d.file = sh.file /\ d.from = sh.head /\ d.size = b.size
  OBVIOUS
<1> HIDE DEF full, fresh, sh, residue, meta, kept, e, d, entries, old
<1>11. Writes(s, b, f, full, fresh)
  <2>1. \E c : /\ data' = data \cup {c} /\ c.file = Base(s, fresh).file
               /\ c.from = Base(s, fresh).head /\ c.size = b.size
    BY <1>1, <1>5, <1>10
  <2> QED
    BY <1>1, <1>2, <1>5, <1>7, <1>8, <1>9, <2>1 DEF Writes
<1>12. Files(s, b, f, full, fresh)
  <2> HIDE DEF f
  <2>1. PICK S : files \in Seq(S)
    BY DEF LayoutInv, Types
  <2>2. PICK n \in Nat : n = Len(files)
    BY <1>4
  <2>3. /\ \E T : closed \in Seq(T) /\ Len(closed) = n
        /\ \A i \in 1..n : i # n => closed[i] = files[i]
        /\ full => n \in 1..n /\ closed[n] = Closed(files[n], residue)
        /\ ~full => closed = files
    <3>1. CASE full
      <4>1. closed = [files EXCEPT ![n] = Closed(files[n], residue)]
        BY <1>4, <2>2, <3>1
      <4>2. n # 0
        BY <1>4, <1>5, <2>2, <3>1
      <4>3. PICK c : c = Closed(files[n], residue)
        OBVIOUS
      <4>4. closed = [files EXCEPT ![n] = c]
        BY <4>1, <4>3
      <4>5. closed \in Seq(S \cup {c}) /\ Len(closed) = n
        <5>1. files \in [1..n -> S]
          BY <2>1, <2>2
        <5>2. closed \in [1..n -> S \cup {c}]
          BY <4>4, <5>1
        <5> HIDE DEF closed
        <5>3. closed \in Seq(S \cup {c})
          BY <5>2
        <5> QED
          BY <5>2, <5>3
      <4> QED
        BY <2>1, <2>2, <3>1, <4>2, <4>3, <4>4, <4>5
    <3>2. CASE ~full
      BY <2>1, <2>2, <3>2
    <3> QED
      BY <3>1, <3>2
  <2> HIDE DEF closed
  <2>4. PICK T : closed \in Seq(T) /\ Len(closed) = n
    BY <2>3
  <2> DEFINE new == [length |-> FileSize, footer |-> 0]
  <2>5. /\ fresh => opened = Append(closed, new)
        /\ ~fresh => opened = closed
    BY <1>6, <2>2 
  <2> HIDE DEF opened
  <2>6. fresh => /\ Len(files') = n + 1
                 /\ files'[n + 1].footer = 0
                 /\ files'[n + 1].length = Grown(FileSize, HeaderSize + b.size)
                 /\ \A i \in 1..n : files'[i] = closed[i]
    <3> SUFFICES ASSUME fresh
                 PROVE  /\ Len(files') = n + 1
                        /\ files'[n + 1].footer = 0
                        /\ files'[n + 1].length = Grown(FileSize, HeaderSize + b.size)
                        /\ \A i \in 1..n : files'[i] = closed[i]
      OBVIOUS
    <3>1. /\ opened \in Seq(T \cup {new}) /\ Len(opened) = n + 1 /\ opened[n + 1] = new
          /\ \A i \in 1..n : opened[i] = closed[i]
      BY <2>2, <2>4, <2>5
    <3>2. files' = [opened EXCEPT ![n + 1].length = Grown(@, HeaderSize + b.size)]
      BY <1>1, <1>6, <2>2
    <3> QED
      BY <2>2, <3>1, <3>2
  <2>7. ~fresh => /\ Len(files') = n
                  /\ files'[n].footer = files[n].footer
                  /\ files'[n].length = Grown(files[n].length, shard[s].head + b.size)
                  /\ \A i \in 1..n : i # n => files'[i] = files[i]
    <3> SUFFICES ASSUME ~fresh
                 PROVE  /\ Len(files') = n
                        /\ files'[n].footer = files[n].footer
                        /\ files'[n].length = Grown(files[n].length, shard[s].head + b.size)
                        /\ \A i \in 1..n : i # n => files'[i] = files[i]
      OBVIOUS
    <3>1. opened = files /\ n # 0
      BY <1>5, <1>6, <2>2, <2>3, <2>5
    <3>2. files' = [files EXCEPT ![n].length = Grown(@, shard[s].head + b.size)]
      BY <1>1, <1>6, <2>2, <3>1
    <3> QED
      BY <2>1, <2>2, <3>1, <3>2
  <2>8. full => fresh
    BY <1>5
  <2>9. residue = LeftBlocks(s, f, full)
    BY <1>5
  <2> HIDE DEF new
  <2> QED
    BY <2>2, <2>3, <2>6, <2>7, <2>8, <2>9 DEF Files
<1> QED
  BY <1>11, <1>12

\* The index blocks written to a file before it is left.
LEMMA ResidueType ==
  ASSUME LayoutInv, NEW f \in Fields, m_index_block_meta_key[f] \in Keys, NEW n, NEW tail \in Int
  PROVE  /\ IsFiniteSet(Residue(f, n, tail))
         /\ \A x \in Residue(f, n, tail) : x.file = n /\ x.from \in Int /\ x.size \in Nat \ {0}
         /\ OneKeyLength => \A x \in Residue(f, n, tail) : x.from >= tail - Load
<1> DEFINE key == m_index_block_meta_key[f]
           size == [g \in Fields |-> IndexSize(key, m_index_map[g].deque)]
           left == {g \in Fields : m_index_map[g].deque # <<>>}
           below(g) == {h \in left : h < g}
           at(g) == tail - SumFunctionOnSet(size, below(g))
           block(g) == IndexBlock(n, at(g), key, m_index_map[g].deque)
<1>1. Residue(f, n, tail) = {block(g) : g \in left}
  BY Zenon DEF Residue
<1>2. left = Waiting
  BY DEF Waiting
<1>3. \A g \in left : size[g] \in Nat \ {0}
  <2>1. SUFFICES ASSUME NEW g \in left PROVE size[g] \in Nat \ {0}
    OBVIOUS
  <2>2. PICK a \in Nat : a = Len(m_index_map[g].deque)
    BY DEF LayoutInv, Types
  <2>3. PICK k \in Nat : k = KeySize[key]
    BY LayoutAssumption
  <2>4. size[g] = EntrySize * a + (8 + k)
    BY <2>2, <2>3 DEF IndexSize, MetaSize
  <2>5. EntrySize * a + (8 + k) \in Nat \ {0}
    BY DEF EntrySize
  <2> QED
    BY <2>4, <2>5
<1>4. \A g \in left : block(g).file = n /\ block(g).from = at(g) /\ block(g).size = size[g]
  BY DEF IndexBlock
<1>5. \A g \in left : IsFiniteSet(below(g)) /\ below(g) \subseteq left
  BY <1>2, WaitingFinite, FS_Subset
<1> HIDE DEF size, left, below, block
<1>6. \A g \in left : SumFunctionOnSet(size, below(g)) \in Nat
  <2>1. SUFFICES ASSUME NEW g \in left PROVE SumFunctionOnSet(size, below(g)) \in Nat
    OBVIOUS
  <2>2. \A h \in below(g) : size[h] \in Nat
    BY <1>3, <1>5
  <2> QED
    BY <1>5, <2>2, SumTakes
<1>7. IsFiniteSet(Residue(f, n, tail))
  <2> DEFINE T == {block(g) : g \in left}
             F == [g \in left |-> block(g)]
  <2>1. F \in [left -> T] /\ \A t \in T : \E g \in left : F[g] = t
    OBVIOUS
  <2>2. IsFiniteSet(left)
    BY <1>2, WaitingFinite
  <2> HIDE DEF F, T
  <2>3. F \in Surjection(left, T)
    BY <2>1 DEF Surjection
  <2>4. IsFiniteSet(T)
    BY <2>2, <2>3, FS_Surjection
  <2> QED
    BY <1>1, <2>4 DEF T
<1>8. \A x \in Residue(f, n, tail) : x.file = n /\ x.from \in Int /\ x.size \in Nat \ {0}
  <2>1. SUFFICES ASSUME NEW g \in left
                 PROVE  block(g).file = n /\ block(g).from \in Int /\ block(g).size \in Nat \ {0}
    BY <1>1
  <2> QED
    BY <1>3, <1>4, <1>6
<1>9. ASSUME OneKeyLength PROVE \A x \in Residue(f, n, tail) : x.from >= tail - Load
  <2>1. SUFFICES ASSUME NEW g \in left PROVE block(g).from >= tail - Load
    BY <1>1
  <2>2. \A h \in left : Weights[h] = size[h]
    <3>1. SUFFICES ASSUME NEW h \in left PROVE Weights[h] = size[h]
      OBVIOUS
    <3>2. h \in Waiting /\ h \in Fields
      BY <1>2 DEF Waiting
    <3>3. KeySize[m_index_block_meta_key[h]] = KeySize[key]
      BY <1>9, <3>2, WeightType DEF OneKeyLength
    <3> QED
      BY <3>2, <3>3 DEF size, Weights, IndexSize, MetaSize
  <2>3. SumFunctionOnSet(size, below(g)) <= SumFunctionOnSet(size, left)
    <3>1. \A h \in left : size[h] \in Nat
      BY <1>3
    <3>2. IsFiniteSet(left) /\ below(g) \in SUBSET left
      BY <1>2, <1>5, WaitingFinite
    <3> QED
      BY <3>1, <3>2, SumOfFewer
  <2>4. SumFunctionOnSet(size, left) = Load
    <3>1. SumFunctionOnSet(Weights, left) = SumFunctionOnSet(size, left)
      BY <1>2, <2>2, WaitingFinite, SumOfEquals
    <3> QED
      BY <1>2, <3>1 DEF Load
  <2>5. PICK a \in Nat : a = SumFunctionOnSet(size, below(g))
    BY <1>6
  <2>6. Load \in Nat
    BY LoadType DEF LoadIsNat
  <2>7. block(g).from = tail - a
    BY <1>4, <2>5
  <2> QED
    BY <2>3, <2>4, <2>5, <2>6, <2>7
<1> QED
  BY <1>7, <1>8, <1>9

\* A finite set of blocks has one with the highest end.
LEMMA HighestBlock ==
  ASSUME NEW R, IsFiniteSet(R), R # {}, \A x \in R : x.from \in Int /\ x.size \in Nat \ {0}
  PROVE  \E x \in R : \A y \in R : x.from + x.size >= y.from + y.size
<1> DEFINE Highest(s) == \E x \in s : \A y \in s : x.from + x.size >= y.from + y.size
           Q == {s \in SUBSET R : s # {} => Highest(s)}
<1>1. ASSUME NEW s \in SUBSET R, \A x \in s : s \ {x} \in Q PROVE s \in Q
  <2>1. CASE s = {}
    BY <2>1
  <2>2. CASE s # {}
    <3>1. PICK x \in s : TRUE
      BY <2>2
    <3>2. CASE s \ {x} = {}
      BY <3>1, <3>2
    <3>3. CASE s \ {x} # {}
      <4>1. PICK z \in s \ {x} : \A y \in s \ {x} : z.from + z.size >= y.from + y.size
        BY <1>1, <3>1, <3>3
      <4>2. PICK a \in Int : a = x.from + x.size
        BY <3>1
      <4>3. PICK b \in Int : b = z.from + z.size
        BY <4>1
      <4>4. \A y \in s : y.from + y.size \in Int
        OBVIOUS
      <4>5. CASE a >= b
        <5>1. \A y \in s : a >= y.from + y.size
          BY <4>1, <4>2, <4>3, <4>4, <4>5
        <5> QED
          BY <4>2, <5>1
      <4>6. CASE ~(a >= b)
        <5>1. \A y \in s : b >= y.from + y.size
          BY <4>1, <4>2, <4>3, <4>4, <4>6
        <5> QED
          BY <4>3, <5>1
      <4> QED
        BY <4>5, <4>6
    <3> QED
      BY <3>2, <3>3
  <2> QED
    BY <2>1, <2>2
<1> HIDE DEF Q
<1>2. SUBSET R \subseteq Q
  BY <1>1, BySubsets
<1>3. R \in Q
  BY <1>2
<1> QED
  BY <1>3 DEF Q

\* The file never gets shorter when it is left.
LEMMA ClosedLength ==
  ASSUME NEW fl, fl.length \in Int, NEW R, IsFiniteSet(R),
         \A x \in R : x.from \in Int /\ x.size \in Nat \ {0}
  PROVE  Closed(fl, R).length \in Int /\ Closed(fl, R).length >= fl.length
<1>1. CASE R = {}
  BY <1>1 DEF Closed
<1>2. CASE R # {}
  <2> DEFINE high == CHOOSE x \in R : \A y \in R : x.from + x.size >= y.from + y.size
             low == CHOOSE x \in R : \A y \in R : x.from <= y.from
  <2>1. high \in R
    BY <1>2, HighestBlock
  <2>2. Closed(fl, R) = WithFooter(fl, high.from + high.size, low.from)
    BY <1>2, Zenon DEF Closed
  <2> HIDE DEF high, low
  <2>3. PICK to \in Int : to = high.from + high.size
    BY <2>1
  <2>4. Closed(fl, R).length = Grown(fl.length, to)
    BY <2>2, <2>3 DEF WithFooter
  <2> QED
    BY <2>3, <2>4 DEF Grown
<1> QED
  BY <1>1, <1>2

-----------------------------------------------------------------------------

\* At the start the shard has no file.
LEMMA SingleInit ==
  ASSUME Init, NEW s, Shards = {s}
  PROVE  Single(s)
BY DEF Init, Single, NoEntries, Waiting

\* Nothing the files depend on changes.
LEMMA SingleQuiet ==
  ASSUME NEW s, Shards = {s}, Single(s), Quiet
  PROVE  Single(s)'
BY DEF Single, Quiet, diskVars, Waiting

\* An index block goes to the current file and changes only its length and footer.
LEMMA SingleIndexes ==
  ASSUME LayoutInv, NEW s, Shards = {s}, Single(s), NEW f, NEW x, Indexes(s, f, x)
  PROVE  /\ Single(s)' /\ Len(files') = Len(files) /\ Len(files) \in Nat /\ Len(files) # 0
         /\ \A i \in 1..Len(files) : i # Len(files) => files'[i] = files[i]
         /\ files'[Len(files)] = WithFooter(files[Len(files)], x.from + x.size, x.from)
<1>1. f \in Fields /\ m_index_map[f].deque # <<>> /\ Weights[f] \in Nat \ {0}
  BY WeightType DEF Indexes, Waiting
<1>2. shard[s] \in ShardRecords /\ shard[s].file = Len(files) /\ Len(files) \in Nat
  BY DEF LayoutInv, Types, Single
<1>3. Len(files) # 0
  BY <1>1, <1>2 DEF Single
<1>4. PICK S : files \in Seq(S)
  BY DEF LayoutInv, Types
<1>5. PICK n \in Nat : n = Len(files)
  BY <1>2
<1>6. PICK c : c = WithFooter(files[n], x.from + x.size, x.from)
  OBVIOUS
<1>7. files' = [files EXCEPT ![n] = c]
  BY <1>2, <1>5, <1>6 DEF Indexes
<1>8. /\ Len(files') = n /\ files'[n] = c
      /\ \A i \in 1..n : i # n => files'[i] = files[i]
  <2>1. files \in [1..n -> S] /\ n \in 1..n
    BY <1>3, <1>4, <1>5
  <2>2. files' \in [1..n -> S \cup {c}]
    BY <1>7, <2>1
  <2>3. files' \in Seq(S \cup {c})
    BY <2>2
  <2> QED
    BY <1>7, <2>1, <2>2, <2>3
<1>9. /\ shard'[s].file = n /\ x.file = n /\ x.size \in Nat \ {0} /\ x.from \in Int
      /\ index' = index \cup {x} /\ data' = data
  BY <1>1, <1>2, <1>5 DEF Indexes, ShardRecords
<1>10. /\ m_index_map'[f].deque = <<>> /\ m_index_map'[f].shard = NoShard
       /\ \A g \in Fields \ {f} : m_index_map'[g] = m_index_map[g]
  BY DEF Indexes, NoEntries
<1>11. /\ m_create_meta' \in [Fields -> BOOLEAN] /\ ~m_create_meta'[f]
       /\ \A g \in Fields \ {f} : m_create_meta'[g] = m_create_meta[g]
  BY <1>1 DEF Indexes, Single
<1>12. Single(s)'
  <2>1. n \in 1..n /\ n # 0
    BY <1>3, <1>5
  <2>2. \A g \in Fields : m_index_map'[g].shard = NoShard <=> m_index_map'[g].deque = <<>>
    BY <1>10 DEF Single
  <2>3. \A g \in Fields : ~m_create_meta'[g] => m_index_map'[g].deque = <<>>
    BY <1>10, <1>11 DEF Single
  <2>4. n = 1 => \A g \in Fields : m_create_meta'[g] => g \in Waiting'
    BY <1>2, <1>5, <1>10, <1>11 DEF Single, Waiting
  <2>5. /\ \A d \in data' : d.file \in 1..n /\ d.from \in Int /\ d.size \in Sizes
        /\ \A y \in index' : y.file \in 1..n /\ y.from \in Int /\ y.size \in Nat \ {0}
    BY <1>5, <1>9, <2>1 DEF Single
  <2> QED
    BY <1>8, <1>9, <1>11, <2>1, <2>2, <2>3, <2>4, <2>5 DEF Single
<1> QED
  BY <1>3, <1>5, <1>6, <1>8, <1>12

\* A data block goes to the current file or opens the next.
LEMMA SingleWrites ==
  ASSUME LayoutInv, NEW s, Shards = {s}, Single(s),
         NEW b, NEW f, NEW full, NEW fresh,
         Writes(s, b, f, full, fresh), Files(s, b, f, full, fresh)
  PROVE  Single(s)'
<1>1. shard[s] \in ShardRecords /\ shard[s].file = Len(files) /\ Len(files) \in Nat
  BY DEF LayoutInv, Types, Single
<1>2. PICK n \in Nat : n = Len(files)
  BY <1>1
<1>3. PICK m \in Nat : m = IF fresh THEN n + 1 ELSE n
  BY <1>2
<1>4. /\ Len(files') = m /\ Base(s, fresh).file = m /\ Base(s, fresh).head \in Int
      /\ n <= m /\ m # 0 /\ 1..n \subseteq 1..m /\ m \in 1..m
  <2>1. CASE fresh
    BY <1>1, <1>2, <1>3, <2>1 DEF Files, Base, Fresh, HeaderSize
  <2>2. CASE ~fresh
    BY <1>1, <1>2, <1>3, <2>2 DEF Files, Base, Writes, ShardRecords
  <2> QED
    BY <2>1, <2>2
<1>5. PICK base : base = Base(s, fresh)
  OBVIOUS
<1>6. shard'[s].file = m
  <2>1. shard'[s] = Charged(base, b, NewMeta(f))
    BY <1>5 DEF Writes
  <2>2. base.file = m
    BY <1>4, <1>5
  <2>3. base \in ShardRecords
    <3>1. CASE fresh
      BY <1>1, <1>2, <1>5, <3>1, LayoutAssumption
      DEF Base, Fresh, ShardRecords, HeaderSize, FooterSize
    <3>2. CASE ~fresh
      BY <1>1, <1>5, <3>2 DEF Base
    <3> QED
      BY <3>1, <3>2
  <2> QED
    BY <2>1, <2>2, <2>3 DEF Charged, ShardRecords
<1>7. f \in Fields /\ m_index_map'[f].shard = s /\ m_index_map'[f].deque # <<>> /\ s # NoShard
  BY LayoutAssumption DEF Writes
<1>8. \A g \in Fields \ {f} : m_index_map'[g] = IF full THEN NoEntries ELSE m_index_map[g]
  BY DEF Writes
<1>9. /\ m_create_meta' \in [Fields -> BOOLEAN] /\ m_create_meta'[f]
      /\ \A g \in Fields \ {f} : m_create_meta'[g] = m_create_meta[g]
  BY <1>7 DEF Writes, Single
<1>10. \A g \in Fields : m_index_map'[g].shard = NoShard <=> m_index_map'[g].deque = <<>>
  BY <1>7, <1>8 DEF Single, NoEntries
<1>11. \A g \in Fields : ~m_create_meta'[g] => m_index_map'[g].deque = <<>>
  BY <1>7, <1>8, <1>9 DEF Single, NoEntries
<1>12. m = 1 => \A g \in Fields : m_create_meta'[g] => g \in Waiting'
  <2>1. SUFFICES ASSUME m = 1, NEW g \in Fields \ {f}, m_create_meta[g]
                 PROVE  m_index_map'[g].deque # <<>>
    BY <1>7, <1>9 DEF Waiting
  <2>2. CASE fresh
    <3>1. n = 0
      BY <1>3, <2>1, <2>2
    <3> QED
      BY <1>1, <1>2, <2>1, <3>1 DEF Single
  <2>3. CASE ~fresh
    <3>1. ~full /\ n = 1
      BY <1>3, <2>1, <2>3 DEF Writes
    <3>2. g \in Waiting
      BY <1>1, <1>2, <2>1, <3>1 DEF Single
    <3> QED
      BY <1>8, <3>1, <3>2 DEF Waiting
  <2> QED
    BY <2>2, <2>3
<1>13. \A d \in data' : d.file \in 1..m /\ d.from \in Int /\ d.size \in Sizes
  <2>1. PICK d : /\ data' = data \cup {d} /\ d.file = Base(s, fresh).file
                 /\ d.from = Base(s, fresh).head /\ d.size = b.size
    BY DEF Writes
  <2>2. b.size \in Sizes
    BY DEF Writes, Blocks
  <2>3. \A e \in data : e.file \in 1..n /\ e.from \in Int /\ e.size \in Sizes
    BY <1>2 DEF Single
  <2> QED
    BY <1>4, <2>1, <2>2, <2>3
<1>14. \A x \in index' : x.file \in 1..m /\ x.from \in Int /\ x.size \in Nat \ {0}
  <2>1. \A x \in index : x.file \in 1..n /\ x.from \in Int /\ x.size \in Nat \ {0}
    BY <1>2 DEF Single
  <2>2. \A x \in LeftBlocks(s, f, full) : x.file \in 1..n /\ x.from \in Int /\ x.size \in Nat \ {0}
    <3>1. CASE full
      <4>1. n \in 1..n /\ shard[s].tail \in Int /\ shard[s].file = n
        BY <1>1, <1>2, <3>1 DEF Writes, ShardRecords
      <4>2. f \in Fields /\ m_index_block_meta_key[f] \in Keys
        BY DEF Writes
      <4>3. LeftBlocks(s, f, full) = Residue(f, n, shard[s].tail)
        BY <3>1, <4>1 DEF LeftBlocks
      <4>4. \A x \in Residue(f, n, shard[s].tail) :
              x.file = n /\ x.from \in Int /\ x.size \in Nat \ {0}
        BY <4>1, <4>2, ResidueType
      <4> QED
        BY <4>1, <4>3, <4>4
    <3>2. CASE ~full
      BY <3>2 DEF LeftBlocks
    <3> QED
      BY <3>1, <3>2
  <2>3. index' = index \cup LeftBlocks(s, f, full)
    BY DEF Writes
  <2> QED
    BY <1>4, <2>1, <2>2, <2>3
<1> QED
  BY <1>4, <1>6, <1>9, <1>10, <1>11, <1>12, <1>13, <1>14 DEF Single

\* How the load changes when an index block is written.
LEMMA LoadIndexes ==
  ASSUME LayoutInv, LayoutInv', NEW s, NEW f, NEW x, Indexes(s, f, x)
  PROVE  Load' = Load - Weights[f] /\ Load \in Nat /\ Load' \in Nat
<1>1. Load \in Nat /\ Load' \in Nat
  <2>1. LoadIsNat /\ LoadIsNat'
    BY LoadType, PTL
  <2> QED
    BY <2>1 DEF LoadIsNat
<1>2. f \in Waiting /\ f \in Fields /\ f \notin Waiting'
  BY DEF Indexes, Waiting, NoEntries
<1>3. \A g \in Fields \ {f} : m_index_map'[g].deque = m_index_map[g].deque
  BY DEF Indexes
<1>4. UNCHANGED m_index_block_meta_key
  BY DEF Indexes
<1>5. Load + 0 = Load' + Weights[f]
  BY <1>2, <1>3, <1>4, LoadStep
<1>6. PICK w \in Nat : w = Weights[f]
  BY <1>2, WeightType
<1> QED
  BY <1>1, <1>5, <1>6

\* How the load changes when a data block is written.
LEMMA LoadWrites ==
  ASSUME LayoutInv, LayoutInv', NEW s, Shards = {s}, Single(s),
         NEW b, NEW f, NEW full, NEW fresh, Writes(s, b, f, full, fresh)
  PROVE  /\ Load \in Nat /\ Load' \in Nat /\ MetaSize(m_index_block_meta_key[f]) \in Nat
         /\ fresh => Load' = EntrySize + MetaSize(m_index_block_meta_key[f])
         /\ ~fresh => Load' = Load + EntrySize
                        + (IF f \in Waiting THEN 0 ELSE MetaSize(m_index_block_meta_key[f]))
<1>1. Load \in Nat /\ Load' \in Nat
  <2>1. LoadIsNat /\ LoadIsNat'
    BY LoadType, PTL
  <2> QED
    BY <2>1 DEF LoadIsNat
<1>2. /\ f \in Fields /\ f \in Waiting' /\ m_index_block_meta_key' = m_index_block_meta_key
      /\ m_index_block_meta_key[f] \in Keys
      /\ Len(m_index_map'[f].deque) = IF full THEN 1 ELSE Len(m_index_map[f].deque) + 1
  BY DEF Writes, Waiting
<1>3. PICK meta \in Nat : meta = MetaSize(m_index_block_meta_key[f])
  BY <1>2, LayoutAssumption DEF MetaSize
<1>4. Weighed'
  BY WeightTypes, PTL
<1>5. PICK l \in Nat : l = Len(m_index_map[f].deque) /\ (f \notin Waiting => l = 0)
  BY <1>2 DEF LayoutInv, Types, Waiting
<1>6. full \in BOOLEAN /\ fresh \in BOOLEAN /\ (fresh <=> full \/ shard[s].file = 0)
  BY DEF Writes
<1>7. PICK m \in Nat : m = IF full THEN 1 ELSE l + 1
  BY <1>5
<1>8. Weights'[f] = EntrySize * m + meta
  <2>1. Weights'[f] = IndexSize(m_index_block_meta_key[f], m_index_map'[f].deque)
    BY <1>2 DEF Weights
  <2> QED
    BY <1>2, <1>3, <1>5, <1>7, <2>1 DEF IndexSize
<1>9. /\ EntrySize * m \in Nat /\ EntrySize * (l + 1) = EntrySize * l + EntrySize
      /\ EntrySize * 1 = EntrySize
      /\ EntrySize * 0 = 0 /\ EntrySize \in Nat /\ EntrySize * l \in Nat
  BY DEF EntrySize
<1>10. ASSUME fresh PROVE Load' = EntrySize + meta
  <2>1. Waiting' = {f}
    <3>1. \A g \in Fields \ {f} : m_index_map'[g] = IF full THEN NoEntries ELSE m_index_map[g]
      BY DEF Writes
    <3>2. \A g \in Fields \ {f} : m_index_map'[g].deque = <<>>
      <4>1. CASE full
        BY <3>1, <4>1 DEF NoEntries
      <4>2. CASE ~full
        BY <1>6, <1>10, <3>1, <4>2 DEF Single
      <4> QED
        BY <1>6, <4>1, <4>2
    <3> QED
      BY <1>2, <3>2 DEF Waiting
  <2>2. m = 1
    <3>1. CASE full
      BY <1>7, <3>1
    <3>2. CASE ~full
      <4>1. f \notin Waiting
        BY <1>2, <1>6, <1>10, <3>2 DEF Single, Waiting
      <4> QED
        BY <1>5, <1>7, <3>2, <4>1
    <3> QED
      BY <1>6, <3>1, <3>2
  <2>3. PICK e : e = Weights'
    OBVIOUS
  <2>4. e[f] = EntrySize + meta
    BY <1>8, <1>9, <2>2, <2>3
  <2>5. e[f] \in Nat
    BY <1>9, <2>4
  <2>6. SumFunctionOnSet(e, {f}) = e[f] + SumFunctionOnSet(e, {f} \ {f})
    <3>1. IsFiniteSet({f}) /\ f \in {f} /\ \A g \in {f} : e[g] \in Nat
      BY <2>5, FS_Singleton
    <3> QED
      BY <3>1, SumTakes
  <2>7. {f} \ {f} = {}
    OBVIOUS
  <2>8. SumFunctionOnSet(e, {f}) = e[f]
    BY <2>5, <2>6, <2>7, SumEmpty
  <2> QED
    BY <2>1, <2>3, <2>4, <2>8 DEF Load
<1>11. ASSUME ~fresh
       PROVE  Load' = Load + EntrySize + (IF f \in Waiting THEN 0 ELSE meta)
  <2>1. ~full /\ m = l + 1
    BY <1>6, <1>7, <1>11
  <2>2. \A g \in Fields \ {f} : m_index_map'[g].deque = m_index_map[g].deque
    BY <2>1 DEF Writes
  <2>3. UNCHANGED m_index_block_meta_key
    BY <1>2
  <2>4. Load + (IF f \in Waiting' THEN Weights'[f] ELSE 0)
          = Load' + (IF f \in Waiting THEN Weights[f] ELSE 0)
    BY <1>2, <2>2, <2>3, LoadStep
  <2>5. Load + (EntrySize * m + meta) = Load' + (IF f \in Waiting THEN Weights[f] ELSE 0)
    BY <1>2, <1>8, <2>4
  <2>6. CASE f \in Waiting
    <3>1. Weights[f] = EntrySize * l + meta
      BY <1>2, <1>3, <1>5 DEF Weights, IndexSize
    <3>2. PICK a \in Nat : a = EntrySize * l
      BY <1>9
    <3>3. Load + ((a + EntrySize) + meta) = Load' + (a + meta)
      BY <1>9, <2>1, <2>5, <2>6, <3>1, <3>2
    <3>4. Load' = Load + EntrySize
      <4>1. PICK p \in Nat, q \in Nat : p = Load /\ q = Load'
        BY <1>1
      <4>2. p + ((a + EntrySize) + meta) = q + (a + meta)
        BY <3>3, <4>1
      <4>3. q = p + EntrySize
        BY <1>9, <4>2 DEF EntrySize
      <4> QED
        BY <4>1, <4>3
    <3> QED
      BY <1>1, <1>9, <2>6, <3>4
  <2>7. CASE f \notin Waiting
    BY <1>1, <1>5, <1>9, <2>1, <2>5, <2>7
  <2> QED
    BY <2>6, <2>7
<1> QED
  BY <1>1, <1>3, <1>10, <1>11

\* What a data block costs its shard.
LEMMA ChargedIs ==
  ASSUME LayoutInv, NEW s, Shards = {s}, Single(s),
         NEW b, NEW f, NEW full, NEW fresh, Writes(s, b, f, full, fresh)
  PROVE  /\ b.size \in Sizes /\ b.size \in Nat \ {0} /\ NewMeta(f) \in Nat
         /\ Base(s, fresh) \in ShardRecords /\ Base(s, fresh).file \in Nat \ {0}
         /\ shard'[s] \in ShardRecords
         /\ shard'[s].file = Base(s, fresh).file
         /\ shard'[s].margin = Base(s, fresh).margin - b.size - EntrySize - NewMeta(f)
         /\ shard'[s].head = Base(s, fresh).head + b.size
         /\ shard'[s].tail = Base(s, fresh).tail
<1>1. b.size \in Sizes /\ b.size \in Nat \ {0}
  BY LayoutAssumption DEF Writes, Blocks
<1>2. NewMeta(f) \in Nat
  <2>1. KeySize[m_index_block_meta_key[f]] \in Nat
    BY LayoutAssumption DEF Writes
  <2> QED
    BY <2>1 DEF NewMeta, MetaSize
<1>3. PICK base : base = Base(s, fresh)
  OBVIOUS
<1>4. base \in ShardRecords /\ base.file # 0
  <2>1. CASE fresh
    <3>1. Len(files) \in Nat
      BY DEF LayoutInv, Types
    <3> QED
      BY <1>3, <2>1, <3>1, LayoutAssumption DEF Base, Fresh, ShardRecords, HeaderSize, FooterSize
  <2>2. CASE ~fresh
    BY <1>3, <2>2 DEF Base, Writes, LayoutInv, Types
  <2> QED
    BY <2>1, <2>2
<1>5. PICK meta \in Nat : meta = NewMeta(f)
  BY <1>2
<1>6. shard'[s] = Charged(base, b, meta)
  BY <1>3, <1>5 DEF Writes
<1>7. PICK size \in Nat : size = b.size
  BY <1>1
<1>8. shard'[s] = [base EXCEPT !.margin = base.margin - size - EntrySize - meta,
                               !.head = base.head + size]
  BY <1>6, <1>7 DEF Charged
<1>9. /\ base.file \in Nat /\ base.margin \in Int /\ base.head \in Int /\ base.tail \in Int
      /\ EntrySize \in Nat
  BY <1>4 DEF ShardRecords, EntrySize
<1>10. /\ shard'[s] \in ShardRecords
       /\ shard'[s].file = base.file /\ shard'[s].tail = base.tail
       /\ shard'[s].margin = base.margin - size - EntrySize - meta
       /\ shard'[s].head = base.head + size
  <2>1. PICK mg \in Int : mg = base.margin - size - EntrySize - meta
    BY <1>9
  <2>2. PICK hd \in Int : hd = base.head + size
    BY <1>9
  <2>3. shard'[s] = [base EXCEPT !.margin = mg, !.head = hd]
    BY <1>8, <2>1, <2>2
  <2> QED
    BY <1>4, <2>1, <2>2, <2>3 DEF ShardRecords
<1> QED
  BY <1>1, <1>2, <1>3, <1>4, <1>5, <1>7, <1>9, <1>10

-----------------------------------------------------------------------------
(* the margin of the first file *)

Exact(s) ==
  shard[s].file = 1 => shard[s].margin = shard[s].tail - shard[s].head - Load

\* The tail takes from the gap what leaves the load.
LEMMA ExactIndexes ==
  ASSUME LayoutInv, LayoutInv', NEW s, Shards = {s}, Single(s), Exact(s),
         NEW f, NEW x, Indexes(s, f, x)
  PROVE  Exact(s)'
<1>1. shard[s] \in ShardRecords
  BY DEF LayoutInv, Types
<1>2. PICK w \in Nat : w = Weights[f]
  BY WeightType DEF Indexes
<1>3. Load' = Load - w /\ Load \in Nat
  BY <1>2, LoadIndexes
<1>4. x.from = shard[s].tail - w /\ shard'[s] = [shard[s] EXCEPT !.tail = x.from]
  BY <1>2 DEF Indexes
<1>5. /\ shard'[s].file = shard[s].file /\ shard'[s].margin = shard[s].margin
      /\ shard'[s].head = shard[s].head /\ shard'[s].tail = shard[s].tail - w
  BY <1>1, <1>4 DEF ShardRecords
<1> QED
  BY <1>1, <1>3, <1>5 DEF Exact, ShardRecords

\* The margin pays for the block and for what joins the load.
LEMMA ExactWrites ==
  ASSUME LayoutInv, LayoutInv', NEW s, Shards = {s}, Single(s), Exact(s),
         NEW b, NEW f, NEW full, NEW fresh, Writes(s, b, f, full, fresh)
  PROVE  Exact(s)'
<1>1. SUFFICES ASSUME shard'[s].file = 1
               PROVE  shard'[s].margin = shard'[s].tail - shard'[s].head - Load'
  BY DEF Exact
<1>2. PICK base \in ShardRecords : base = Base(s, fresh)
  BY ChargedIs
<1>3. PICK size \in Nat, meta \in Nat : size = b.size /\ meta = NewMeta(f)
  BY ChargedIs
<1>4. /\ base.file = 1 /\ shard'[s].margin = base.margin - size - EntrySize - meta
      /\ shard'[s].head = base.head + size /\ shard'[s].tail = base.tail
  BY <1>1, <1>2, <1>3, ChargedIs
<1>5. base.margin \in Int /\ base.head \in Int /\ base.tail \in Int /\ EntrySize \in Nat
  BY DEF ShardRecords, EntrySize
<1>6. PICK full1 \in Nat : full1 = MetaSize(m_index_block_meta_key[f])
  BY LoadWrites
<1>7. Load \in Nat /\ Load' \in Nat
  BY LoadWrites
<1>8. CASE fresh
  <2>1. Len(files) \in Nat /\ shard[s].file = Len(files)
    BY DEF LayoutInv, Types, Single
  <2>2. /\ base.margin = FileSize - (HeaderSize + FooterSize)
        /\ base.head = HeaderSize /\ base.tail = FileSize - FooterSize
        /\ base.file = Len(files) + 1
    BY <1>2, <1>8 DEF Base, Fresh
  <2>3. shard[s].file = 0
    BY <1>4, <2>1, <2>2
  <2>4. meta = full1
    BY <1>3, <1>6, <2>3 DEF NewMeta, Writes, Single
  <2>5. Load' = EntrySize + full1
    BY <1>6, <1>8, LoadWrites
  <2> QED
    BY <1>4, <1>5, <2>2, <2>4, <2>5, LayoutAssumption DEF HeaderSize, FooterSize
<1>9. CASE ~fresh
  <2>1. base = shard[s]
    BY <1>2, <1>9 DEF Base
  <2>2. base.margin = base.tail - base.head - Load
    BY <1>4, <2>1 DEF Exact
  <2>3. f \in Fields /\ (m_create_meta[f] <=> f \in Waiting)
    BY <1>4, <2>1 DEF Writes, Single, Waiting
  <2>4. Load' = Load + EntrySize + (IF f \in Waiting THEN 0 ELSE full1)
    BY <1>6, <1>9, LoadWrites
  <2>5. meta = IF f \in Waiting THEN 0 ELSE full1
    BY <1>3, <1>6, <2>3 DEF NewMeta
  <2>6. Load' = Load + EntrySize + meta
    BY <2>4, <2>5
  <2> QED
    BY <1>4, <1>5, <1>7, <2>2, <2>6
<1> QED
  BY <1>8, <1>9

-----------------------------------------------------------------------------
(* the room of the current file *)

Room(s) ==
  shard[s].file > 0 =>
    /\ shard[s].margin >= 0 /\ shard[s].head >= HeaderSize
    /\ shard[s].head + shard[s].margin <= End

\* An index block does not touch the margin.
LEMMA RoomIndexes ==
  ASSUME LayoutInv, NEW s, Shards = {s}, Room(s), NEW f, NEW x, Indexes(s, f, x)
  PROVE  Room(s)'
<1>1. shard[s] \in ShardRecords
  BY DEF LayoutInv, Types
<1>2. shard'[s] = [shard[s] EXCEPT !.tail = x.from]
  BY DEF Indexes
<1>3. /\ shard'[s].file = shard[s].file /\ shard'[s].margin = shard[s].margin
      /\ shard'[s].head = shard[s].head
  BY <1>1, <1>2 DEF ShardRecords
<1> QED
  BY <1>3 DEF Room, End

\* A block goes where there is room for it, for its entry and for a new meta.
LEMMA BaseHasRoom ==
  ASSUME LayoutInv, NEW s, Shards = {s}, Single(s), Room(s), OneKeyLength, BlocksFit,
         NEW b, NEW f, NEW full, NEW fresh, Writes(s, b, f, full, fresh)
  PROVE  /\ Base(s, fresh).margin >= b.size + EntrySize + NewMeta(f)
         /\ Base(s, fresh).head >= HeaderSize
         /\ Base(s, fresh).head + Base(s, fresh).margin <= End
         /\ MetaSize(m_index_block_meta_key[f]) <= b.size + EntrySize + MetaSize(b.key)
         /\ MetaSize(b.key) = MetaSize(m_index_block_meta_key[f])
<1>1. b.size \in Sizes /\ b.key \in Keys /\ m_index_block_meta_key[f] \in Keys
  BY DEF Writes, Blocks
<1>2. PICK size \in Nat : size = b.size
  BY <1>1, LayoutAssumption
<1>3. PICK k \in Nat : k = KeySize[b.key]
  BY <1>1, LayoutAssumption
<1>4. KeySize[m_index_block_meta_key[f]] = k
  BY <1>1, <1>3 DEF OneKeyLength
<1>5. PICK meta \in Nat : meta = NewMeta(f) /\ meta <= 8 + k
  BY <1>3, <1>4 DEF NewMeta, MetaSize
<1>6. CASE fresh
  <2>1. size + EntrySize + (8 + k) <= FileSize - (HeaderSize + FooterSize)
    BY <1>1, <1>2, <1>3 DEF BlocksFit, MetaSize
  <2>2. /\ Base(s, fresh).margin = FileSize - (HeaderSize + FooterSize)
        /\ Base(s, fresh).head = HeaderSize
    BY <1>6 DEF Base, Fresh
  <2>3. size + EntrySize + meta <= FileSize - (HeaderSize + FooterSize)
    BY <1>5, <2>1, LayoutAssumption DEF EntrySize, HeaderSize, FooterSize
  <2> QED
    BY <1>2, <1>3, <1>4, <1>5, <2>2, <2>3, LayoutAssumption
    DEF End, EntrySize, HeaderSize, FooterSize, MetaSize
<1>7. CASE ~fresh
  <2>1. Base(s, fresh) = shard[s] /\ shard[s] \in ShardRecords
    BY <1>7 DEF Base, LayoutInv, Types
  <2>2. shard[s].file > 0 /\ HasRoom(shard[s], b)
    BY <1>7, <2>1 DEF Writes, ShardRecords
  <2>3. PICK mg \in Int : mg = shard[s].margin
    BY <2>1 DEF ShardRecords
  <2>4. mg >= 0
    BY <2>2, <2>3 DEF Room
  <2>5. mg >= size + 40 + k
    BY <1>2, <1>3, <2>2, <2>3, <2>4 DEF HasRoom
  <2>6. mg >= size + EntrySize + meta
    BY <1>5, <2>5 DEF EntrySize
  <2> QED
    BY <1>2, <1>3, <1>4, <1>5, <2>1, <2>2, <2>3, <2>6 DEF Room, EntrySize, MetaSize
<1> QED
  BY <1>6, <1>7

\* The margin has paid for a block before the head moves.
LEMMA RoomWrites ==
  ASSUME LayoutInv, NEW s, Shards = {s}, Single(s), Room(s), OneKeyLength, BlocksFit,
         NEW b, NEW f, NEW full, NEW fresh, Writes(s, b, f, full, fresh)
  PROVE  /\ Room(s)' /\ shard'[s].head <= End
         /\ shard'[s].head + shard'[s].margin + EntrySize + NewMeta(f)
              = Base(s, fresh).head + Base(s, fresh).margin
<1>1. PICK base \in ShardRecords : base = Base(s, fresh)
  BY ChargedIs
<1>2. PICK size \in Nat, meta \in Nat : size = b.size /\ meta = NewMeta(f)
  BY ChargedIs
<1>3. /\ shard'[s].margin = base.margin - size - EntrySize - meta
      /\ shard'[s].head = base.head + size
  BY <1>1, <1>2, ChargedIs
<1>4. /\ base.margin >= size + EntrySize + meta /\ base.head >= HeaderSize
      /\ base.head + base.margin <= End
  BY <1>1, <1>2, BaseHasRoom
<1>5. base.margin \in Int /\ base.head \in Int /\ End \in Int
  BY LayoutAssumption DEF ShardRecords, End, FooterSize
<1>6. /\ shard'[s].margin >= 0 /\ shard'[s].head >= HeaderSize
      /\ shard'[s].head + shard'[s].margin <= End /\ shard'[s].head <= End
      /\ shard'[s].head + shard'[s].margin + EntrySize + meta = base.head + base.margin
  BY <1>3, <1>4, <1>5 DEF EntrySize, HeaderSize
<1> QED
  BY <1>1, <1>2, <1>6 DEF Room, End

-----------------------------------------------------------------------------
(* the first file *)

SafeOne(s) ==
  /\ files # <<>> => files[1].length \in Int /\ files[1].length >= FileSize
  /\ \A d \in DataIn(1) : HeaderSize <= d.from /\ d.from + d.size <= End
  /\ \A d \in DataIn(1) : \A e \in DataIn(1) \ {d} : Disjoint(d, e)
  /\ \A d \in DataIn(1) : \A x \in IndexIn(1) : d.from + d.size <= x.from
  /\ shard[s].file = 1 => /\ \A d \in DataIn(1) : d.from + d.size <= shard[s].head
                          /\ \A x \in IndexIn(1) : x.from >= shard[s].tail

\* What is kept of the first file makes its blocks safe.
LEMMA SafeOneIsSafe ==
  ASSUME NEW s, SafeOne(s), Single(s)
  PROVE  FirstFileIsSafe
<1>1. SUFFICES ASSUME files # <<>> PROVE DataIsSafe(1)
  BY DEF FirstFileIsSafe
<1>2. PICK l \in Int : l = files[1].length /\ l >= FileSize
  BY <1>1 DEF SafeOne
<1>3. \A d \in DataIn(1) : d.from \in Int /\ d.size \in Nat
  BY LayoutAssumption DEF DataIn, Single
<1>4. ASSUME NEW d \in DataIn(1) PROVE d.from >= HeaderSize /\ d.from + d.size <= l - FooterSize
  <2>1. d.from + d.size <= FileSize - FooterSize /\ HeaderSize <= d.from
    BY DEF SafeOne, End
  <2> QED
    BY <1>2, <1>3, <2>1, LayoutAssumption DEF FooterSize, HeaderSize
<1>5. \A d \in DataIn(1) : \A x \in IndexIn(1) : Disjoint(d, x)
  BY DEF SafeOne, Disjoint
<1>6. \A d \in DataIn(1) : \A e \in DataIn(1) \ {d} : Disjoint(d, e)
  BY DEF SafeOne
<1> QED
  BY <1>2, <1>4, <1>5, <1>6 DEF DataIsSafe

\* Head and tail of the first file do not cross.
LEMMA FirstTail ==
  ASSUME LayoutInv, NEW s, Shards = {s}, Exact(s), Room(s), shard[s].file = 1
  PROVE  shard[s].tail - Load >= shard[s].head
<1>1. shard[s] \in ShardRecords /\ Load \in Nat
  BY LoadType DEF LayoutInv, Types, LoadIsNat
<1>2. PICK mg \in Int, hd \in Int, tl \in Int :
        mg = shard[s].margin /\ hd = shard[s].head /\ tl = shard[s].tail
  BY <1>1 DEF ShardRecords
<1>3. mg = tl - hd - Load /\ mg >= 0
  BY <1>2 DEF Exact, Room
<1> QED
  BY <1>1, <1>2, <1>3

\* The tail stays above the head, so the index block does too.
LEMMA SafeOneIndexes ==
  ASSUME LayoutInv, NEW s, Shards = {s}, Single(s), Exact(s), Room(s), SafeOne(s),
         NEW f, NEW x, Indexes(s, f, x)
  PROVE  SafeOne(s)'
<1>1. shard[s] \in ShardRecords /\ shard[s].file = Len(files)
  BY DEF LayoutInv, Types, Single
<1>2. PICK n \in Nat : n = Len(files) /\ n # 0
  BY SingleIndexes
<1>3. PICK w \in Nat : w = Weights[f]
  BY WeightType DEF Indexes
<1>4. /\ x.file = n /\ x.size = w /\ x.from = shard[s].tail - w
      /\ index' = index \cup {x} /\ data' = data
      /\ shard'[s].file = n /\ shard'[s].head = shard[s].head /\ shard'[s].tail = x.from
  BY <1>1, <1>2, <1>3 DEF Indexes, ShardRecords
<1>5. DataIn(1)' = DataIn(1) /\ \A y \in IndexIn(1)' : y \in IndexIn(1) \/ (y = x /\ n = 1)
  <2>1. data' = data /\ index' = index \cup {x} /\ x.file = n
    BY <1>4
  <2>2. DataIn(1)' = DataIn(1)
    BY <2>1 DEF DataIn
  <2>3. \A y \in index' : y \in index \/ y = x
    BY <2>1
  <2>4. \A y \in IndexIn(1)' : y \in IndexIn(1) \/ (y = x /\ n = 1)
    BY <2>1, <2>3 DEF IndexIn
  <2> QED
    BY <2>2, <2>4
<1>6. ASSUME n = 1
      PROVE  /\ x.from >= shard[s].head
             /\ \A y \in IndexIn(1) : y.from >= x.from
             /\ files[1].length \in Int /\ files'[1].length \in Int
             /\ files'[1].length >= FileSize
  <2>1. PICK hd \in Int, tl \in Int : hd = shard[s].head /\ tl = shard[s].tail
    BY <1>1 DEF ShardRecords
  <2>2. Load \in Nat /\ w <= Load
    <3>1. IsFiniteSet(Waiting) /\ \A g \in Waiting : Weights[g] \in Nat
      BY WaitingFinite, WeightType
    <3>2. f \in Waiting
      BY DEF Indexes
    <3>3. Load = w + SumFunctionOnSet(Weights, Waiting \ {f}) /\ Load \in Nat
      BY <1>3, <3>1, <3>2, SumTakes DEF Load
    <3>4. IsFiniteSet(Waiting \ {f}) /\ \A g \in Waiting \ {f} : Weights[g] \in Nat
      BY <3>1, FS_Subset
    <3>5. SumFunctionOnSet(Weights, Waiting \ {f}) \in Nat
      BY <3>4, SumTakes
    <3> QED
      BY <3>3, <3>5
  <2>3. tl - Load >= hd
    BY <1>1, <1>2, <1>6, <2>1, FirstTail
  <2>4. x.from = tl - w /\ x.from >= hd /\ x.from <= tl /\ x.from \in Int
    BY <1>4, <2>1, <2>2, <2>3
  <2>5. \A y \in IndexIn(1) : y.from >= tl /\ y.from \in Int
    BY <1>1, <1>2, <1>6, <2>1 DEF SafeOne, Single, IndexIn
  <2>6. files[1].length \in Int /\ files[1].length >= FileSize
    BY <1>2, <1>6 DEF SafeOne
  <2>7. files'[1] = WithFooter(files[1], x.from + x.size, x.from)
    BY <1>2, <1>6, SingleIndexes
  <2>8. files'[1].length \in Int /\ files'[1].length >= files[1].length
    <3>1. PICK to \in Int : to = x.from + x.size
      BY <1>4, <2>4
    <3>2. files'[1].length = Grown(files[1].length, to)
      BY <2>7, <3>1 DEF WithFooter
    <3> QED
      BY <2>6, <3>2 DEF Grown
  <2>9. files'[1].length >= FileSize
    BY <2>6, <2>8, LayoutAssumption
  <2> QED
    BY <2>1, <2>4, <2>5, <2>6, <2>8, <2>9
<1>7. files' # <<>> => files'[1].length \in Int /\ files'[1].length >= FileSize
  <2>1. CASE n = 1
    BY <1>6, <2>1
  <2>2. CASE n # 1
    <3>1. 1 \in 1..n /\ files'[1] = files[1] /\ files # <<>>
      BY <1>2, <2>2, SingleIndexes
    <3> QED
      BY <3>1 DEF SafeOne
  <2> QED
    BY <2>1, <2>2
<1>8. \A d \in DataIn(1) : \A y \in IndexIn(1)' : d.from + d.size <= y.from
  <2>1. ASSUME NEW d \in DataIn(1), n = 1 PROVE d.from + d.size <= x.from
    <3>1. d.from + d.size <= shard[s].head /\ d.from + d.size \in Int
      <4>1. d.from \in Int /\ d.size \in Nat
        BY <2>1, LayoutAssumption DEF Single, DataIn
      <4>2. d.from + d.size <= shard[s].head
        BY <1>1, <1>2, <2>1 DEF SafeOne
      <4> QED
        BY <4>1, <4>2
    <3>2. shard[s].head \in Int /\ shard[s].head <= x.from /\ x.from \in Int
      BY <1>1, <1>3, <1>4, <1>6, <2>1 DEF ShardRecords
    <3> QED
      BY <3>1, <3>2
  <2> QED
    BY <1>5, <2>1 DEF SafeOne
<1>9. n = 1 => /\ \A d \in DataIn(1) : d.from + d.size <= shard[s].head
               /\ \A y \in IndexIn(1)' : y.from >= x.from
  <2>1. x.from \in Int
    BY <1>1, <1>4 DEF ShardRecords
  <2> QED
    BY <1>1, <1>2, <1>5, <1>6, <2>1 DEF SafeOne
<1>10. /\ \A d \in DataIn(1) : HeaderSize <= d.from /\ d.from + d.size <= End
       /\ \A d \in DataIn(1) : \A e \in DataIn(1) \ {d} : Disjoint(d, e)
  BY DEF SafeOne
<1> QED
  BY <1>4, <1>5, <1>7, <1>8, <1>9, <1>10 DEF SafeOne, End, Disjoint

\* Which file a block goes to, and what is written to the file that is left.
LEMMA WhichFile ==
  ASSUME LayoutInv, NEW s, Shards = {s}, Single(s),
         NEW b, NEW f, NEW full, NEW fresh, Writes(s, b, f, full, fresh)
  PROVE  /\ Len(files) \in Nat /\ shard[s] \in ShardRecords /\ shard[s].file = Len(files)
         /\ full => fresh /\ Len(files) # 0
         /\ fresh /\ ~full => Len(files) = 0
         /\ ~fresh => ~full /\ Len(files) # 0 /\ Base(s, fresh) = shard[s]
         /\ Base(s, fresh).file = IF fresh THEN Len(files) + 1 ELSE Len(files)
         /\ fresh => Base(s, fresh).head = HeaderSize /\ Base(s, fresh).tail = End
         /\ ~full => LeftBlocks(s, f, full) = {}
         /\ IsFiniteSet(LeftBlocks(s, f, full))
         /\ \A x \in LeftBlocks(s, f, full) :
              x.file = Len(files) /\ x.from \in Int /\ x.size \in Nat \ {0}
         /\ OneKeyLength => \A x \in LeftBlocks(s, f, full) : x.from >= shard[s].tail - Load
<1>1. shard[s] \in ShardRecords /\ shard[s].file = Len(files) /\ Len(files) \in Nat
  BY DEF LayoutInv, Types, Single
<1>2. /\ full \in BOOLEAN /\ fresh \in BOOLEAN /\ (fresh <=> full \/ shard[s].file = 0)
      /\ full => shard[s].file # 0
      /\ f \in Fields /\ m_index_block_meta_key[f] \in Keys
  BY DEF Writes
<1>3. /\ fresh => Base(s, fresh) = Fresh(Len(files) + 1)
      /\ ~fresh => Base(s, fresh) = shard[s]
  BY DEF Base
<1>4. /\ Base(s, fresh).file = IF fresh THEN Len(files) + 1 ELSE Len(files)
      /\ fresh => Base(s, fresh).head = HeaderSize /\ Base(s, fresh).tail = End
  BY <1>1, <1>2, <1>3 DEF Fresh, End
<1>5. ~full => LeftBlocks(s, f, full) = {}
  BY DEF LeftBlocks
<1>6. CASE full
  <2>1. shard[s].tail \in Int /\ LeftBlocks(s, f, full) = Residue(f, Len(files), shard[s].tail)
    BY <1>1, <1>6 DEF LeftBlocks, ShardRecords
  <2>2. PICK R : R = LeftBlocks(s, f, full)
    OBVIOUS
  <2>3. /\ IsFiniteSet(R)
        /\ \A x \in R : x.file = Len(files) /\ x.from \in Int /\ x.size \in Nat \ {0}
        /\ OneKeyLength => \A x \in R : x.from >= shard[s].tail - Load
    BY <1>2, <2>1, <2>2, ResidueType
  <2> QED
    BY <1>1, <1>2, <1>3, <1>4, <1>6, <2>2, <2>3
<1>7. CASE ~full
  <2>1. LeftBlocks(s, f, full) = {} /\ IsFiniteSet({})
    BY <1>5, <1>7, FS_EmptySet
  <2> QED
    BY <1>1, <1>2, <1>3, <1>4, <1>7, <2>1
<1> QED
  BY <1>2, <1>6, <1>7

\* There is no first file.
LEMMA SafeOneInit ==
  ASSUME Init, NEW s, Shards = {s}
  PROVE  SafeOne(s)
BY DEF Init, SafeOne, DataIn, IndexIn

\* Nothing is written.
LEMMA SafeOneQuiet ==
  ASSUME NEW s, Shards = {s}, SafeOne(s), Quiet
  PROVE  SafeOne(s)'
BY DEF SafeOne, Quiet, diskVars, DataIn, IndexIn, Disjoint, End

\* A block goes between the head and the tail, and leaving the first file writes
\* no more below its tail than the load.
LEMMA SafeOneWrites ==
  ASSUME LayoutInv, LayoutInv', NEW s, Shards = {s}, OneKeyLength, BlocksFit,
         Single(s), Exact(s), Exact(s)', Room(s), SafeOne(s),
         NEW b, NEW f, NEW full, NEW fresh,
         Writes(s, b, f, full, fresh), Files(s, b, f, full, fresh)
  PROVE  SafeOne(s)'
<1>1. PICK n \in Nat : n = Len(files)
  BY WhichFile
<1>2. PICK d : /\ data' = data \cup {d} /\ d.file = Base(s, fresh).file
               /\ d.from = Base(s, fresh).head /\ d.size = b.size
  BY DEF Writes
<1>3. PICK size \in Nat : size = b.size
  BY ChargedIs
<1>4. PICK hd \in Int : hd = Base(s, fresh).head
  BY ChargedIs DEF ShardRecords
<1>5. /\ d.from = hd /\ d.size = size /\ shard'[s].head = hd + size
      /\ hd >= HeaderSize /\ hd + size <= End
      /\ shard'[s].tail = Base(s, fresh).tail
      /\ shard'[s].file = IF fresh THEN n + 1 ELSE n
      /\ d.file = IF fresh THEN n + 1 ELSE n
  BY <1>1, <1>2, <1>3, <1>4, ChargedIs, WhichFile, BaseHasRoom, RoomWrites
<1>6. PICK R : R = LeftBlocks(s, f, full)
  OBVIOUS
<1>7. /\ index' = index \cup R /\ (~full => R = {})
      /\ \A x \in R : x.file = n
      /\ \A x \in R : x.from >= shard[s].tail - Load
  <2>1. index' = index \cup R
    BY <1>6 DEF Writes
  <2>2. ~full => R = {}
    BY <1>6, WhichFile
  <2>3. \A x \in R : x.file = n
    BY <1>1, <1>6, WhichFile
  <2>4. \A x \in R : x.from >= shard[s].tail - Load
    BY <1>6, WhichFile
  <2> QED
    BY <2>1, <2>2, <2>3, <2>4
<1>8. \A e \in data : e.file \in 1..n /\ e.from \in Int /\ e.size \in Nat
  BY <1>1, LayoutAssumption DEF Single
<1>9. PICK hd0 \in Int, tl0 \in Int : hd0 = shard[s].head /\ tl0 = shard[s].tail
  BY WhichFile DEF ShardRecords
<1>10. PICK load \in Nat : load = Load
  BY LoadType DEF LoadIsNat
<1>11. n = 1 => tl0 - load >= hd0 /\ \A e \in DataIn(1) : e.from + e.size <= hd0
  BY <1>1, <1>9, <1>10, FirstTail, WhichFile DEF SafeOne
<1>12. \A e \in DataIn(1) : /\ e.from \in Int /\ e.size \in Nat /\ e.file = 1 /\ e \in data
                            /\ HeaderSize <= e.from /\ e.from + e.size <= End
  BY <1>8 DEF DataIn, SafeOne
\* the length of the first file
<1>13. files' # <<>> => files'[1].length \in Int /\ files'[1].length >= FileSize
  <2>1. CASE n = 0
    <3>1. files'[1].length = Grown(FileSize, HeaderSize + size)
      BY <1>1, <1>3, <2>1, WhichFile DEF Files
    <3> QED
      BY <3>1, LayoutAssumption DEF Grown, HeaderSize
  <2>2. CASE n # 0
    <3>1. files # <<>> /\ files[1].length \in Int /\ files[1].length >= FileSize /\ 1 \in 1..n
      BY <1>1, <2>2 DEF SafeOne
    <3>2. CASE n = 1 /\ full
      <4>1. files'[1] = Closed(files[1], R)
        BY <1>1, <1>6, <3>2 DEF Files
      <4>2. IsFiniteSet(R) /\ \A x \in R : x.from \in Int /\ x.size \in Nat \ {0}
        BY <1>6, WhichFile
      <4>3. PICK fl : fl = files[1]
        OBVIOUS
      <4>4. Closed(fl, R).length \in Int /\ Closed(fl, R).length >= fl.length
        BY <3>1, <4>2, <4>3, ClosedLength
      <4> QED
        BY <3>1, <4>1, <4>3, <4>4, LayoutAssumption
    <3>3. CASE n = 1 /\ ~full
      <4>1. ~fresh
        BY <1>1, <3>3, WhichFile
      <4>2. files'[1].length = Grown(files[1].length, hd0 + size)
        BY <1>1, <1>3, <1>9, <3>3, <4>1 DEF Files
      <4> QED
        BY <3>1, <4>2, LayoutAssumption DEF Grown
    <3>4. CASE n # 1
      <4>1. files'[1] = files[1]
        BY <1>1, <3>1, <3>4 DEF Files
      <4> QED
        BY <3>1, <4>1
    <3> QED
      BY <3>2, <3>3, <3>4
  <2> QED
    BY <2>1, <2>2
\* what the first file now holds
<1>14. \A e \in DataIn(1)' : e \in DataIn(1) \/ (e = d /\ d.file = 1)
  BY <1>2 DEF DataIn
<1>15. \A x \in IndexIn(1)' : x \in IndexIn(1) \/ (x \in R /\ n = 1 /\ full)
  BY <1>7 DEF IndexIn
<1>16. d.file = 1 =>
         /\ \/ n = 0 /\ fresh /\ ~full /\ DataIn(1) = {}
            \/ n = 1 /\ ~fresh /\ ~full /\ hd = hd0
         /\ R = {} /\ shard'[s].file = 1
  <2>1. SUFFICES ASSUME d.file = 1
                 PROVE  /\ \/ n = 0 /\ fresh /\ ~full /\ DataIn(1) = {}
                           \/ n = 1 /\ ~fresh /\ ~full /\ hd = hd0
                        /\ R = {} /\ shard'[s].file = 1
    OBVIOUS
  <2>2. CASE fresh
    <3>1. n = 0 /\ shard[s].file = 0
      <4>1. n + 1 = 1
        BY <1>5, <2>1, <2>2
      <4>2. n = 0
        BY <4>1
      <4> QED
        BY <1>1, <4>2, WhichFile
    <3> QED
      BY <1>1, <1>5, <1>7, <2>1, <2>2, <3>1, WhichFile DEF Single, DataIn
  <2>3. CASE ~fresh
    BY <1>1, <1>4, <1>5, <1>7, <1>9, <2>1, <2>3, WhichFile
  <2> QED
    BY <2>2, <2>3
<1>17. \A e \in DataIn(1)' : HeaderSize <= e.from /\ e.from + e.size <= End
  BY <1>5, <1>12, <1>14
<1>18. \A e \in DataIn(1)' : \A g \in DataIn(1)' \ {e} : Disjoint(e, g)
  <2>1. \A e \in DataIn(1) : \A g \in DataIn(1) \ {e} : Disjoint(e, g)
    BY DEF SafeOne
  <2>2. d.file = 1 => \A e \in DataIn(1) : e.from + e.size <= d.from
    BY <1>5, <1>11, <1>16
  <2> QED
    BY <1>14, <2>1, <2>2 DEF Disjoint
<1>19. d.file = 1 => hd + size <= shard'[s].tail
  <2>1. SUFFICES ASSUME d.file = 1 PROVE hd + size <= shard'[s].tail
    OBVIOUS
  <2>2. shard'[s].file = 1 /\ shard'[s] \in ShardRecords
    BY <1>16, <2>1, ChargedIs
  <2>3. LoadIsNat'
    BY LoadType, PTL
  <2>4. PICK load1 \in Nat : load1 = Load'
    BY <2>3 DEF LoadIsNat
  <2>5. PICK mg \in Int, tl \in Int : mg = shard'[s].margin /\ tl = shard'[s].tail
    BY <2>2 DEF ShardRecords
  <2>6. mg = tl - (hd + size) - load1
    BY <1>5, <2>2, <2>4, <2>5 DEF Exact
  <2>7. mg >= 0
    BY <2>2, <2>5, RoomWrites DEF Room
  <2> QED
    BY <2>5, <2>6, <2>7
<1>20. \A e \in DataIn(1)' : \A x \in IndexIn(1)' : e.from + e.size <= x.from
  <2>1. SUFFICES ASSUME NEW e \in DataIn(1)', NEW x \in IndexIn(1)'
                 PROVE  e.from + e.size <= x.from
    OBVIOUS
  <2>2. CASE e \in DataIn(1) /\ x \in IndexIn(1)
    BY <2>2 DEF SafeOne
  <2>3. CASE e \in DataIn(1) /\ x \in R /\ n = 1
    <3>1. e.from + e.size <= hd0 /\ hd0 <= tl0 - load /\ tl0 - load <= x.from
      BY <1>7, <1>9, <1>10, <1>11, <2>3
    <3>2. x.from \in Int /\ e.from \in Int /\ e.size \in Nat
      BY <1>6, <1>12, <2>3, WhichFile
    <3> QED
      BY <3>1, <3>2
  <2>4. CASE e = d /\ d.file = 1
    <3>1. x \in IndexIn(1)
      BY <1>15, <1>16, <2>4
    <3>2. CASE n = 0
      BY <1>1, <3>1, <3>2, WhichFile DEF Single, IndexIn
    <3>3. CASE n = 1
      <4>1. ~fresh /\ x.from >= tl0 /\ x.from \in Int
        BY <1>1, <1>9, <1>16, <2>4, <3>1, <3>3, WhichFile DEF SafeOne, Single, IndexIn
      <4>2. shard'[s].tail = tl0
        BY <1>5, <1>9, <4>1, WhichFile
      <4> QED
        BY <1>5, <1>19, <2>4, <4>1, <4>2
    <3> QED
      BY <1>16, <2>4, <3>2, <3>3
  <2> QED
    BY <1>14, <1>15, <2>2, <2>3, <2>4
<1>21. shard'[s].file = 1 => /\ \A e \in DataIn(1)' : e.from + e.size <= shard'[s].head
                             /\ \A x \in IndexIn(1)' : x.from >= shard'[s].tail
  <2>1. SUFFICES ASSUME shard'[s].file = 1
                 PROVE  /\ \A e \in DataIn(1)' : e.from + e.size <= shard'[s].head
                        /\ \A x \in IndexIn(1)' : x.from >= shard'[s].tail
    OBVIOUS
  <2>2. d.file = 1
    BY <1>5, <2>1
  <2>3. \A e \in DataIn(1) : e.from + e.size <= hd + size
    BY <1>11, <1>12, <1>16, <2>2
  <2>4. \A x \in IndexIn(1) : x.from >= shard'[s].tail
    <3>1. CASE n = 0
      BY <1>1, <3>1, WhichFile DEF Single, IndexIn
    <3>2. CASE n = 1
      <4>1. shard'[s].tail = shard[s].tail /\ shard[s].file = 1
        BY <1>1, <1>5, <1>16, <2>2, <3>2, WhichFile
      <4> QED
        BY <4>1 DEF SafeOne
    <3> QED
      BY <1>16, <2>2, <3>1, <3>2
  <2>5. \A e \in DataIn(1)' : e.from + e.size <= shard'[s].head
    BY <1>5, <1>14, <2>3
  <2>6. \A x \in IndexIn(1)' : x.from >= shard'[s].tail
    BY <1>15, <1>16, <2>2, <2>4
  <2> QED
    BY <2>5, <2>6
<1> QED
  BY <1>13, <1>17, <1>18, <1>20, <1>21 DEF SafeOne, End, Disjoint

-----------------------------------------------------------------------------
(* the index of the current file *)

\* The blocks X lie one after the other from tail to the footer.
Tiles(X, tail) ==
  /\ tail <= End
  /\ \A x \in X :
       /\ x.from \in Int /\ x.size \in Nat \ {0}
       /\ tail <= x.from /\ x.from + x.size <= End
       /\ x.from = tail \/ \E y \in X : y.from + y.size = x.from
       /\ x.from + x.size = End \/ \E y \in X : y.from = x.from + x.size
       /\ \A y \in X \ {x} : Disjoint(x, y)
  /\ X = {} => tail = End
  /\ X # {} => \E x \in X : x.from = tail

\* The tail keeps above the header all that the margin and the waiting entries may take.
Tiled(s) ==
  shard[s].file > 0 =>
    /\ files[shard[s].file].length = FileSize
    /\ Tiles(IndexIn(shard[s].file), shard[s].tail)
    /\ files[shard[s].file].footer = IF IndexIn(shard[s].file) = {} THEN 0 ELSE shard[s].tail
    /\ shard[s].tail - HeaderSize >= shard[s].margin + Load

\* Tiles from the tail to the footer are an index that can be read.
LEMMA TiledIsReadable ==
  ASSUME LayoutInv, NEW s, Shards = {s}, Single(s), Room(s), Tiled(s)
  PROVE  CurrentIsReadable
<1>1. SUFFICES ASSUME NEW n \in DOMAIN files, shard[s].file = n PROVE Readable(n)
  BY DEF CurrentIsReadable, IsCurrent
<1>2. n \in Nat /\ n > 0 /\ shard[s] \in ShardRecords
  BY <1>1 DEF LayoutInv, Types
<1>3. PICK tl \in Int, mg \in Int : tl = shard[s].tail /\ mg = shard[s].margin
  BY <1>2 DEF ShardRecords
<1>4. PICK X : X = IndexIn(n)
  OBVIOUS
<1>5. /\ files[n].length = FileSize /\ Tiles(X, tl)
      /\ files[n].footer = IF X = {} THEN 0 ELSE tl
      /\ tl - HeaderSize >= mg + Load
  BY <1>1, <1>2, <1>3, <1>4 DEF Tiled
<1>6. tl # 0
  <2>1. Load \in Nat /\ mg >= 0
    BY <1>1, <1>2, <1>3, LoadType DEF LoadIsNat, Room
  <2> QED
    BY <1>5, <2>1 DEF HeaderSize
<1>7. X = {} <=> files[n].footer = 0
  BY <1>5, <1>6
<1>8. \A x \in X :
        /\ x.from = files[n].footer \/ \E y \in X : y.from + y.size = x.from
        /\ x.from + x.size = End \/ \E y \in X : y.from = x.from + x.size
        /\ \A y \in X \ {x} : Disjoint(x, y)
  BY <1>5 DEF Tiles
<1>9. files[n].length - FooterSize = End
  BY <1>5 DEF End
<1> QED
  BY <1>4, <1>7, <1>8, <1>9 DEF Readable

\* There is no current file.
LEMMA TiledInit ==
  ASSUME Init, NEW s, Shards = {s}
  PROVE  Tiled(s)
BY DEF Init, Tiled

\* Neither tail nor load changes.
LEMMA TiledQuiet ==
  ASSUME LayoutInv, LayoutInv', OneKeyLength, NEW s, Shards = {s}, Tiled(s), Quiet
  PROVE  Tiled(s)'
<1>1. Load' = Load
  BY QuietLoad DEF Quiet
<1>2. UNCHANGED <<shard, files, index>>
  BY DEF Quiet, diskVars
<1>3. IndexIn(shard[s].file)' = IndexIn(shard[s].file)
  BY <1>2 DEF IndexIn
<1> QED
  BY <1>1, <1>2, <1>3 DEF Tiled, Tiles, Disjoint, End

\* A block put right below the tail.
LEMMA TilesGrow ==
  ASSUME NEW X, NEW tail \in Int, Tiles(X, tail), NEW x, NEW w \in Nat \ {0},
         x.size = w, x.from = tail - w
  PROVE  Tiles(X \cup {x}, x.from)
<1>1. x.from \in Int /\ x.from < tail /\ x.from + x.size = tail /\ End \in Int
  BY LayoutAssumption DEF End, FooterSize
<1>2. \A y \in X : y.from \in Int /\ y.size \in Nat \ {0} /\ tail <= y.from
                   /\ y.from + y.size <= End
  BY DEF Tiles
<1>3. tail <= End
  BY DEF Tiles
<1>4. \A y \in X \cup {x} :
        /\ y.from \in Int /\ y.size \in Nat \ {0}
        /\ x.from <= y.from /\ y.from + y.size <= End
  BY <1>1, <1>2, <1>3
<1>5. \A y \in X \cup {x} :
        y.from = x.from \/ \E z \in X \cup {x} : z.from + z.size = y.from
  BY <1>1 DEF Tiles
<1>6. \A y \in X \cup {x} :
        y.from + y.size = End \/ \E z \in X \cup {x} : z.from = y.from + y.size
  BY <1>1 DEF Tiles
<1>7. \A y \in X \cup {x} : \A z \in (X \cup {x}) \ {y} : Disjoint(y, z)
  <2>1. \A y \in X : \A z \in X \ {y} : Disjoint(y, z)
    BY DEF Tiles
  <2>2. \A y \in X : Disjoint(x, y) /\ Disjoint(y, x)
    BY <1>1, <1>2 DEF Disjoint
  <2> QED
    BY <2>1, <2>2
<1>8. x.from <= End
  BY <1>1, <1>3
<1> QED
  BY <1>4, <1>5, <1>6, <1>7, <1>8 DEF Tiles

\* The new index block lies right below the others.
LEMMA TiledIndexes ==
  ASSUME LayoutInv, LayoutInv', NEW s, Shards = {s}, Single(s), Tiled(s),
         NEW f, NEW x, Indexes(s, f, x)
  PROVE  Tiled(s)'
<1>1. shard[s] \in ShardRecords /\ shard[s].file = Len(files)
  BY DEF LayoutInv, Types, Single
<1>2. PICK n \in Nat : n = Len(files) /\ n # 0 /\ n > 0
  BY SingleIndexes
<1>3. PICK w \in Nat \ {0} : w = Weights[f]
  BY WeightType DEF Indexes
<1>4. PICK tl \in Int, mg \in Int : tl = shard[s].tail /\ mg = shard[s].margin
  BY <1>1 DEF ShardRecords
<1>5. /\ x.file = n /\ x.size = w /\ x.from = tl - w
      /\ index' = index \cup {x}
      /\ shard'[s].file = n /\ shard'[s].margin = mg /\ shard'[s].tail = tl - w
  BY <1>1, <1>2, <1>3, <1>4 DEF Indexes, ShardRecords
<1>6. PICK X : X = IndexIn(n)
  OBVIOUS
<1>7. /\ files[n].length = FileSize /\ Tiles(X, tl)
      /\ tl - HeaderSize >= mg + Load
  BY <1>1, <1>2, <1>4, <1>6 DEF Tiled
<1>8. IndexIn(n)' = X \cup {x}
  BY <1>5, <1>6 DEF IndexIn
<1>9. Tiles(X \cup {x}, tl - w)
  BY <1>3, <1>5, <1>7, TilesGrow
<1>10. files'[n].length = FileSize /\ files'[n].footer = tl - w
  <2>1. x.from + x.size = tl /\ tl <= FileSize
    BY <1>5, <1>7, LayoutAssumption DEF Tiles, End, FooterSize
  <2>2. files'[n] = WithFooter(files[n], x.from + x.size, x.from)
    BY <1>2, SingleIndexes
  <2>3. files'[n] = WithFooter(files[n], tl, tl - w)
    BY <1>5, <2>1, <2>2
  <2>4. files'[n].length = Grown(FileSize, tl) /\ files'[n].footer = tl - w
    BY <1>7, <2>3 DEF WithFooter
  <2> QED
    BY <2>1, <2>4, LayoutAssumption DEF Grown
<1>11. tl - w - HeaderSize >= mg + Load'
  <2>1. Load' = Load - w /\ Load \in Nat
    BY <1>3, LoadIndexes
  <2> QED
    BY <1>7, <2>1 DEF HeaderSize
<1>12. Tiles(IndexIn(n)', tl - w)
  BY <1>8, <1>9
<1>13. IndexIn(n)' # {}
  BY <1>8
<1> QED
  BY <1>5, <1>10, <1>11, <1>12, <1>13 DEF Tiled, Tiles, Disjoint, End, IndexIn

\* A block leaves the index of its file alone; a new file has none.
LEMMA TiledWrites ==
  ASSUME LayoutInv, LayoutInv', NEW s, Shards = {s}, OneKeyLength, BlocksFit, BlocksOutweighMeta,
         Single(s), Room(s), Tiled(s),
         NEW b, NEW f, NEW full, NEW fresh,
         Writes(s, b, f, full, fresh), Files(s, b, f, full, fresh)
  PROVE  Tiled(s)'
<1>1. PICK n \in Nat : n = Len(files)
  BY WhichFile
<1>2. PICK base \in ShardRecords : base = Base(s, fresh)
  BY ChargedIs
<1>3. PICK size \in Nat, new \in Nat : size = b.size /\ new = NewMeta(f)
  BY ChargedIs
<1>4. PICK mg \in Int, hd \in Int, tl \in Int : mg = base.margin /\ hd = base.head /\ tl = base.tail
  BY DEF ShardRecords
<1>5. PICK meta \in Nat : meta = MetaSize(m_index_block_meta_key[f])
  BY LoadWrites
<1>6. PICK load \in Nat, load1 \in Nat : load = Load /\ load1 = Load'
  BY LoadWrites
<1>7. PICK m \in Nat : m = IF fresh THEN n + 1 ELSE n
  BY <1>1
<1>8. /\ shard'[s].file = m /\ m > 0 /\ m = base.file
      /\ shard'[s].margin = mg - size - EntrySize - new
      /\ shard'[s].tail = tl /\ shard'[s].head = hd + size /\ hd + size <= End
  BY <1>1, <1>2, <1>3, <1>4, <1>7, ChargedIs, WhichFile, RoomWrites
<1>9. meta <= size
  <2>1. b.size \in Sizes /\ m_index_block_meta_key[f] \in Keys
    <3>1. b.size \in Sizes
      BY ChargedIs
    <3>2. m_index_block_meta_key[f] \in Keys
      BY DEF Writes
    <3> QED
      BY <3>1, <3>2
  <2> QED
    BY <1>3, <1>5, <2>1 DEF BlocksOutweighMeta
<1>10. hd + size <= FileSize
  BY <1>8, LayoutAssumption DEF End, FooterSize
<1>11. CASE fresh
  <2>1. m = n + 1 /\ hd = HeaderSize /\ tl = End
    BY <1>2, <1>4, <1>7, <1>11, WhichFile
  <2>2. files'[m].footer = 0 /\ files'[m].length = FileSize
    <3>1. files'[m].footer = 0 /\ files'[m].length = Grown(FileSize, HeaderSize + size)
      BY <1>1, <1>3, <1>11, <2>1 DEF Files
    <3> QED
      BY <1>10, <2>1, <3>1, LayoutAssumption DEF Grown, HeaderSize
  <2>3. IndexIn(m)' = {}
    <3>1. \A x \in index : x.file \in 1..n
      BY <1>1 DEF Single
    <3>2. \A x \in LeftBlocks(s, f, full) : x.file = n
      BY <1>1, WhichFile
    <3>3. index' = index \cup LeftBlocks(s, f, full)
      BY DEF Writes
    <3>4. \A x \in index' : x.file # m
      BY <2>1, <3>1, <3>2, <3>3
    <3> QED
      BY <3>4 DEF IndexIn
  <2>4. tl - HeaderSize >= mg - size - EntrySize - new + load1
    <3>1. mg = FileSize - (HeaderSize + FooterSize)
      BY <1>2, <1>4, <1>11 DEF Base, Fresh
    <3>2. load1 = EntrySize + meta
      BY <1>5, <1>6, <1>11, LoadWrites
    <3> QED
      BY <1>9, <2>1, <3>1, <3>2, LayoutAssumption DEF End, HeaderSize, FooterSize, EntrySize
  <2>5. Tiles({}, tl)
    <3>1. End \in Int
      BY LayoutAssumption DEF End, FooterSize
    <3> QED
      BY <2>1, <3>1 DEF Tiles
  <2> QED
    BY <1>6, <1>8, <2>2, <2>3, <2>4, <2>5 DEF Tiled, Tiles, Disjoint, End
<1>12. CASE ~fresh
  <2>1. m = n /\ base = shard[s] /\ ~full /\ shard[s].file = n
    BY <1>1, <1>2, <1>7, <1>12, WhichFile
  <2>2. PICK X : X = IndexIn(n)
    OBVIOUS
  <2>3. /\ files[n].length = FileSize /\ Tiles(X, tl)
        /\ files[n].footer = IF X = {} THEN 0 ELSE tl
        /\ tl - HeaderSize >= mg + load
    BY <1>4, <1>6, <1>8, <2>1, <2>2 DEF Tiled
  <2>4. IndexIn(n)' = X
    <3>1. index' = index
      <4>1. LeftBlocks(s, f, full) = {}
        BY <2>1, WhichFile
      <4> QED
        BY <4>1 DEF Writes
    <3> QED
      BY <2>2, <3>1 DEF IndexIn
  <2>5. files'[n].footer = files[n].footer /\ files'[n].length = FileSize
    <3>1. /\ files'[n].footer = files[n].footer
          /\ files'[n].length = Grown(FileSize, hd + size)
      BY <1>1, <1>3, <1>4, <1>12, <2>1, <2>3 DEF Files
    <3> QED
      BY <1>10, <3>1, LayoutAssumption DEF Grown
  <2>6. tl - HeaderSize >= mg - size - EntrySize - new + load1
    <3>1. load1 = load + EntrySize + (IF f \in Waiting THEN 0 ELSE meta)
      BY <1>5, <1>6, <1>12, LoadWrites
    <3>2. PICK more \in Nat : more = (IF f \in Waiting THEN 0 ELSE meta) /\ more <= size
      BY <1>9
    <3> QED
      BY <2>3, <3>1, <3>2 DEF HeaderSize, EntrySize
  <2> QED
    BY <1>6, <1>8, <2>1, <2>3, <2>4, <2>5, <2>6 DEF Tiled, Tiles, Disjoint, End
<1> QED
  BY <1>11, <1>12

-----------------------------------------------------------------------------
(* what is written over *)

\* Every shard writes to a file of its own, its tail below all index blocks of the
\* file, and no file is shorter than a new one.
Placed ==
  /\ \A s \in Shards : shard[s].file \in 0..Len(files)
  /\ \A s, t \in Shards : shard[s].file = shard[t].file => s = t \/ shard[s].file = 0
  /\ \A f \in Fields : m_index_map[f].shard # NoShard => shard[m_index_map[f].shard].file # 0
  /\ \A i \in 1..Len(files) : files[i].length \in Int /\ files[i].length >= FileSize
  /\ \A x \in index : x.file \in 1..Len(files) /\ x.from \in Int /\ x.size \in Nat \ {0}
  /\ \A s \in Shards : shard[s].file # 0 => shard[s].tail <= FileSize - FooterSize
  /\ \A s \in Shards, x \in index :
       x.file = shard[s].file =>
         shard[s].tail <= x.from /\ x.from + x.size <= FileSize - FooterSize

\* At the start there is no file.
LEMMA PlacedInit == Init => Placed /\ SpoiltWhenLeft
<1> SUFFICES ASSUME Init PROVE Placed /\ SpoiltWhenLeft  OBVIOUS
<1>1. /\ \A s \in Shards : shard[s].file = 0
      /\ Len(files) = 0
      /\ \A f \in Fields : m_index_map[f].shard = NoShard
      /\ index = {} /\ spoilt = {}
  BY DEF Init, NoEntries
<1>2. 0 \in 0..0 /\ 1..0 = {}  OBVIOUS
<1>3. \A i \in 1..Len(files) : FALSE  BY <1>1, <1>2
<1>4. SpoiltWhenLeft  BY <1>1 DEF SpoiltWhenLeft
<1> QED  BY <1>1, <1>2, <1>3, <1>4 DEF Placed

\* Nothing the files depend on changes.
LEMMA PlacedQuiet ==
  ASSUME Placed, SpoiltWhenLeft, UNCHANGED <<shard, m_index_map, diskVars>>
  PROVE  Placed' /\ SpoiltWhenLeft'
BY DEF Placed, SpoiltWhenLeft, MayBeSpoilt, IsCurrent, DataIn, Disjoint, diskVars

\* Index block x of shard s takes the place below the tail.
TakesPlace(s, x, fl) ==
  /\ s \in Shards /\ x.file = shard[s].file
  /\ x.size \in Nat \ {0} /\ x.from = shard[s].tail - x.size
  /\ fl.length = Grown(files[x.file].length, x.from + x.size)
  /\ files' = [files EXCEPT ![x.file] = fl]
  /\ index' = index \cup {x} /\ data' = data
  /\ spoilt' = spoilt \cup Under(index, x.file, x.from, x.size)
                      \cup FooterOver(index', x.file, fl.length)
  /\ shard' = [shard EXCEPT ![s] = [shard[s] EXCEPT !.tail = x.from]]
  /\ shard[s].file # 0
  /\ \A f \in Fields : m_index_map'[f].shard # NoShard => m_index_map'[f].shard = m_index_map[f].shard

\* WriteIndex as TakesPlace sees it.
LEMMA WriteIndexPlaces ==
  ASSUME LayoutInv, Placed, WriteIndex
  PROVE  \E s, x, fl : TakesPlace(s, x, fl)
<1> DEFINE f == Head(m_index_task_queue)
           key == m_index_block_meta_key[f]
           entries == m_index_map[f].deque
           s == m_index_map[f].shard
           sh == Lowered(shard[s], IndexSize(key, entries))
           x == IndexBlock(sh.file, sh.tail, key, entries)
           fl == WithFooter(files[sh.file], sh.tail + IndexSize(key, entries), sh.tail)
<1>1. /\ f \in Fields /\ entries # <<>> /\ entries \in Seq(Entries)
      /\ s \in Shards /\ s # NoShard /\ key \in Keys
  <2>1. m_index_task_queue \in Seq(Fields) /\ m_index_task_queue # <<>>
    BY DEF WriteIndex, LayoutInv, Types
  <2>2. f \in Fields  BY <2>1
  <2>3. entries # <<>>  BY DEF WriteIndex
  <2> QED  BY <2>2, <2>3 DEF LayoutInv, Types, Known
<1>2. /\ index' = index \cup {x} /\ data' = data
      /\ spoilt' = spoilt \cup Under(index, sh.file, sh.tail, IndexSize(key, entries))
                          \cup FooterOver(index', sh.file, fl.length)
      /\ files' = [files EXCEPT ![sh.file] = fl]
      /\ shard' = [shard EXCEPT ![s] = sh]
      /\ m_index_map' = [m_index_map EXCEPT ![f] = NoEntries]
  BY DEF WriteIndex
<1>3. IndexSize(key, entries) \in Nat \ {0}
  <2>1. PICK n \in Nat : n = Len(entries)  BY <1>1
  <2>2. PICK k \in Nat : k = KeySize[key]  BY <1>1, LayoutAssumption
  <2>3. IndexSize(key, entries) = 28 * n + (8 + k)
    BY <2>1, <2>2 DEF IndexSize, MetaSize, EntrySize
  <2> QED  BY <2>3
<1>4. PICK size \in Nat \ {0} : size = IndexSize(key, entries)  BY <1>3
<1>5. /\ x.file = sh.file /\ x.from = sh.tail /\ x.size = size
      /\ fl.length = Grown(files[sh.file].length, sh.tail + size)
  BY <1>4 DEF IndexBlock, WithFooter
<1>6. sh = [shard[s] EXCEPT !.tail = shard[s].tail - size]
  BY <1>4 DEF Lowered
<1>7. shard[s] \in ShardRecords /\ shard[s].file # 0
  BY <1>1 DEF LayoutInv, Types, Placed
<1> HIDE DEF f, key, entries, s, sh, x, fl
<1>8. sh.file = shard[s].file /\ sh.tail = shard[s].tail - size
      /\ sh = [shard[s] EXCEPT !.tail = sh.tail]
  BY <1>6, <1>7 DEF ShardRecords
<1>9. \A g \in Fields : m_index_map'[g].shard # NoShard => m_index_map'[g].shard = m_index_map[g].shard
  BY <1>1, <1>2 DEF LayoutInv, Types, NoEntries
<1>10. TakesPlace(s, x, fl)
  BY <1>1, <1>2, <1>4, <1>5, <1>7, <1>8, <1>9 DEF TakesPlace
<1> QED  BY <1>10

\* It goes over nothing.
LEMMA PlacedIndexes ==
  ASSUME LayoutInv, Placed, SpoiltWhenLeft, NEW s, NEW x, NEW fl, TakesPlace(s, x, fl)
  PROVE  Placed' /\ SpoiltWhenLeft'
<1>1. PICK n \in Nat : n = shard[s].file /\ n \in 1..Len(files)
  BY DEF TakesPlace, Placed, LayoutInv, Types
<1>2. PICK t \in Int : t = shard[s].tail /\ t <= FileSize - FooterSize
  BY DEF TakesPlace, Placed, LayoutInv, Types, ShardRecords
<1>3. PICK k \in Nat \ {0} : k = x.size  BY DEF TakesPlace
<1>4. x.file = n /\ x.from = t - k /\ x.from \in Int /\ x.from + x.size = t
  BY <1>1, <1>2, <1>3 DEF TakesPlace
<1>5. PICK l \in Int : l = files[n].length /\ l >= FileSize
  BY <1>1 DEF Placed
<1>6. FileSize \in Nat  BY LayoutAssumption
<1>7. fl.length = l
  BY <1>2, <1>4, <1>5, <1>6 DEF TakesPlace, Grown, FooterSize
<1>8. \A y \in index : y.file = n =>
        t <= y.from /\ y.from + y.size <= FileSize - FooterSize /\ y.from \in Int /\ y.size \in Nat
  BY <1>1, <1>2 DEF TakesPlace, Placed
<1>9. index' = index \cup {x} /\ data' = data  BY DEF TakesPlace
<1>10. Under(index, n, x.from, x.size) = {}
  <2> SUFFICES ASSUME NEW y \in index, y.file = n
               PROVE  Disjoint(y, [from |-> x.from, size |-> x.size])
    BY DEF Under
  <2> QED  BY <1>4, <1>8 DEF Disjoint
<1>11. FooterOver(index', n, l) = {}
  <2> SUFFICES ASSUME NEW y \in index', y.file = n
               PROVE  Disjoint(y, [from |-> l - FooterSize, size |-> FooterSize])
    BY DEF FooterOver, Under
  <2>1. y.from \in Int /\ y.size \in Nat /\ y.from + y.size <= FileSize - FooterSize
    BY <1>2, <1>3, <1>4, <1>8, <1>9
  <2>2. y.from + y.size <= l - FooterSize
    BY <1>5, <1>6, <2>1 DEF FooterSize
  <2> QED  BY <2>2 DEF Disjoint
<1>12. spoilt' = spoilt
  BY <1>4, <1>7, <1>10, <1>11 DEF TakesPlace
<1>13. /\ \A r \in Shards : shard'[r].file = shard[r].file
       /\ \A r \in Shards \ {s} : shard'[r] = shard[r]
       /\ shard'[s].tail = t - k
       /\ s \in Shards
  <2>1. shard \in [Shards -> ShardRecords] /\ s \in Shards
    BY DEF LayoutInv, Types, TakesPlace
  <2>2. shard' = [shard EXCEPT ![s] = [shard[s] EXCEPT !.tail = t - k]]
    BY <1>4 DEF TakesPlace
  <2> QED  BY <2>1, <2>2 DEF ShardRecords
<1>14. /\ Len(files') = Len(files)
       /\ \A i \in 1..Len(files) : files'[i].length = files[i].length
  <2>1. PICK S : files \in Seq(S)  BY DEF LayoutInv, Types
  <2>2. files' = [files EXCEPT ![n] = fl]  BY <1>4 DEF TakesPlace
  <2>3. files \in [1..Len(files) -> S] /\ Len(files) \in Nat  BY <2>1
  <2>4. files' \in [1..Len(files) -> S \cup {fl}]  BY <2>2, <2>3
  <2>5. files' \in Seq(S \cup {fl}) /\ Len(files') = Len(files)  BY <2>3, <2>4
  <2> QED  BY <1>1, <1>5, <1>7, <2>2, <2>3, <2>5
<1>15. \A r \in Shards, y \in index' : y.file = shard'[r].file =>
         shard'[r].tail <= y.from /\ y.from + y.size <= FileSize - FooterSize
  <2> SUFFICES ASSUME NEW r \in Shards, NEW y \in index', y.file = shard[r].file
               PROVE  shard'[r].tail <= y.from /\ y.from + y.size <= FileSize - FooterSize
    BY <1>13
  <2>1. CASE y \in index /\ r = s
    <3>1. t <= y.from /\ y.from + y.size <= FileSize - FooterSize /\ y.from \in Int
      BY <1>1, <1>8, <2>1
    <3> QED  BY <1>2, <1>3, <1>13, <2>1, <3>1
  <2>2. CASE y \in index /\ r # s
    BY <1>13, <2>2 DEF Placed
  <2>3. CASE y = x
    <3>1. r = s  BY <1>1, <1>4, <1>13, <2>3 DEF Placed
    <3> QED  BY <1>2, <1>3, <1>4, <1>13, <2>3, <3>1
  <2> QED  BY <1>9, <2>1, <2>2, <2>3
<1>16. \A r \in Shards : shard'[r].file # 0 => shard'[r].tail <= FileSize - FooterSize
  <2>1. t - k <= FileSize - FooterSize  BY <1>2, <1>3, <1>6 DEF FooterSize
  <2> QED  BY <1>13, <2>1 DEF Placed
<1>17. \A y \in index' : y.file \in 1..Len(files) /\ y.from \in Int /\ y.size \in Nat \ {0}
  BY <1>1, <1>3, <1>4, <1>9 DEF Placed
<1>18. \A f \in Fields : m_index_map'[f].shard # NoShard => shard'[m_index_map'[f].shard].file # 0
  <2> SUFFICES ASSUME NEW f \in Fields, m_index_map'[f].shard # NoShard
               PROVE  shard'[m_index_map'[f].shard].file # 0
    OBVIOUS
  <2>1. m_index_map'[f].shard = m_index_map[f].shard  BY DEF TakesPlace
  <2>2. m_index_map[f].shard \in Shards  BY <2>1 DEF LayoutInv, Types
  <2> QED  BY <1>13, <2>1, <2>2 DEF Placed
<1>21. \A r \in Shards : shard'[r].file \in 0..Len(files')
  BY <1>13, <1>14 DEF Placed
<1>22. \A r, q \in Shards : shard'[r].file = shard'[q].file => r = q \/ shard'[r].file = 0
  BY <1>13 DEF Placed
<1>23. \A i \in 1..Len(files') : files'[i].length \in Int /\ files'[i].length >= FileSize
  BY <1>14 DEF Placed
<1>24. \A y \in index' : y.file \in 1..Len(files') /\ y.from \in Int /\ y.size \in Nat \ {0}
  BY <1>14, <1>17
<1>19. Placed'
  BY <1>15, <1>16, <1>18, <1>21, <1>22, <1>23, <1>24 DEF Placed
<1>20. SpoiltWhenLeft'
  BY <1>9, <1>12, <1>13 DEF SpoiltWhenLeft, MayBeSpoilt, IsCurrent, DataIn, Disjoint
<1> QED  BY <1>19, <1>20

\* A data block d goes to a file of shard s: a new one (fresh) if it has none or if the
\* current one is left (full) with the index blocks R.
Places(s, full, fresh, R, d) ==
  /\ s \in Shards
  /\ fresh \in BOOLEAN /\ full \in BOOLEAN
  /\ fresh <=> full \/ shard[s].file = 0
  /\ full => shard[s].file # 0
  /\ ~full => R = {}
  /\ \A x \in R : x.file = shard[s].file /\ x.from \in Int /\ x.size \in Nat \ {0}
  /\ index' = index \cup R
  /\ data' = data \cup {d} /\ d.file = shard'[s].file
  /\ shard'[s].file = IF fresh THEN Len(files) + 1 ELSE shard[s].file
  /\ shard'[s].tail = IF fresh THEN FileSize - FooterSize ELSE shard[s].tail
  /\ \A t \in Shards \ {s} : shard'[t] = shard[t]
  /\ \A f \in Fields : m_index_map'[f].shard # NoShard =>
       m_index_map'[f].shard = s \/ m_index_map'[f].shard = m_index_map[f].shard

\* What that goes over.
GoesOver(s, full, R, d) ==
  \A x \in spoilt' :
    \/ x \in spoilt
    \/ full /\ x \in index \cup R /\ x.file = shard[s].file
    \/ x \in index /\ x.file = d.file /\ ~Disjoint(d, x)

\* What that does to the lengths of files.
Lengthens(fresh) ==
  /\ Len(files') = IF fresh THEN Len(files) + 1 ELSE Len(files)
  /\ \A i \in 1..Len(files) : files'[i].length \in Int /\ files'[i].length >= files[i].length
  /\ fresh => files'[Len(files) + 1].length \in Int /\ files'[Len(files) + 1].length >= FileSize

\* Only the blocks of a file that is left, and those under the data block, can be lost.
LEMMA PlacedWrites ==
  ASSUME LayoutInv, Placed, SpoiltWhenLeft,
         NEW s, NEW full, NEW fresh, NEW R, NEW d,
         Places(s, full, fresh, R, d), GoesOver(s, full, R, d), Lengthens(fresh)
  PROVE  Placed' /\ SpoiltWhenLeft'
<1>1. PICK n \in Nat : n = Len(files)  BY DEF LayoutInv, Types
<1>2. PICK m \in Nat : m = Len(files') /\ n <= m /\ 1..n \subseteq 1..m /\ 0..n \subseteq 0..m
  BY <1>1 DEF Lengthens, Places
<1>3. \A t \in Shards : shard[t].file \in 0..n
  BY <1>1 DEF Placed
<1>4. s \in Shards /\ \A t \in Shards \ {s} : shard'[t] = shard[t]
  BY DEF Places
<1>5. /\ fresh => m = n + 1 /\ shard'[s].file = n + 1 /\ shard'[s].tail = FileSize - FooterSize
      /\ ~fresh => shard'[s].file = shard[s].file /\ shard[s].file # 0
                   /\ shard'[s].tail = shard[s].tail
      /\ fresh \in BOOLEAN
  BY <1>1, <1>2 DEF Places, Lengthens
<1>6. FileSize - FooterSize \in Int  BY LayoutAssumption DEF FooterSize
<1>7. \A x \in index' : x.file \in 1..n /\ x.from \in Int /\ x.size \in Nat \ {0}
  <2>1. \A x \in index : x.file \in 1..n /\ x.from \in Int /\ x.size \in Nat \ {0}
    BY <1>1 DEF Placed
  <2>2. \A x \in R : x.file \in 1..n /\ x.from \in Int /\ x.size \in Nat \ {0}
    <3> SUFFICES ASSUME NEW x \in R PROVE x.file \in 1..n /\ x.from \in Int /\ x.size \in Nat \ {0}
      OBVIOUS
    <3>1. shard[s].file # 0  BY DEF Places
    <3>2. shard[s].file \in 1..n  BY <1>3, <1>4, <3>1
    <3> QED  BY <3>2 DEF Places
  <2> QED  BY <2>1, <2>2 DEF Places
<1>8. \A t \in Shards : shard'[t].file \in 0..m /\ (t # s => shard'[t].file \in 0..n)
  BY <1>1, <1>2, <1>3, <1>4, <1>5
<1>9. \A r, t \in Shards : shard'[r].file = shard'[t].file => r = t \/ shard'[r].file = 0
  <2> SUFFICES ASSUME NEW r \in Shards, NEW t \in Shards, shard'[r].file = shard'[t].file, r # t
               PROVE  shard'[r].file = 0
    OBVIOUS
  <2>1. CASE fresh
    <3>1. r # s /\ t # s  BY <1>1, <1>5, <1>8, <2>1
    <3> QED  BY <1>4, <3>1 DEF Placed
  <2>2. CASE ~fresh
    <3>1. shard'[r].file = shard[r].file /\ shard'[t].file = shard[t].file
      BY <1>4, <1>5, <2>2
    <3> QED  BY <3>1 DEF Placed
  <2> QED  BY <1>5, <2>1, <2>2
<1>10. \A f \in Fields : m_index_map'[f].shard # NoShard => shard'[m_index_map'[f].shard].file # 0
  <2> SUFFICES ASSUME NEW f \in Fields, m_index_map'[f].shard # NoShard
               PROVE  shard'[m_index_map'[f].shard].file # 0
    OBVIOUS
  <2>1. shard'[s].file # 0  BY <1>1, <1>5
  <2>2. CASE m_index_map'[f].shard = s  BY <2>1, <2>2
  <2>3. CASE m_index_map'[f].shard # s
    <3>1. m_index_map'[f].shard = m_index_map[f].shard  BY <2>3 DEF Places
    <3>2. m_index_map[f].shard \in Shards \ {s}  BY <2>3, <3>1 DEF LayoutInv, Types
    <3>3. shard[m_index_map[f].shard].file # 0  BY <3>1 DEF Placed
    <3> QED  BY <1>4, <3>1, <3>2, <3>3
  <2> QED  BY <2>2, <2>3
<1>11. \A i \in 1..m : files'[i].length \in Int /\ files'[i].length >= FileSize
  <2> SUFFICES ASSUME NEW i \in 1..m
               PROVE  files'[i].length \in Int /\ files'[i].length >= FileSize
    OBVIOUS
  <2>1. CASE i \in 1..n
    <3>1. files[i].length \in Int /\ files[i].length >= FileSize
      BY <1>1, <2>1 DEF Placed
    <3>2. files'[i].length \in Int /\ files'[i].length >= files[i].length
      BY <1>1, <2>1 DEF Lengthens
    <3> QED  BY <3>1, <3>2, LayoutAssumption
  <2>2. CASE i \notin 1..n
    <3>1. fresh /\ i = n + 1  BY <1>1, <1>2, <1>5, <2>2 DEF Lengthens
    <3> QED  BY <1>1, <3>1 DEF Lengthens
  <2> QED  BY <2>1, <2>2
<1>12. \A t \in Shards : shard'[t].file # 0 => shard'[t].tail <= FileSize - FooterSize
  BY <1>4, <1>5, <1>6 DEF Placed
<1>13. ASSUME full, NEW t \in Shards PROVE shard'[t].file # shard[s].file
  <2>1. fresh /\ shard[s].file # 0  BY <1>13 DEF Places
  <2>2. shard[s].file \in 0..n  BY <1>3, <1>4
  <2>3. CASE t = s  BY <1>5, <2>1, <2>2, <2>3
  <2>4. CASE t # s
    <3>1. shard'[t] = shard[t]  BY <1>4, <2>4
    <3> QED  BY <1>4, <2>1, <2>4, <3>1 DEF Placed
  <2> QED  BY <2>3, <2>4
<1>14. \A t \in Shards, x \in index' : x.file = shard'[t].file =>
         shard'[t].tail <= x.from /\ x.from + x.size <= FileSize - FooterSize
  <2> SUFFICES ASSUME NEW t \in Shards, NEW x \in index', x.file = shard'[t].file
               PROVE  shard'[t].tail <= x.from /\ x.from + x.size <= FileSize - FooterSize
    OBVIOUS
  <2>1. x \in index
    <3>1. SUFFICES ASSUME x \in R PROVE FALSE  BY DEF Places
    <3>2. full /\ x.file = shard[s].file  BY <3>1 DEF Places
    <3> QED  BY <1>13, <3>2
  <2>2. shard'[t].file = shard[t].file /\ shard'[t].tail = shard[t].tail
    <3>1. CASE t = s
      <4>1. ~fresh  BY <1>5, <1>7, <3>1
      <4> QED  BY <1>5, <3>1, <4>1
    <3>2. CASE t # s  BY <1>4, <3>2
    <3> QED  BY <3>1, <3>2
  <2> QED  BY <2>1, <2>2 DEF Placed
<1>15. \A x \in index' : x.file \in 1..m /\ x.from \in Int /\ x.size \in Nat \ {0}
  BY <1>2, <1>7
<1>16. Placed'
  BY <1>2, <1>8, <1>9, <1>10, <1>11, <1>12, <1>14, <1>15 DEF Placed
<1>17. SpoiltWhenLeft'
  <2> SUFFICES ASSUME NEW x \in spoilt' PROVE x \in index' /\ MayBeSpoilt(x)'
    BY DEF SpoiltWhenLeft, MayBeSpoilt, IsCurrent, DataIn, Disjoint
  <2>1. index \subseteq index' /\ index \cup R \subseteq index' /\ data \subseteq data' /\ d \in data'
    BY DEF Places
  <2>2. CASE x \in spoilt
    <3>1. x \in index /\ MayBeSpoilt(x)  BY <2>2 DEF SpoiltWhenLeft
    <3>2. CASE ~IsCurrent(x.file)
      <4>1. x.file \in 1..n  BY <1>1, <3>1 DEF Placed
      <4>2. ASSUME NEW t \in Shards PROVE shard'[t].file # x.file
        <5>1. shard[t].file # x.file  BY <3>2 DEF IsCurrent
        <5> QED  BY <1>1, <1>4, <1>5, <4>1, <5>1
      <4> QED  BY <2>1, <3>1, <4>2 DEF MayBeSpoilt, IsCurrent
    <3>3. CASE \E c \in DataIn(x.file) : ~Disjoint(c, x)
      BY <2>1, <3>1, <3>3 DEF MayBeSpoilt, DataIn, Disjoint
    <3> QED  BY <3>1, <3>2, <3>3 DEF MayBeSpoilt
  <2>3. CASE full /\ x \in index \cup R /\ x.file = shard[s].file
    <3>1. \A t \in Shards : shard'[t].file # x.file  BY <1>13, <2>3
    <3> QED  BY <2>1, <2>3, <3>1 DEF MayBeSpoilt, IsCurrent
  <2>4. CASE x \in index /\ x.file = d.file /\ ~Disjoint(d, x)
    BY <2>1, <2>4 DEF MayBeSpoilt, DataIn, Disjoint
  <2> QED  BY <2>2, <2>3, <2>4 DEF GoesOver
<1> QED  BY <1>16, <1>17

\* A longer file, by its length.
LEMMA GrownLength ==
  ASSUME NEW l \in Int, NEW to \in Int
  PROVE  Grown(l, to) \in Int /\ Grown(l, to) >= l
BY DEF Grown

\* WriteBlock as Places, GoesOver and Lengthens see it.
LEMMA WriteBlockPlaces ==
  ASSUME LayoutInv, Placed, NEW late, WriteBlock(late)
  PROVE  \E s, full, fresh, R, d :
           Places(s, full, fresh, R, d) /\ GoesOver(s, full, R, d) /\ Lengthens(fresh)
<1> DEFINE b == Head(m_data_deque)
           f == FieldOf[b.key]
           old == shard[b.shard]
           full == old.file # 0 /\ ~HasRoom(old, b)
           fresh == full \/ old.file = 0
           sh == IF full \/ old.file = 0 THEN Fresh(Len(files) + 1) ELSE old
           R == IF full THEN Residue(f, old.file, old.tail) ELSE {}
           closed == IF full THEN [files EXCEPT ![old.file] = Closed(@, R)] ELSE files
           opened == IF sh.file > Len(files)
                     THEN Append(closed, [length |-> FileSize, footer |-> 0]) ELSE closed
           kept == Kept(full)
           e == [id |-> b.id, offset |-> sh.head, size |-> b.size]
           meta == IF m_create_meta[f] THEN 0 ELSE MetaSize(m_index_block_meta_key[f])
           d == [id |-> b.id, key |-> b.key, file |-> sh.file, from |-> sh.head, size |-> b.size]
           entries == AddEntry(kept[f], b.shard, e)
<1>1. /\ index' = index \cup R
      /\ spoilt' = spoilt \cup LostToResidue(R, old.file, closed[old.file].length)
                          \cup Under(index, sh.file, sh.head, b.size)
      /\ files' = [opened EXCEPT ![sh.file].length = Grown(@, sh.head + b.size)]
      /\ data' = data \cup {d}
      /\ shard' = [shard EXCEPT ![b.shard] = Charged(sh, b, meta)]
      /\ m_index_map' = [kept EXCEPT ![f] = entries]
      /\ m_data_deque # <<>>
  BY DEF WriteBlock
<1> HIDE DEF b
<1>2. /\ b \in Blocks /\ FieldOf[b.key] \in Fields
      /\ m_index_block_meta_key[FieldOf[b.key]] \in Keys
  <2>1. m_data_deque \in Seq(Blocks)
    BY DEF LayoutInv, Types
  <2>2. Len(m_data_deque) \in Nat /\ Len(m_data_deque) # 0 /\ b \in Blocks /\ b = m_data_deque[1]
    BY <1>1, <2>1, HeadAndTail DEF b
  <2>3. 1 \in 1..Len(m_data_deque)
    BY <2>2
  <2>4. FieldOf[b.key] \in Fields
    BY <2>2, <2>3, QueuedField
  <2> QED
    BY <2>2, <2>3, <2>4 DEF LayoutInv, Known, Types
<1>3. b.shard \in Shards /\ b.size \in Nat \ {0}
  BY <1>2, LayoutAssumption DEF Blocks
<1>4. old \in ShardRecords /\ old.file \in 0..Len(files)
  BY <1>3 DEF LayoutInv, Types, Placed
<1>5. PICK n \in Nat : n = Len(files)  BY DEF LayoutInv, Types
<1>6. /\ full \in BOOLEAN /\ fresh \in BOOLEAN /\ (fresh <=> full \/ old.file = 0)
      /\ full => old.file # 0
  OBVIOUS
<1>7. /\ \A x \in R : x.file = old.file /\ x.from \in Int /\ x.size \in Nat \ {0}
      /\ IsFiniteSet(R)
      /\ ~full => R = {}
  <2>1. CASE full
    <3>1. R = Residue(f, old.file, old.tail) /\ f \in Fields /\ m_index_block_meta_key[f] \in Keys
          /\ old.tail \in Int
      BY <1>2, <1>4, <2>1 DEF ShardRecords
    <3> HIDE DEF R, old, f, full
    <3> QED  BY <2>1, <3>1, ResidueType
  <2>2. CASE ~full
    <3>1. R = {}  BY <2>2
    <3> QED  BY <3>1, FS_EmptySet
  <2> QED  BY <2>1, <2>2
<1> HIDE DEF R
<1>8. /\ sh.file = IF fresh THEN n + 1 ELSE old.file
      /\ sh.tail = IF fresh THEN FileSize - FooterSize ELSE old.tail
      /\ sh.head \in Int /\ sh \in ShardRecords
  <2>1. CASE fresh
    <3>1. sh = Fresh(n + 1)  BY <1>5, <2>1
    <3>2. Fresh(n + 1) \in ShardRecords
      BY LayoutAssumption DEF Fresh, ShardRecords, HeaderSize, FooterSize
    <3> HIDE DEF sh, fresh
    <3> QED  BY <2>1, <3>1, <3>2 DEF Fresh, ShardRecords
  <2>2. CASE ~fresh
    <3>1. sh = old  BY <2>2
    <3> HIDE DEF sh, fresh, old
    <3> QED  BY <1>4, <2>2, <3>1 DEF ShardRecords
  <2> QED  BY <2>1, <2>2
<1>9. /\ shard'[b.shard].file = sh.file /\ shard'[b.shard].tail = sh.tail
      /\ \A t \in Shards \ {b.shard} : shard'[t] = shard[t]
  <2>1. PICK c : c = Charged(sh, b, meta)  OBVIOUS
  <2> HIDE DEF sh, meta
  <2>2. c.file = sh.file /\ c.tail = sh.tail  BY <1>8, <2>1 DEF Charged, ShardRecords
  <2> QED  BY <1>1, <1>3, <2>1, <2>2 DEF LayoutInv, Types
<1>10. \A g \in Fields : m_index_map'[g].shard # NoShard =>
         m_index_map'[g].shard = b.shard \/ m_index_map'[g].shard = m_index_map[g].shard
  <2>1. kept \in [Fields -> {NoEntries} \cup {m_index_map[g] : g \in Fields}]
    BY DEF Kept, LayoutInv, Types
  <2>2. \A g \in Fields : kept[g].shard = NoShard \/ kept[g].shard = m_index_map[g].shard
    BY DEF Kept, NoEntries
  <2>3. entries.shard = b.shard \/ entries.shard = kept[f].shard
    BY DEF AddEntry
  <2>4. f \in Fields  BY <1>2
  <2> HIDE DEF kept, entries, f, full
  <2>5. m_index_map'[f] = entries /\ \A g \in Fields \ {f} : m_index_map'[g] = kept[g]
    BY <1>1, <2>1, <2>4
  <2> QED  BY <2>2, <2>3, <2>4, <2>5
<1>11. d.file = sh.file /\ d.from = sh.head /\ d.size = b.size
  OBVIOUS
<1>12. \A x \in Under(index, sh.file, sh.head, b.size) :
         x \in index /\ x.file = d.file /\ ~Disjoint(d, x)
  BY <1>11 DEF Under, Disjoint
<1>13. \A x \in LostToResidue(R, old.file, closed[old.file].length) :
         full /\ x \in index \cup R /\ x.file = old.file
  <2>1. PICK length : length = closed[old.file].length  OBVIOUS
  <2>2. SUFFICES ASSUME NEW x \in LostToResidue(R, old.file, length)
                 PROVE  full /\ x \in index \cup R /\ x.file = old.file
    BY <2>1
  <2> HIDE DEF full, old
  <2>3. PICK y \in R : \/ x \in Under(index \cup {z \in R : z.from > y.from}, old.file, y.from, y.size)
                       \/ x \in FooterOver(index \cup R, old.file, length)
    BY <2>2 DEF LostToResidue
  <2> QED  BY <1>7, <2>3 DEF Under, FooterOver
<1>14. GoesOver(b.shard, full, R, d)
  <2>1. old = shard[b.shard]  OBVIOUS
  <2> HIDE DEF full, d, sh, closed, old
  <2> QED  BY <1>1, <1>12, <1>13, <2>1 DEF GoesOver
<1>15. Places(b.shard, full, fresh, R, d)
  <2>1. old = shard[b.shard]  OBVIOUS
  <2> HIDE DEF full, fresh, d, sh, old
  <2> QED  BY <1>1, <1>3, <1>5, <1>6, <1>7, <1>8, <1>9, <1>10, <1>11, <2>1 DEF Places
<1>16. PICK S : files \in Seq(S)  BY DEF LayoutInv, Types
<1>17. /\ \E T : closed \in Seq(T) /\ Len(closed) = n
       /\ \A i \in 1..n : closed[i].length \in Int /\ closed[i].length >= files[i].length
       /\ ~full => closed = files
  <2>1. \A i \in 1..n : files[i].length \in Int  BY <1>5 DEF Placed
  <2>2. CASE full
    <3>1. PICK k : k = old.file /\ k \in 1..n  BY <1>4, <1>5, <1>6, <2>2
    <3>2. PICK c : c = Closed(files[k], R)  OBVIOUS
    <3>3. closed = [files EXCEPT ![k] = c]  BY <2>2, <3>1, <3>2
    <3>4. c.length \in Int /\ c.length >= files[k].length
      <4>1. PICK fl : fl = files[k]  OBVIOUS
      <4>2. fl.length \in Int  BY <2>1, <3>1, <4>1
      <4>3. \A x \in R : x.from \in Int /\ x.size \in Nat \ {0}  BY <1>7
      <4>4. Closed(fl, R).length \in Int /\ Closed(fl, R).length >= fl.length
        BY <1>7, <4>2, <4>3, ClosedLength
      <4> QED  BY <3>2, <4>1, <4>4
    <3> HIDE DEF closed, full
    <3>5. files \in [1..n -> S]  BY <1>5, <1>16
    <3>6. closed \in [1..n -> S \cup {c}]  BY <3>3, <3>5
    <3>7. closed \in Seq(S \cup {c}) /\ Len(closed) = n  BY <3>6
    <3>8. \A i \in 1..n : closed[i] = IF i = k THEN c ELSE files[i]  BY <3>1, <3>3, <3>5
    <3> QED  BY <2>1, <2>2, <3>1, <3>4, <3>7, <3>8
  <2>3. CASE ~full
    <3>1. closed = files  BY <2>3
    <3> HIDE DEF closed, full
    <3> QED  BY <1>5, <1>16, <2>1, <3>1
  <2> QED  BY <2>2, <2>3
<1> HIDE DEF closed
<1>18. PICK T : closed \in Seq(T) /\ Len(closed) = n  BY <1>17
<1> DEFINE new == [length |-> FileSize, footer |-> 0]
<1>19. /\ fresh => opened = Append(closed, new)
       /\ ~fresh => opened = closed
  <2>1. /\ fresh => sh.file > Len(files)
        /\ ~fresh => ~(sh.file > Len(files))
    BY <1>4, <1>5, <1>8
  <2> HIDE DEF sh, fresh
  <2> QED  BY <2>1
<1> HIDE DEF opened, full, sh, old, new
<1>20. PICK to \in Int : to = sh.head + b.size  BY <1>3, <1>8
<1>21. files' = [opened EXCEPT ![sh.file].length = Grown(@, to)]
  BY <1>1, <1>20
<1>22. Lengthens(fresh)
  <2>1. CASE fresh
    <3>1. /\ opened \in Seq(T \cup {new}) /\ Len(opened) = n + 1 /\ opened[n + 1] = new
          /\ \A i \in 1..n : opened[i] = closed[i]
      BY <1>5, <1>18, <1>19, <2>1
    <3>2. files' = [opened EXCEPT ![n + 1].length = Grown(@, to)]
      BY <1>8, <1>21, <2>1
    <3>3. /\ Len(files') = n + 1
          /\ files'[n + 1].length = Grown(FileSize, to)
          /\ \A i \in 1..n : files'[i] = closed[i]
      <4> HIDE DEF fresh
      <4> QED  BY <1>5, <3>1, <3>2 DEF new
    <3>4. Grown(FileSize, to) \in Int /\ Grown(FileSize, to) >= FileSize
      BY LayoutAssumption, GrownLength
    <3> HIDE DEF fresh
    <3> QED  BY <1>5, <1>17, <2>1, <3>3, <3>4 DEF Lengthens
  <2>2. CASE ~fresh
    <3>1. PICK k : k = sh.file /\ k \in 1..n  BY <1>4, <1>5, <1>6, <1>8, <2>2
    <3>2. opened = files  BY <1>6, <1>17, <1>19, <2>2
    <3>3. files' = [files EXCEPT ![k].length = Grown(@, to)]
      BY <1>21, <3>1, <3>2
    <3> HIDE DEF fresh
    <3>4. /\ Len(files') = n /\ files'[k].length = Grown(files[k].length, to)
          /\ \A i \in 1..n : i # k => files'[i] = files[i]
      BY <1>5, <1>16, <3>1, <3>3
    <3>5. \A i \in 1..n : files[i].length \in Int  BY <1>5 DEF Placed
    <3>6. Grown(files[k].length, to) \in Int /\ Grown(files[k].length, to) >= files[k].length
      BY <3>1, <3>5, GrownLength
    <3>7. \A i \in 1..n : files'[i].length \in Int /\ files'[i].length >= files[i].length
      BY <3>1, <3>4, <3>5, <3>6
    <3> QED  BY <1>5, <2>2, <3>4, <3>7 DEF Lengthens
  <2> QED  BY <2>1, <2>2
<1> QED  BY <1>14, <1>15, <1>22

\* Every step keeps the tails below the index blocks, and these whole in the current
\* files.
LEMMA PlacedStep ==
  ASSUME LayoutInv, Placed, SpoiltWhenLeft, [Next]_vars
  PROVE  Placed' /\ SpoiltWhenLeft'
<1>1. CASE UNCHANGED vars
  BY <1>1, PlacedQuiet DEF vars, fieldVars
<1>2. ASSUME NEW k \in Keys, NEW t \in Shards, NEW size \in Sizes, Push(k, t, size)
      PROVE  Placed' /\ SpoiltWhenLeft'
  BY <1>2, PlacedQuiet DEF Push, fieldVars
<1>3. ASSUME NEW k \in Keys, Touch(k) PROVE Placed' /\ SpoiltWhenLeft'
  BY <1>3, PlacedQuiet DEF Touch, fieldVars
<1>4. ASSUME NEW f \in Fields, NEW late \in BOOLEAN, MonitorPushesTask(f, late)
      PROVE  Placed' /\ SpoiltWhenLeft'
  BY <1>4, PlacedQuiet DEF MonitorPushesTask
<1>5. CASE StaleTask \/ NoTask \/ EndFlush
  BY <1>5, PlacedQuiet DEF StaleTask, NoTask, EndFlush, fieldVars
<1>6. CASE WriteIndex
  BY <1>6, WriteIndexPlaces, PlacedIndexes
<1>7. ASSUME NEW late \in BOOLEAN, WriteBlock(late)
      PROVE  Placed' /\ SpoiltWhenLeft'
  BY <1>7, WriteBlockPlaces, PlacedWrites
<1> QED
  BY <1>1, <1>2, <1>3, <1>4, <1>5, <1>6, <1>7 DEF Next

\* Each data block queue_flush_disk has written has had exactly one index entry,
\* pending or in an index block, through index flushes and file changes; and until the
\* file is left no index block is written over but, beyond the first file, by data.
\* What the blocks written last go over when a file is left is lost, and in spoilt.
THEOREM EntriesStayWithBlocks == Spec => []OneEntryPerBlock
<1>1. LayoutInv /\ SpoiltWhenLeft => OneEntryPerBlock
  BY EntryOfEachSuffices DEF LayoutInv
<1>2. Init => Placed /\ SpoiltWhenLeft
  BY PlacedInit
<1>3. LayoutInv /\ Placed /\ SpoiltWhenLeft /\ [Next]_vars => Placed' /\ SpoiltWhenLeft'
  BY PlacedStep
<1> QED  BY <1>1, <1>2, <1>3, LayoutInvariant, PTL DEF Spec

-----------------------------------------------------------------------------
(* the steps and the theorems *)

\* Every step leaves the files alone, writes an index block or writes a data block.
LEMMA StepIs ==
  ASSUME LayoutInv, NEW s, Shards = {s}, Single(s), [Next]_vars
  PROVE  \/ Quiet
         \/ \E f, x : Indexes(s, f, x)
         \/ \E b, f, full, fresh : Writes(s, b, f, full, fresh) /\ Files(s, b, f, full, fresh)
<1>1. CASE UNCHANGED vars
  BY <1>1 DEF vars, fieldVars, diskVars, Quiet
<1>2. ASSUME NEW k \in Keys, NEW t \in Shards, NEW size \in Sizes, Push(k, t, size)
      PROVE  Quiet
  BY <1>2 DEF Push, fieldVars, diskVars, Quiet
<1>3. ASSUME NEW k \in Keys, Touch(k) PROVE Quiet
  BY <1>3 DEF Touch, fieldVars, diskVars, Quiet
<1>4. ASSUME NEW f \in Fields, NEW late \in BOOLEAN, MonitorPushesTask(f, late)
      PROVE  Quiet
  BY <1>4 DEF MonitorPushesTask, diskVars, Quiet
<1>5. CASE StaleTask \/ NoTask \/ EndFlush
  BY <1>5 DEF StaleTask, NoTask, EndFlush, fieldVars, diskVars, Quiet
<1>6. CASE WriteIndex
  BY <1>6, WriteIndexIs
<1>7. ASSUME NEW late \in BOOLEAN, WriteBlock(late)
      PROVE  \E b, f, full, fresh : Writes(s, b, f, full, fresh) /\ Files(s, b, f, full, fresh)
  BY <1>7, WriteBlockIs
<1> QED
  BY <1>1, <1>2, <1>3, <1>4, <1>5, <1>6, <1>7 DEF Next

\* One shard keeps one current file.
LEMMA SingleStep ==
  ASSUME LayoutInv, NEW s, Shards = {s}, Single(s), [Next]_vars
  PROVE  Single(s)'
<1>1. CASE Quiet
  BY <1>1, SingleQuiet
<1>2. ASSUME NEW f, NEW x, Indexes(s, f, x) PROVE Single(s)'
  BY <1>2, SingleIndexes
<1>3. ASSUME NEW b, NEW f, NEW full, NEW fresh,
             Writes(s, b, f, full, fresh), Files(s, b, f, full, fresh)
      PROVE  Single(s)'
  BY <1>3, SingleWrites
<1> QED
  BY <1>1, <1>2, <1>3, StepIs

\* Every step keeps the margin of the first file exact.
LEMMA ExactStep ==
  ASSUME LayoutInv, LayoutInv', NEW s, Shards = {s}, OneKeyLength, Single(s), Exact(s), [Next]_vars
  PROVE  Exact(s)'
<1>1. CASE Quiet
  <2>1. Load' = Load
    BY <1>1, QuietLoad DEF Quiet
  <2> QED
    BY <1>1, <2>1 DEF Quiet, Exact
<1>2. ASSUME NEW f, NEW x, Indexes(s, f, x) PROVE Exact(s)'
  BY <1>2, ExactIndexes
<1>3. ASSUME NEW b, NEW f, NEW full, NEW fresh, Writes(s, b, f, full, fresh)
      PROVE  Exact(s)'
  BY <1>3, ExactWrites
<1> QED
  BY <1>1, <1>2, <1>3, StepIs

\* Every step keeps head and margin within the file.
LEMMA RoomStep ==
  ASSUME LayoutInv, NEW s, Shards = {s}, OneKeyLength, BlocksFit, Single(s), Room(s), [Next]_vars
  PROVE  Room(s)'
<1>1. CASE Quiet
  BY <1>1 DEF Quiet, Room, End
<1>2. ASSUME NEW f, NEW x, Indexes(s, f, x) PROVE Room(s)'
  BY <1>2, RoomIndexes
<1>3. ASSUME NEW b, NEW f, NEW full, NEW fresh, Writes(s, b, f, full, fresh)
      PROVE  Room(s)'
  BY <1>3, RoomWrites
<1> QED
  BY <1>1, <1>2, <1>3, StepIs

\* Every step keeps the blocks of the first file safe.
LEMMA SafeOneStep ==
  ASSUME LayoutInv, LayoutInv', NEW s, Shards = {s}, OneKeyLength, BlocksFit,
         Single(s), Exact(s), Room(s), SafeOne(s), [Next]_vars
  PROVE  SafeOne(s)'
<1>1. CASE Quiet
  BY <1>1, SafeOneQuiet
<1>2. ASSUME NEW f, NEW x, Indexes(s, f, x) PROVE SafeOne(s)'
  BY <1>2, SafeOneIndexes
<1>3. ASSUME NEW b, NEW f, NEW full, NEW fresh,
             Writes(s, b, f, full, fresh), Files(s, b, f, full, fresh)
      PROVE  SafeOne(s)'
  <2>1. Exact(s)'
    BY ExactStep
  <2> QED
    BY <1>3, <2>1, SafeOneWrites
<1> QED
  BY <1>1, <1>2, <1>3, StepIs

\* Every step keeps the tiles of the current file.
LEMMA TiledStep ==
  ASSUME LayoutInv, LayoutInv', NEW s, Shards = {s}, OneKeyLength, BlocksFit, BlocksOutweighMeta,
         Single(s), Room(s), Tiled(s), [Next]_vars
  PROVE  Tiled(s)'
<1>1. CASE Quiet
  BY <1>1, TiledQuiet
<1>2. ASSUME NEW f, NEW x, Indexes(s, f, x) PROVE Tiled(s)'
  BY <1>2, TiledIndexes
<1>3. ASSUME NEW b, NEW f, NEW full, NEW fresh,
             Writes(s, b, f, full, fresh), Files(s, b, f, full, fresh)
      PROVE  Tiled(s)'
  BY <1>3, TiledWrites
<1> QED
  BY <1>1, <1>2, <1>3, StepIs

\* The load is what the margin has set aside.
LEMMA ExactMargin ==
  ASSUME LayoutInv, NEW s, Shards = {s}, Single(s), Exact(s)
  PROVE  FirstMarginIsExact
BY LoadIsPending DEF Exact, FirstMarginIsExact

\* In a table of one shard whose keys have one length, the margin of the first file
\* is what lies between head and tail, less the room for the waiting index blocks.
THEOREM MarginIsGap ==
  ASSUME NEW s, Shards = {s}, OneKeyLength
  PROVE  Spec => []FirstMarginIsExact
<1> DEFINE Inv == Single(s) /\ Exact(s)
<1>1. Init => Inv
  BY SingleInit DEF Init, Exact
<1>2. LayoutInv /\ LayoutInv' /\ Inv /\ [Next]_vars => Inv'
  BY SingleStep, ExactStep
<1>3. LayoutInv /\ Inv => FirstMarginIsExact
  BY ExactMargin
<1> QED
  BY <1>1, <1>2, <1>3, LayoutInvariant, PTL DEF Spec

\* With blocks that fit into an empty file too, nothing is ever written over a data
\* block of the first file.
THEOREM FirstFileStaysSafe ==
  ASSUME NEW s, Shards = {s}, OneKeyLength, BlocksFit
  PROVE  Spec => []FirstFileIsSafe
<1> DEFINE Inv == Single(s) /\ Exact(s) /\ Room(s) /\ SafeOne(s)
<1>1. Init => Inv
  BY SingleInit, SafeOneInit DEF Init, Exact, Room
<1>2. LayoutInv /\ LayoutInv' /\ Inv /\ [Next]_vars => Inv'
  BY SingleStep, ExactStep, RoomStep, SafeOneStep
<1>3. Inv => FirstFileIsSafe
  BY SafeOneIsSafe
<1> QED
  BY <1>1, <1>2, <1>3, LayoutInvariant, PTL DEF Spec

\* With blocks at least as large as a meta too, the index of the current file can be
\* read from its footer.
THEOREM CurrentStaysReadable ==
  ASSUME NEW s, Shards = {s}, OneKeyLength, BlocksFit, BlocksOutweighMeta
  PROVE  Spec => []CurrentIsReadable
<1> DEFINE Inv == Single(s) /\ Room(s) /\ Tiled(s)
<1>1. Init => Inv
  BY SingleInit, TiledInit DEF Init, Room
<1>2. LayoutInv /\ LayoutInv' /\ Inv /\ [Next]_vars => Inv'
  BY SingleStep, RoomStep, TiledStep
<1>3. LayoutInv /\ Inv => CurrentIsReadable
  BY TiledIsReadable
<1> QED
  BY <1>1, <1>2, <1>3, LayoutInvariant, PTL DEF Spec

===============================================================================
