------------------------------ MODULE QueryProofs ------------------------------
(***************************************************************************)
(* Theorems about queries: RowsWereFlushed, that what a query prints was   *)
(* flushed and is what it asked for, and AnswerIsExact, that a query by    *)
(* tags and times leaves nothing out of the shard it reads.                *)
(***************************************************************************)
EXTENDS Query, SequenceTheorems, NaturalsInduction, WellFoundedInduction, FiniteSetTheorems, TLAPS

-----------------------------------------------------------------------------
(* numbers *)

\* A set that has 0 and the successor of each of its numbers has them all.
LEMMA Counting ==
  ASSUME NEW S, 0 \in S, \A n \in Nat : n \in S => n + 1 \in S
  PROVE  Nat \subseteq S
<1> DEFINE T == Nat \ S
<1>1. SUFFICES ASSUME T # {} PROVE FALSE
  OBVIOUS
<1> DEFINE R == OpToRel(<, Nat)
<1>0. IsWellFoundedOn(R, Nat) /\ T \subseteq Nat
  BY NatLessThanWellFounded, Zenon
<1>5. ASSUME NEW a \in Nat, NEW b \in Nat, a < b PROVE <<a, b>> \in R
  BY <1>5 DEF OpToRel
<1> HIDE DEF R
<1>2. PICK x \in T : \A y \in T : ~ (<<y, x>> \in R)
  BY <1>0, <1>1, WFMin
<1>3. x \in Nat /\ x # 0 /\ x - 1 \in Nat /\ x - 1 < x /\ x - 1 + 1 = x
  BY DEF T
<1>4. x - 1 \in T
  BY <1>3 DEF T
<1> QED
  BY <1>2, <1>3, <1>4, <1>5

\* A set of numbers has a least one.
LEMMA Least ==
  ASSUME NEW S, S \subseteq Nat, S # {}
  PROVE  \E m \in S : \A k \in S : m <= k
<1> DEFINE R == OpToRel(<, Nat)
<1>1. IsWellFoundedOn(R, Nat)
  BY NatLessThanWellFounded, Zenon
<1>2. ASSUME NEW a \in Nat, NEW b \in Nat, a < b PROVE <<a, b>> \in R
  BY <1>2 DEF OpToRel
<1> HIDE DEF R
<1>3. PICK m \in S : \A y \in S : ~ (<<y, m>> \in R)
  BY <1>1, WFMin
<1>4. ASSUME NEW k \in S PROVE m <= k
  <2>1. m \in Nat /\ k \in Nat /\ ~(k < m)
    BY <1>2, <1>3
  <2> QED
    BY <2>1
<1> QED
  BY <1>4

-----------------------------------------------------------------------------
(* finite sets *)

\* A set that has every subset of U of which it has all the subsets smaller by one
\* element has all subsets of U.
LEMMA BySubsets ==
  ASSUME NEW U, IsFiniteSet(U), NEW Q,
         \A s \in SUBSET U : (\A x \in s : s \ {x} \in Q) => s \in Q
  PROVE  SUBSET U \subseteq Q
<1> DEFINE C == {n \in Nat : \A s \in SUBSET U : Cardinality(s) = n => s \in Q}
<1>1. \A s \in SUBSET U : IsFiniteSet(s) /\ Cardinality(s) \in Nat
  BY FS_Subset, FS_CardinalityType
<1>2. 0 \in C
  <2>1. \A s \in SUBSET U : Cardinality(s) = 0 => s = {}
    BY <1>1, FS_EmptySet
  <2> QED
    BY <2>1
<1>3. ASSUME NEW n \in Nat, n \in C PROVE n + 1 \in C
  <2>1. SUFFICES ASSUME NEW s \in SUBSET U, Cardinality(s) = n + 1 PROVE s \in Q
    OBVIOUS
  <2>2. ASSUME NEW x \in s PROVE s \ {x} \in Q
    <3>1. Cardinality(s \ {x}) = Cardinality(s) - 1
      BY <1>1, FS_RemoveElement
    <3>2. Cardinality(s \ {x}) = n /\ s \ {x} \in SUBSET U
      BY <1>3, <2>1, <3>1
    <3> QED
      BY <1>3, <3>2
  <2> QED
    BY <2>2
<1> HIDE DEF C
<1>4. Nat \subseteq C
  BY <1>2, <1>3, Counting
<1> QED
  BY <1>1, <1>4 DEF C

-----------------------------------------------------------------------------
(* the inductive invariant *)

\* What was loaded of a shard: finitely many index blocks, each known by its place.
Loads(blocks) ==
  /\ IsFiniteSet(blocks)
  /\ \A b \in blocks :
       /\ b.file \in Nat /\ b.place \in Nat /\ b.series \in Series
       /\ [series |-> b.series, field |-> b.field, entries |-> b.entries] \in Metas
  /\ \A a, b \in blocks : a.file = b.file /\ a.place = b.place => a = b

\* Index blocks, with their labels, are in the files, or were.
OnDisk(blocks) ==
  \A b \in blocks : \E f \in DOMAIN files : \E i \in DOMAIN files[f].metas :
    files[f].metas[i] = [series |-> b.series, field |-> b.field, entries |-> b.entries]

\* The values of a row are those of points the files give to series a query is about.
Backed(q, row) ==
  \A x \in DOMAIN row.columns :
    \E p \in GivenFor(q, x) : p.time = row.time /\ p.field = x /\ p.value = row.columns[x]

FilesInv == files \in Seq(Files) /\ shards \subseteq Days

QueryShape ==
  /\ DOMAIN query = Queries
  /\ \A q \in Queries : DOMAIN query[q] = DOMAIN Asked

\* What a query has loaded.
LoadInv(q) ==
  /\ query[q].todo \subseteq Days /\ DOMAIN query[q].index \subseteq Days
  /\ \A s \in DOMAIN query[q].index : Loads(query[q].index[s]) /\ OnDisk(query[q].index[s])

\* What it has looked up, unless that was torn.
LookupInv(q) ==
  query[q].pc \in {"build", "load", "read"} /\ q \notin torn =>
    query[q].series = {s \in query[q].indexedThen : query[q].tags # {} /\ query[q].tags \subseteq TagsOf[s]}

\* What it has read and printed.
RowsInv(q) ==
  /\ query[q].pc = "rows" /\ q \notin torn => \A row \in query[q].rows : Backed(q, row)
  /\ Sound(q) => \A row \in query[q].printed : Verdict(query[q].rest, row) = "yes" /\ Backed(q, row)

\* The rows of a query that no other overlaps are its own.
AloneInv ==
  \A q \in Queries : query[q].pc = "rows" /\ q \notin overlapped =>
    m_row_nodes = {} /\ \A r \in Queries : query[r].pc = "rows" => r = q

RowInv(q) == LoadInv(q) /\ LookupInv(q) /\ RowsInv(q)

QueryInv == FilesInv /\ QueryShape /\ AloneInv /\ \A q \in Queries : RowInv(q)

-----------------------------------------------------------------------------
(* the files *)

\* Index blocks of files that grow stay.
Grows ==
  \A f \in DOMAIN files : \A i \in DOMAIN files[f].metas :
    f \in DOMAIN files' /\ \E k \in DOMAIN files'[f].metas : files'[f].metas[k] = files[f].metas[i]

LEMMA SameGrow == files' = files => Grows
BY DEF Grows

\* So do blocks that were loaded.
LEMMA StaysOnDisk ==
  ASSUME Grows
  PROVE  \A blocks : OnDisk(blocks) => OnDisk(blocks)'
BY DEF Grows, OnDisk

\* And the points the files give to a query's series, as long as it is about the same.
LEMMA StaysGiven ==
  ASSUME NEW q, Grows, query'[q].indexedThen = query[q].indexedThen, query'[q].tags = query[q].tags
  PROVE  \A row : Backed(q, row) => Backed(q, row)'
<1>1. ASSUME NEW x, NEW p \in GivenFor(q, x) PROVE p \in GivenFor(q, x)'
  <2>1. PICK f \in DOMAIN files : \E i \in DOMAIN files[f].metas :
               /\ About(q, files[f].metas[i].series) /\ files[f].metas[i].field = x
               /\ \E j \in DOMAIN files[f].metas[i].entries : p \in files[f].metas[i].entries[j]
    BY DEF GivenFor
  <2>2. PICK i \in DOMAIN files[f].metas :
               /\ About(q, files[f].metas[i].series) /\ files[f].metas[i].field = x
               /\ \E j \in DOMAIN files[f].metas[i].entries : p \in files[f].metas[i].entries[j]
    BY <2>1
  <2>3. PICK k \in DOMAIN files'[f].metas : files'[f].metas[k] = files[f].metas[i]
    BY DEF Grows
  <2>4. f \in DOMAIN files'
    BY DEF Grows
  <2>5. /\ About(q, files[f].metas[i].series) /\ files'[f].metas[k].field = x
        /\ \E j \in DOMAIN files'[f].metas[k].entries : p \in files'[f].metas[k].entries[j]
    BY <2>2, <2>3
  <2>6. p \in Points
    BY DEF GivenFor
  <2> QED
    BY <2>3, <2>4, <2>5, <2>6 DEF GivenFor, About
<1> QED
  BY <1>1 DEF Backed

\* A file is added, and the one before it may be spoilt.
LEMMA CreateFileKeeps ==
  ASSUME FilesInv, NEW shard \in Days, CreateFile(shard)
  PROVE  FilesInv' /\ Grows
<1>1. PICK spoils \in BOOLEAN :
        files' = Append([f \in DOMAIN files |->
                           [files[f] EXCEPT !.spoilt = @ \/ (spoils /\ f = CurrentFile(shard))]],
                        [shard |-> shard, metas |-> <<>>, spoilt |-> FALSE])
  BY DEF CreateFile
<1>2. shards' = shards
  BY DEF CreateFile
<1> DEFINE file == [shard |-> shard, metas |-> <<>>, spoilt |-> FALSE]
           Left(f) == [files[f] EXCEPT !.spoilt = @ \/ (spoils /\ f = CurrentFile(shard))]
           left == [f \in DOMAIN files |-> Left(f)]
<1>3. file \in Files
  BY DEF Files
<1>4. files \in Seq(Files)
  BY DEF FilesInv
<1>5. \A f \in DOMAIN files : Left(f) \in Files /\ Left(f).metas = files[f].metas
  <2> SUFFICES ASSUME NEW f \in DOMAIN files PROVE Left(f) \in Files /\ Left(f).metas = files[f].metas
    OBVIOUS
  <2>1. files[f] \in Files
    BY <1>4
  <2>2. PICK b \in BOOLEAN : b = (files[f].spoilt \/ (spoils /\ f = CurrentFile(shard)))
    OBVIOUS
  <2>3. Left(f) = [files[f] EXCEPT !.spoilt = b]
    BY <2>2, Zenon
  <2> QED
    BY <2>1, <2>3 DEF Files
<1> HIDE DEF file, Left
<1>6. left \in Seq(Files) /\ DOMAIN left = DOMAIN files
  BY <1>4, <1>5
<1>7. files' = Append(left, file)
  BY <1>1 DEF file, Left
<1>8. \A f \in DOMAIN files : left[f].metas = files[f].metas
  BY <1>5
<1> HIDE DEF left
<1>9. files' \in Seq(Files) /\ \A f \in DOMAIN files : f \in DOMAIN files' /\ files'[f] = left[f]
  BY <1>3, <1>6, <1>7
<1>10. Grows
  BY <1>8, <1>9 DEF Grows
<1> QED
  BY <1>2, <1>9, <1>10 DEF FilesInv

\* What is cut for an index block are points of its field.
LEMMA CutsAreMetas ==
  ASSUME NEW s \in Series, NEW x \in Fields, NEW entries \in Cuts(x)
  PROVE  [series |-> s, field |-> x, entries |-> entries] \in Metas
<1> DEFINE points == {p \in Points \ Flushed : p.field = x}
           Together(p, r) == p.series = r.series /\ ShardOf(p.time) = ShardOf(r.time)
           blocks == {b \in SUBSET points :
                        b # {} /\ \A p, r \in b : Together(p, r) /\ (p.time = r.time => p = r)}
<1>1. entries \in {<<b>> : b \in blocks} \cup {<<a, b>> : a \in blocks, b \in blocks}
  BY DEF Cuts
<1>2. \A b \in blocks : /\ b \in SUBSET Points /\ b # {}
                        /\ \A p \in b : p.field = x
                        /\ \A p, r \in b : p.series = r.series /\ (p.time = r.time => p = r)
  OBVIOUS
<1>3. CASE \E b \in blocks : entries = <<b>>
  <2>1. PICK b \in blocks : entries = <<b>>
    BY <1>3
  <2>2. /\ entries \in Seq(SUBSET Points) /\ entries # <<>>
        /\ \A i \in DOMAIN entries : entries[i] = b
    BY <1>2, <2>1
  <2> QED
    BY <1>2, <2>2 DEF Metas
<1>4. CASE \E a, b \in blocks : entries = <<a, b>>
  <2>1. PICK a \in blocks, b \in blocks : entries = <<a, b>>
    BY <1>4
  <2>2. /\ entries \in Seq(SUBSET Points) /\ entries # <<>>
        /\ \A i \in DOMAIN entries : entries[i] \in {a, b}
    BY <1>2, <2>1
  <2>3. [series |-> s, field |-> x, entries |-> entries]
          \in [series : Series, field : Fields, entries : Seq(SUBSET Points)]
    BY <2>2
  <2>4. \A i \in DOMAIN entries : entries[i] \in blocks
    BY <2>1, <2>2
  <2> HIDE DEF blocks
  <2> QED
    BY <1>2, <2>2, <2>3, <2>4 DEF Metas
<1> QED
  BY <1>1, <1>3, <1>4

LEMMA WriteIndexKeeps ==
  ASSUME FilesInv, NEW s \in Series, NEW x \in Fields, NEW shard \in Days, WriteIndex(s, x, shard)
  PROVE  FilesInv' /\ Grows
<1> DEFINE f == CurrentFile(shard)
<1>1. PICK entries \in Cuts(x) :
        files' = [files EXCEPT ![f].metas = <<[series |-> s, field |-> x, entries |-> entries]>> \o @]
  BY DEF WriteIndex
<1>2. shards' = shards
  BY DEF WriteIndex
<1> DEFINE meta == [series |-> s, field |-> x, entries |-> entries]
<1>3. meta \in Metas
  BY CutsAreMetas
<1> HIDE DEF f, meta
<1>4. files' = [files EXCEPT ![f].metas = <<meta>> \o @]
  BY <1>1 DEF meta
<1>5. files \in Seq(Files)
  BY DEF FilesInv
<1>6. \A g \in DOMAIN files : files[g] \in Files /\ files[g].metas \in Seq(Metas)
  <2>1. \A g \in DOMAIN files : files[g] \in Files
    BY <1>5
  <2> QED
    BY <2>1 DEF Files
<1>7. \A m \in Seq(Metas) :
        /\ <<meta>> \o m \in Seq(Metas)
        /\ \A i \in DOMAIN m : i + 1 \in DOMAIN (<<meta>> \o m) /\ (<<meta>> \o m)[i + 1] = m[i]
  BY <1>3
<1>8. /\ DOMAIN files' = DOMAIN files
      /\ \A g \in DOMAIN files : g # f => files'[g] = files[g]
      /\ f \in DOMAIN files => files'[f] = [files[f] EXCEPT !.metas = <<meta>> \o @]
  BY <1>4
<1>9. f \in DOMAIN files => files'[f] \in Files /\ files'[f].metas = <<meta>> \o files[f].metas
  BY <1>6, <1>7, <1>8 DEF Files
<1>10. files' \in Seq(Files)
  <2>1. \A g \in DOMAIN files : files'[g] \in Files
    BY <1>6, <1>8, <1>9
  <2>2. DOMAIN files' = 1..Len(files) /\ Len(files) \in Nat
    BY <1>5, <1>8
  <2>3. files' = [g \in 1..Len(files) |-> files'[g]]
    BY <1>4, <2>2
  <2> QED
    BY <1>8, <2>1, <2>2, <2>3
<1>11. Grows
  <2>1. ASSUME NEW g \in DOMAIN files, NEW i \in DOMAIN files[g].metas
        PROVE  g \in DOMAIN files' /\ \E k \in DOMAIN files'[g].metas : files'[g].metas[k] = files[g].metas[i]
    <3>1. CASE g # f
      BY <1>8, <3>1
    <3>2. CASE g = f
      <4>1. files[g].metas \in Seq(Metas) /\ files'[g].metas = <<meta>> \o files[g].metas
        BY <1>6, <1>9, <3>2
      <4>2. i + 1 \in DOMAIN files'[g].metas /\ files'[g].metas[i + 1] = files[g].metas[i]
        BY <1>7, <4>1
      <4> QED
        BY <1>8, <4>2
    <3> QED
      BY <3>1, <3>2
  <2> QED
    BY <2>1 DEF Grows
<1> QED
  BY <1>2, <1>10, <1>11 DEF FilesInv

-----------------------------------------------------------------------------
(* what is loaded and read of a shard *)

\* What is loaded of a shard is finitely many index blocks of what is on the disk.
LEMMA LoadedLoads ==
  ASSUME FilesInv, NEW shard
  PROVE  Loads(Loaded(shard)) /\ OnDisk(Loaded(shard))
<1>1. files \in Seq(Files) /\ \A f \in DOMAIN files : files[f] \in Files
  <2>1. files \in Seq(Files)
    BY DEF FilesInv
  <2> QED
    BY <2>1
<1>2. \A f \in DOMAIN files : /\ f \in Nat /\ files[f].metas \in Seq(Metas)
                              /\ \A i \in DOMAIN files[f].metas : i \in Nat /\ files[f].metas[i] \in Metas
  <2>1. \A f \in DOMAIN files : f \in Nat /\ files[f].metas \in Seq(Metas)
    BY <1>1 DEF Files
  <2> QED
    BY <2>1
<1> DEFINE At(f, i) == [file |-> f, place |-> i, series |-> files[f].metas[i].series,
                        field |-> files[f].metas[i].field, entries |-> files[f].metas[i].entries]
           On(f) == {At(f, i) : i \in DOMAIN files[f].metas}
<1>3. Loaded(shard) = UNION {On(f) : f \in FilesOf(shard)}
  BY DEF Loaded
<1>4. FilesOf(shard) \subseteq DOMAIN files
  BY DEF FilesOf
<1>5. IsFiniteSet(Loaded(shard))
  <2>1. IsFiniteSet(DOMAIN files)
    <3>1. DOMAIN files = 1..Len(files) /\ Len(files) \in Nat
      BY <1>1
    <3>2. IsFiniteSet(1..Len(files))
      BY <3>1, FS_Interval
    <3> QED
      BY <3>1, <3>2
  <2>2. IsFiniteSet(FilesOf(shard))
    BY <1>4, <2>1, FS_Subset
  <2> DEFINE all == {On(f) : f \in FilesOf(shard)}
  <2>3. IsFiniteSet(all)
    <3> DEFINE h == [f \in FilesOf(shard) |-> On(f)]
    <3>1. all = {h[f] : f \in FilesOf(shard)} /\ h \in [FilesOf(shard) -> all]
      OBVIOUS
    <3>2. h \in Surjection(FilesOf(shard), all)
      BY <3>1 DEF Surjection
    <3> QED
      BY <2>2, <3>2, FS_Surjection
  <2>4. ASSUME NEW T \in all PROVE IsFiniteSet(T)
    <3>1. PICK f \in FilesOf(shard) : T = On(f)
      OBVIOUS
    <3>2. DOMAIN files[f].metas = 1..Len(files[f].metas) /\ Len(files[f].metas) \in Nat
      BY <1>2, <1>4
    <3>3. IsFiniteSet(DOMAIN files[f].metas)
      <4>1. IsFiniteSet(1..Len(files[f].metas))
        BY <3>2, FS_Interval
      <4> QED
        BY <3>2, <4>1
    <3> DEFINE h == [i \in DOMAIN files[f].metas |-> At(f, i)]
    <3>4. h \in Surjection(DOMAIN files[f].metas, T)
      BY <3>1 DEF Surjection
    <3> QED
      BY <3>3, <3>4, FS_Surjection
  <2> HIDE DEF all
  <2>5. IsFiniteSet(UNION all)
    BY <2>3, <2>4, FS_UNION
  <2> QED
    BY <1>3, <2>5 DEF all
<1>6. ASSUME NEW b \in Loaded(shard)
      PROVE  \E f \in DOMAIN files : \E i \in DOMAIN files[f].metas : b = At(f, i)
  BY <1>3, <1>4
<1>7. ASSUME NEW b \in Loaded(shard)
      PROVE  /\ b.file \in Nat /\ b.place \in Nat /\ b.series \in Series
             /\ [series |-> b.series, field |-> b.field, entries |-> b.entries] \in Metas
             /\ \E f \in DOMAIN files : \E i \in DOMAIN files[f].metas :
                  files[f].metas[i] = [series |-> b.series, field |-> b.field, entries |-> b.entries]
             /\ b = At(b.file, b.place)
  <2>1. PICK f \in DOMAIN files : \E i \in DOMAIN files[f].metas : b = At(f, i)
    BY <1>6
  <2>2. PICK i \in DOMAIN files[f].metas : b = At(f, i)
    BY <2>1
  <2>3. f \in Nat /\ i \in Nat /\ files[f].metas[i] \in Metas
    BY <1>2
  <2>4. files[f].metas[i].series \in Series
        /\ files[f].metas[i] = [series |-> files[f].metas[i].series, field |-> files[f].metas[i].field,
                                entries |-> files[f].metas[i].entries]
    BY <2>3 DEF Metas
  <2>5. b.series = files[f].metas[i].series /\ b.field = files[f].metas[i].field
        /\ b.entries = files[f].metas[i].entries /\ b.file = f /\ b.place = i
    BY <2>2
  <2> HIDE DEF At
  <2> QED
    BY <2>2, <2>3, <2>4, <2>5
<1> HIDE DEF At, On
<1>8. \A a, b \in Loaded(shard) : a.file = b.file /\ a.place = b.place => a = b
  BY <1>7
<1>9. Loads(Loaded(shard))
  BY <1>5, <1>7, <1>8 DEF Loads
<1> QED
  BY <1>7, <1>9 DEF OnDisk

\* So is a part of it.
LEMMA PartLoads ==
  ASSUME NEW blocks, Loads(blocks), OnDisk(blocks), NEW part \in SUBSET blocks
  PROVE  Loads(part) /\ OnDisk(part)
<1>1. IsFiniteSet(part)
  BY FS_Subset DEF Loads
<1> QED
  BY <1>1 DEF Loads, OnDisk

\* A block comes before no block that comes before it, and of two blocks one does.
LEMMA Order ==
  ASSUME NEW blocks, Loads(blocks)
  PROVE  /\ \A a \in blocks : ~Precedes(a, a)
         /\ \A a, b \in blocks : a = b \/ Precedes(a, b) \/ Precedes(b, a)
         /\ \A a, b, c \in blocks : Precedes(a, b) /\ Precedes(b, c) => Precedes(a, c)
<1>1. \A a \in blocks : a.file \in Nat /\ a.place \in Nat /\ a.series \in Nat
  BY QueryAssumption DEF Loads
<1>2. \A a, b \in blocks : a.file = b.file /\ a.place = b.place => a = b
  BY DEF Loads
<1> QED
  BY <1>1, <1>2 DEF Precedes

\* Of some blocks one is read last.
LEMMA LastIsThere ==
  ASSUME NEW blocks, Loads(blocks), NEW with \in SUBSET blocks, with # {}
  PROVE  \E b \in with : \A a \in with : a = b \/ Precedes(a, b)
<1> DEFINE Q == {T \in SUBSET blocks : T # {} => \E b \in T : \A a \in T : a = b \/ Precedes(a, b)}
<1>1. ASSUME NEW T \in SUBSET blocks, \A x \in T : T \ {x} \in Q
      PROVE  T \in Q
  <2>1. SUFFICES ASSUME T # {} PROVE \E b \in T : \A a \in T : a = b \/ Precedes(a, b)
    OBVIOUS
  <2>2. PICK x \in T : TRUE
    BY <2>1
  <2>3. CASE T \ {x} = {}
    BY <2>2, <2>3
  <2>4. CASE T \ {x} # {}
    <3>1. PICK b \in T \ {x} : \A a \in T \ {x} : a = b \/ Precedes(a, b)
      BY <1>1, <2>2, <2>4
    <3>2. CASE Precedes(x, b)
      BY <3>1, <3>2
    <3>3. CASE Precedes(b, x)
      <4>1. \A a \in T : a = x \/ Precedes(a, x)
        BY <3>1, <3>3, Order
      <4> QED
        BY <4>1
    <3> QED
      BY <3>1, <3>2, <3>3, Order
  <2> QED
    BY <2>3, <2>4
<1>2. IsFiniteSet(blocks)
  BY DEF Loads
<1> HIDE DEF Q
<1>3. SUBSET blocks \subseteq Q
  BY <1>1, <1>2, BySubsets
<1> QED
  BY <1>3 DEF Q

\* The value of a row for a field is that of a point read.
LEMMA ColumnIsRead ==
  ASSUME NEW blocks, Loads(blocks), NEW read \in SUBSET blocks, NEW x, NEW t,
         NEW b \in read, b.field = x, t \in TimesOf(b)
  PROVE  \E a \in read : \E p \in FirstBlock(a) :
           a.field = x /\ p.time = t /\ Column(read, x, t) = p.value
<1> DEFINE with == {a \in read : a.field = x /\ t \in TimesOf(a)}
           last == CHOOSE c \in with : \A a \in with : a = c \/ Precedes(a, c)
<1>1. with \in SUBSET blocks /\ with # {}
  OBVIOUS
<1>2. \E c \in with : \A a \in with : a = c \/ Precedes(a, c)
  BY <1>1, LastIsThere
<1>3. last \in with
  BY <1>2
<1>4. \E p \in FirstBlock(last) : p.time = t
  BY <1>3 DEF TimesOf
<1> DEFINE point == CHOOSE p \in FirstBlock(last) : p.time = t
<1>5. point \in FirstBlock(last) /\ point.time = t
  BY <1>4
<1>6. Column(read, x, t) = point.value
  BY DEF Column
<1> QED
  BY <1>3, <1>5, <1>6

\* What is read of a shard is of the series looked up.
LEMMA ReadForIsPart ==
  ASSUME NEW q, NEW index
  PROVE  ReadFor(q, index) \subseteq index /\ \A b \in ReadFor(q, index) : b.series \in query[q].series
BY DEF ReadFor

\* The first entry of an index block is there.
LEMMA FirstIsEntry ==
  ASSUME NEW blocks, Loads(blocks), NEW b \in blocks
  PROVE  /\ 1 \in DOMAIN b.entries /\ FirstBlock(b) = b.entries[1]
         /\ \A p \in FirstBlock(b) : p.field = b.field /\ p \in Points
<1> DEFINE meta == [series |-> b.series, field |-> b.field, entries |-> b.entries]
<1>1. meta \in Metas
  BY DEF Loads
<1>2. /\ meta.entries \in Seq(SUBSET Points) /\ meta.entries # <<>>
      /\ \A i \in DOMAIN meta.entries : \A p \in meta.entries[i] : p.field = meta.field
  BY <1>1 DEF Metas
<1>3. b.entries \in Seq(SUBSET Points) /\ b.entries # <<>>
  BY <1>2
<1>4. 1 \in DOMAIN b.entries
  BY <1>3
<1>5. b.entries[1] \subseteq Points
  BY <1>3, <1>4
<1> QED
  BY <1>2, <1>4, <1>5 DEF FirstBlock

\* The rows of blocks labelled with series a query is about are backed by their points.
LEMMA RowsAreBacked ==
  ASSUME NEW q, NEW blocks, Loads(blocks), OnDisk(blocks), NEW read \in SUBSET blocks,
         \A b \in read : About(q, b.series)
  PROVE  \A row \in RowsOf(read) : Backed(q, row)
<1>1. SUFFICES ASSUME NEW row \in RowsOf(read), NEW x \in DOMAIN row.columns
               PROVE  \E p \in GivenFor(q, x) :
                        p.time = row.time /\ p.field = x /\ p.value = row.columns[x]
  BY DEF Backed
<1> DEFINE With(t) == {b.field : b \in {a \in read : t \in TimesOf(a)}}
<1>2. PICK t : row = [time |-> t, columns |-> [y \in With(t) |-> Column(read, y, t)]]
  BY DEF RowsOf
<1>3. x \in With(t) /\ row.columns[x] = Column(read, x, t) /\ row.time = t
  BY <1>1, <1>2
<1>4. PICK b \in read : b.field = x /\ t \in TimesOf(b)
  BY <1>3
<1>5. PICK a \in read : \E p \in FirstBlock(a) :
             a.field = x /\ p.time = t /\ Column(read, x, t) = p.value
  BY <1>4, ColumnIsRead
<1>6. PICK p \in FirstBlock(a) : a.field = x /\ p.time = t /\ Column(read, x, t) = p.value
  BY <1>5
<1>7. p.field = x /\ p \in GivenFor(q, x)
  <2>1. 1 \in DOMAIN a.entries /\ p \in a.entries[1] /\ p.field = a.field /\ p \in Points
    BY FirstIsEntry
  <2>2. PICK f \in DOMAIN files : \E i \in DOMAIN files[f].metas :
          files[f].metas[i] = [series |-> a.series, field |-> a.field, entries |-> a.entries]
    BY DEF OnDisk
  <2>3. PICK i \in DOMAIN files[f].metas :
          files[f].metas[i] = [series |-> a.series, field |-> a.field, entries |-> a.entries]
    BY <2>2
  <2>4. /\ About(q, files[f].metas[i].series) /\ files[f].metas[i].field = x
        /\ \E j \in DOMAIN files[f].metas[i].entries : p \in files[f].metas[i].entries[j]
    BY <1>6, <2>1, <2>3
  <2> QED
    BY <1>6, <2>1, <2>4 DEF GivenFor
<1> QED
  BY <1>3, <1>6, <1>7

-----------------------------------------------------------------------------
(* the steps *)

\* A step that leaves a query alone keeps what is true of it.
LEMMA Untouched ==
  ASSUME NEW q \in Queries, RowInv(q), query'[q] = query[q], Grows,
         torn \subseteq torn', overlapped \subseteq overlapped'
  PROVE  RowInv(q)'
<1>1. \A blocks : OnDisk(blocks) => OnDisk(blocks)'
  BY StaysOnDisk
<1>2. LoadInv(q)'
  BY <1>1 DEF RowInv, LoadInv
<1>3. LookupInv(q)'
  BY DEF RowInv, LookupInv
<1>4. \A row : Backed(q, row) => Backed(q, row)'
  BY StaysGiven
<1>5. RowsInv(q)'
  BY <1>4 DEF RowInv, RowsInv, Sound
<1> QED
  BY <1>2, <1>3, <1>5 DEF RowInv

\* A step that no query takes keeps the invariant if the files grow.
LEMMA OtherSteps ==
  ASSUME QueryInv, FilesInv', Grows, UNCHANGED <<query, m_row_nodes, overlapped>>,
         torn \subseteq torn'
  PROVE  QueryInv'
<1>1. \A q \in Queries : RowInv(q)'
  BY Untouched DEF QueryInv
<1>2. QueryShape' /\ AloneInv'
  BY DEF QueryInv, QueryShape, AloneInv
<1> QED
  BY <1>1, <1>2 DEF QueryInv

\* A step of q that leaves the files alone keeps the invariant if it does for q.
LEMMA StepOf ==
  ASSUME QueryInv, NEW q \in Queries, NEW new, query' = [query EXCEPT ![q] = new],
         DOMAIN new = DOMAIN Asked, UNCHANGED <<shards, files>>,
         torn \subseteq torn', overlapped \subseteq overlapped',
         RowInv(q)', AloneInv'
  PROVE  QueryInv'
<1>1. QueryShape'
  BY DEF QueryInv, QueryShape
<1>2. FilesInv' /\ Grows
  BY SameGrow DEF QueryInv, FilesInv
<1>3. ASSUME NEW r \in Queries PROVE RowInv(r)'
  <2>1. CASE r = q
    BY <2>1
  <2>2. CASE r # q
    <3>1. query'[r] = query[r]
      BY <2>2 DEF QueryInv, QueryShape
    <3> QED
      BY <1>2, <3>1, Untouched DEF QueryInv
  <2> QED
    BY <2>1, <2>2
<1> QED
  BY <1>1, <1>2, <1>3 DEF QueryInv

\* It keeps the rows apart if q does not begin to read, and the rows stay or q has some.
LEMMA StaysAlone ==
  ASSUME QueryInv, NEW q \in Queries, NEW new, query' = [query EXCEPT ![q] = new],
         new.pc # "rows", overlapped \subseteq overlapped',
         m_row_nodes' = m_row_nodes \/ query[q].pc = "rows"
  PROVE  AloneInv'
<1>1. \A r \in Queries : query'[r].pc = "rows" => r # q /\ query[r].pc = "rows"
  BY DEF QueryInv, QueryShape
<1>2. ASSUME NEW r \in Queries, query'[r].pc = "rows", r \notin overlapped'
      PROVE  m_row_nodes' = {} /\ \A other \in Queries : query'[other].pc = "rows" => other = r
  <2>1. query[r].pc = "rows" /\ r \notin overlapped /\ r # q
    BY <1>1, <1>2
  <2>2. m_row_nodes = {} /\ \A other \in Queries : query[other].pc = "rows" => other = r
    BY <2>1 DEF QueryInv, AloneInv
  <2> QED
    BY <1>1, <2>1, <2>2
<1> QED
  BY <1>2 DEF AloneInv

\* The fields of a query.
LEMMA AskedFields ==
  DOMAIN Asked = {"pc", "tree", "rest", "tags", "todo", "series", "index", "used", "rows", "printed",
                  "indexedThen", "reached", "misled"}
BY DEF Asked

\* Days are numbers.
LEMMA DaysAreNat == Days \subseteq Nat
<1>1. ASSUME NEW t \in Nat PROVE ShardOf(t) \in Nat
  BY QueryAssumption DEF ShardOf
<1> QED
  BY <1>1, QueryAssumption DEF Days

\* Of some days one is the earliest.
LEMMA EarliestIn ==
  ASSUME NEW some \in SUBSET Days, some # {}
  PROVE  Earliest(some) \in some /\ \A r \in some : Earliest(some) <= r
<1>1. \E s \in some : \A r \in some : s <= r
  BY DaysAreNat, Least
<1> QED
  BY <1>1 DEF Earliest

\* A step of q that only moves on.
LEMMA MovesOn ==
  ASSUME QueryInv, NEW q \in Queries, NEW new, query' = [query EXCEPT ![q] = new],
         DOMAIN new = DOMAIN Asked, UNCHANGED <<shards, files, m_row_nodes, overlapped>>,
         torn \subseteq torn', new.index = query[q].index, new.todo \subseteq Days, new.pc \notin {"rows", "done"},
         new.pc \in {"build", "load", "read"} =>
           /\ query[q].pc \in {"build", "load", "read"} /\ new.tags = query[q].tags
           /\ new.series = query[q].series /\ new.indexedThen = query[q].indexedThen
  PROVE  QueryInv'
<1>1. query'[q] = new
  BY DEF QueryInv, QueryShape
<1>2. files' = files
  OBVIOUS
<1>3. RowInv(q)
  BY DEF QueryInv
<1>4. LoadInv(q)'
  BY <1>1, <1>2, <1>3 DEF RowInv, LoadInv, OnDisk
<1>5. LookupInv(q)'
  BY <1>1, <1>3 DEF RowInv, LookupInv
<1>6. RowsInv(q)'
  BY <1>1 DEF RowsInv, Sound
<1>7. AloneInv'
  BY StaysAlone
<1> QED
  BY <1>4, <1>5, <1>6, <1>7, StepOf DEF RowInv

\* Filtering the shards keeps the invariant: those of the table are days.
LEMMA FilterShardsKeeps == ASSUME QueryInv, NEW q \in Queries, FilterShards(q) PROVE QueryInv'
<1> DEFINE new == [query[q] EXCEPT !.todo = {s \in shards : Condition(query[q].rest, s)},
                                   !.reached = {s \in shards : Reaches(query[q].rest, s)},
                                   !.pc = "lookup"]
<1>1. query' = [query EXCEPT ![q] = new]
  BY DEF FilterShards
<1>2. UNCHANGED <<shards, files, m_row_nodes, torn, overlapped>>
  BY DEF FilterShards
<1>3. DOMAIN query[q] = DOMAIN Asked /\ query[q].todo \subseteq Days
  BY DEF QueryInv, QueryShape, RowInv, LoadInv
<1>4. /\ DOMAIN new = DOMAIN Asked /\ new.pc = "lookup" /\ new.index = query[q].index
      /\ new.todo \subseteq Days
  BY <1>3, AskedFields DEF QueryInv, FilesInv
<1> HIDE DEF new
<1> QED
  BY <1>1, <1>2, <1>3, <1>4, MovesOn

\* Beginning to look the tags up keeps the invariant.
LEMMA BeginLookupKeeps == ASSUME QueryInv, NEW q \in Queries, BeginLookup(q) PROVE QueryInv'
<1> DEFINE new == [query[q] EXCEPT !.pc = "looking"]
<1>1. query' = [query EXCEPT ![q] = new]
  BY DEF BeginLookup
<1>2. UNCHANGED <<shards, files, m_row_nodes, overlapped>> /\ torn \subseteq torn'
  BY DEF BeginLookup
<1>3. DOMAIN query[q] = DOMAIN Asked /\ query[q].todo \subseteq Days
  BY DEF QueryInv, QueryShape, RowInv, LoadInv
<1>4. /\ DOMAIN new = DOMAIN Asked /\ new.pc = "looking" /\ new.index = query[q].index
      /\ new.todo = query[q].todo
  BY <1>3, AskedFields
<1> HIDE DEF new
<1> QED
  BY <1>1, <1>2, <1>3, <1>4, MovesOn

\* Beginning to build the iterators keeps the invariant.
LEMMA BeginBuildKeeps == ASSUME QueryInv, NEW q \in Queries, BeginBuild(q) PROVE QueryInv'
<1> DEFINE new == [query[q] EXCEPT !.pc = "load"]
<1>1. query' = [query EXCEPT ![q] = new] /\ query[q].pc = "build"
  BY DEF BeginBuild
<1>2. UNCHANGED <<shards, files, m_row_nodes, torn, overlapped>>
  BY DEF BeginBuild
<1>3. DOMAIN query[q] = DOMAIN Asked /\ query[q].todo \subseteq Days
  BY DEF QueryInv, QueryShape, RowInv, LoadInv
<1>4. /\ DOMAIN new = DOMAIN Asked /\ new.pc = "load" /\ new.index = query[q].index
      /\ new.todo = query[q].todo
      /\ new.tags = query[q].tags /\ new.series = query[q].series
      /\ new.indexedThen = query[q].indexedThen
  BY <1>3, AskedFields
<1> HIDE DEF new
<1> QED
  BY <1>1, <1>2, <1>3, <1>4, MovesOn

\* Ending it keeps the invariant.
LEMMA EndBuildKeeps == ASSUME QueryInv, NEW q \in Queries, EndBuild(q) PROVE QueryInv'
<1> DEFINE new == [query[q] EXCEPT !.pc = "read"]
<1>1. query' = [query EXCEPT ![q] = new] /\ query[q].pc = "load"
  BY DEF EndBuild
<1>2. UNCHANGED <<shards, files, m_row_nodes, torn, overlapped>>
  BY DEF EndBuild
<1>3. DOMAIN query[q] = DOMAIN Asked /\ query[q].todo \subseteq Days
  BY DEF QueryInv, QueryShape, RowInv, LoadInv
<1>4. /\ DOMAIN new = DOMAIN Asked /\ new.pc = "read" /\ new.index = query[q].index
      /\ new.todo = query[q].todo
      /\ new.tags = query[q].tags /\ new.series = query[q].series
      /\ new.indexedThen = query[q].indexedThen
  BY <1>3, AskedFields
<1> HIDE DEF new
<1> QED
  BY <1>1, <1>2, <1>3, <1>4, MovesOn

\* A load that never ends keeps the invariant.
LEMMA LoadStopsKeeps ==
  ASSUME QueryInv, NEW q \in Queries, LoadHangs(q) \/ LoadLoops(q)
  PROVE  QueryInv'
<1>0. PICK pc \in {"hung", "looping"} :
        query' = [query EXCEPT ![q].pc = pc] /\ UNCHANGED <<shards, files, m_row_nodes, torn, overlapped>>
  BY DEF LoadHangs, LoadLoops
<1> DEFINE new == [query[q] EXCEPT !.pc = pc]
<1>1. query' = [query EXCEPT ![q] = new]
  BY <1>0
<1>3. DOMAIN query[q] = DOMAIN Asked /\ query[q].todo \subseteq Days
  BY DEF QueryInv, QueryShape, RowInv, LoadInv
<1>4. /\ DOMAIN new = DOMAIN Asked /\ new.pc \in {"hung", "looping"} /\ new.index = query[q].index
      /\ new.todo = query[q].todo
  BY <1>3, AskedFields
<1> HIDE DEF new
<1> QED
  BY <1>0, <1>1, <1>3, <1>4, MovesOn

\* Asking keeps the invariant: nothing is loaded.
LEMMA AskKeeps == ASSUME QueryInv, NEW q \in Queries, NEW tree, Ask(q, tree) PROVE QueryInv'
<1> DEFINE new == [Asked EXCEPT !.pc = "filter", !.tree = tree,
                                !.rest = Without(tree), !.tags = TagsIn(tree)]
<1>1. query' = [query EXCEPT ![q] = new]
  BY DEF Ask
<1>2. UNCHANGED <<shards, files, m_row_nodes, torn, overlapped>>
  BY DEF Ask
<1>3. /\ DOMAIN new = DOMAIN Asked /\ new.pc = "filter" /\ new.index = <<>>
      /\ new.todo = {}
  BY AskedFields DEF Asked
<1> HIDE DEF new
<1>4. query'[q] = new
  BY <1>1 DEF QueryInv, QueryShape
<1>5. RowInv(q)'
  <2>1. DOMAIN query'[q].index = {}
    BY <1>3, <1>4
  <2> QED
    BY <1>3, <1>4, <2>1 DEF RowInv, LoadInv, LookupInv, RowsInv, Sound
<1>6. AloneInv'
  BY <1>1, <1>2, <1>3, StaysAlone
<1> QED
  BY <1>1, <1>2, <1>3, <1>5, <1>6, StepOf

\* What is found is what the tags say, unless the lookup was torn.
LEMMA EndLookupKeeps == ASSUME QueryInv, NEW q \in Queries, EndLookup(q) PROVE QueryInv'
<1>0. PICK series \in SUBSET indexed :
        /\ q \notin torn => series = Intersection(query[q].tags)
        /\ query' = [query EXCEPT ![q].series = series, ![q].pc = "build", ![q].indexedThen = indexed]
  BY DEF EndLookup
<1> DEFINE new == [query[q] EXCEPT !.series = series, !.pc = "build", !.indexedThen = indexed]
<1>1. query' = [query EXCEPT ![q] = new]
  BY <1>0
<1>2. UNCHANGED <<shards, files, m_row_nodes, torn, overlapped>>
  BY DEF EndLookup
<1>3. DOMAIN query[q] = DOMAIN Asked /\ RowInv(q)
  BY DEF QueryInv, QueryShape
<1>4. /\ DOMAIN new = DOMAIN Asked /\ new.pc = "build" /\ new.index = query[q].index
      /\ new.todo = query[q].todo
      /\ new.series = series /\ new.indexedThen = indexed /\ new.tags = query[q].tags
  BY <1>3, AskedFields
<1> HIDE DEF new
<1>5. query'[q] = new
  BY <1>1 DEF QueryInv, QueryShape
<1>7. LoadInv(q)'
  BY <1>2, <1>3, <1>4, <1>5 DEF RowInv, LoadInv, OnDisk
<1>8. LookupInv(q)'
  BY <1>0, <1>2, <1>4, <1>5 DEF LookupInv, Intersection
<1>9. RowsInv(q)'
  BY <1>4, <1>5 DEF RowsInv, Sound
<1>10. AloneInv'
  BY <1>1, <1>2, <1>4, StaysAlone
<1> QED
  BY <1>1, <1>2, <1>4, <1>7, <1>8, <1>9, <1>10, StepOf DEF RowInv

\* What a query is after a shard is loaded; of spoilt files it may have loaded a part.
HasLoaded(q, new, part) ==
  LET shard == Earliest(query[q].todo) IN
  /\ query' = [query EXCEPT ![q] = new]
  /\ DOMAIN new = DOMAIN Asked /\ new.pc = "load" /\ new.rest = query[q].rest
  /\ new.series = query[q].series /\ new.indexedThen = query[q].indexedThen
  /\ new.tags = query[q].tags /\ new.todo = query[q].todo \ {shard} /\ new.reached = query[q].reached
  /\ part \subseteq Loaded(shard)
  /\ DOMAIN new.index = DOMAIN query[q].index \cup {shard}
  /\ \A s \in DOMAIN new.index :
       new.index[s] = part \/ (s \in DOMAIN query[q].index /\ new.index[s] = query[q].index[s])

LEMMA LoadShardIs ==
  ASSUME QueryInv, NEW q \in Queries, LoadShard(q)
  PROVE  \E new, part : HasLoaded(q, new, part)
<1> DEFINE shard == Earliest(query[q].todo)
           some == {b \in Loaded(shard) : b.file \in Spoilt(shard)}
           misled == query[q].misled \/ Spoilt(shard) # {}
           Held(lost) == [s \in DOMAIN query[q].index \cup {shard} |->
                            IF s = shard THEN Loaded(shard) \ lost ELSE query[q].index[s]]
           New(lost) == [query[q] EXCEPT !.todo = @ \ {shard}, !.used = NextUsed(q),
                                         !.misled = misled, !.index = Held(lost)]
<1>1. PICK lost \in SUBSET some : query' = [query EXCEPT ![q] = New(lost)]
  <2>1. PICK lost \in SUBSET some :
          query' = [query EXCEPT ![q].todo = @ \ {shard}, ![q].used = NextUsed(q),
                                 ![q].misled = @ \/ Spoilt(shard) # {},
                                 ![q].index = [s \in DOMAIN @ \cup {shard} |->
                                                 IF s = shard THEN Loaded(shard) \ lost ELSE @[s]]]
    BY DEF LoadShard
  <2> QED
    BY <2>1, Zenon
<1> DEFINE held == Held(lost)
           part == Loaded(shard) \ lost
<1>2. DOMAIN query[q] = DOMAIN Asked /\ query[q].pc = "load"
  BY DEF QueryInv, QueryShape, LoadShard
<1>3. /\ DOMAIN held = DOMAIN query[q].index \cup {shard}
      /\ \A s \in DOMAIN held :
           held[s] = part \/ (s \in DOMAIN query[q].index /\ held[s] = query[q].index[s])
  <2> HIDE DEF shard, misled, some, New, part
  <2>1. part = Loaded(shard) \ lost
    BY DEF part
  <2>2. /\ DOMAIN held = DOMAIN query[q].index \cup {shard}
        /\ \A s \in DOMAIN held : held[s] = IF s = shard THEN Loaded(shard) \ lost ELSE query[q].index[s]
    OBVIOUS
  <2> HIDE DEF held, Held
  <2>3. ASSUME NEW s \in DOMAIN held
        PROVE  held[s] = part \/ (s \in DOMAIN query[q].index /\ held[s] = query[q].index[s])
    <3>1. CASE s = shard
      <4>1. held[s] = Loaded(shard) \ lost
        BY <2>2, <3>1, Zenon
      <4> QED
        BY <2>1, <4>1, Zenon
    <3>2. CASE s # shard
      BY <2>2, <3>2
    <3> QED
      BY <3>1, <3>2
  <2> QED
    BY <2>2, <2>3
<1> HIDE DEF held, Held, misled, shard
<1>4. /\ DOMAIN New(lost) = DOMAIN Asked /\ New(lost).pc = "load" /\ New(lost).rest = query[q].rest
      /\ New(lost).series = query[q].series /\ New(lost).indexedThen = query[q].indexedThen
      /\ New(lost).tags = query[q].tags /\ New(lost).todo = query[q].todo \ {shard}
      /\ New(lost).reached = query[q].reached /\ New(lost).index = held
  BY <1>2, AskedFields DEF held
<1> HIDE DEF New
<1>5. part \subseteq Loaded(shard)
  OBVIOUS
<1> HIDE DEF part
<1>6. HasLoaded(q, New(lost), part)
  BY <1>1, <1>3, <1>4, <1>5 DEF HasLoaded, shard
<1> QED
  BY <1>6

\* What is loaded is on the disk.
LEMMA LoadShardKeeps == ASSUME QueryInv, NEW q \in Queries, LoadShard(q) PROVE QueryInv'
<1> DEFINE shard == Earliest(query[q].todo)
<1>1. PICK new, part : HasLoaded(q, new, part)
  BY LoadShardIs
<1>2. UNCHANGED <<shards, files, m_row_nodes, torn, overlapped>> /\ query[q].pc = "load"
  BY DEF LoadShard
<1>3. RowInv(q)
  BY DEF QueryInv
<1>4. shard \in Days
  BY <1>3, EarliestIn DEF LoadShard, RowInv, LoadInv
<1> HIDE DEF shard
<1>5. query' = [query EXCEPT ![q] = new] /\ query'[q] = new
  BY <1>1 DEF HasLoaded, QueryInv, QueryShape
<1>6. /\ DOMAIN new = DOMAIN Asked /\ new.pc = "load"
      /\ new.series = query[q].series /\ new.indexedThen = query[q].indexedThen
      /\ new.tags = query[q].tags /\ new.todo \subseteq query[q].todo
      /\ part \subseteq Loaded(shard)
      /\ DOMAIN new.index = DOMAIN query[q].index \cup {shard}
      /\ \A s \in DOMAIN new.index :
           new.index[s] = part \/ (s \in DOMAIN query[q].index /\ new.index[s] = query[q].index[s])
  BY <1>1 DEF HasLoaded, shard
<1>7. LoadInv(q)'
  <2>1. Loads(part) /\ OnDisk(part)
    <3>1. Loads(Loaded(shard)) /\ OnDisk(Loaded(shard))
      BY LoadedLoads DEF QueryInv
    <3> QED
      BY <1>6, <3>1, PartLoads
  <2>2. \A s \in DOMAIN query[q].index : Loads(query[q].index[s]) /\ OnDisk(query[q].index[s])
    BY <1>3 DEF RowInv, LoadInv
  <2>3. \A s \in DOMAIN new.index : Loads(new.index[s]) /\ OnDisk(new.index[s])
    BY <1>6, <2>1, <2>2
  <2>4. \A blocks : OnDisk(blocks) => OnDisk(blocks)'
    BY <1>2 DEF OnDisk
  <2>5. new.todo \subseteq Days /\ DOMAIN new.index \subseteq Days
    BY <1>3, <1>4, <1>6 DEF RowInv, LoadInv
  <2>6. Days' = Days
    BY DEF Days, ShardOf
  <2> QED
    BY <1>5, <2>3, <2>4, <2>5, <2>6 DEF LoadInv
<1>8. LookupInv(q)'
  BY <1>2, <1>3, <1>5, <1>6 DEF RowInv, LookupInv
<1>9. RowsInv(q)'
  BY <1>5, <1>6 DEF RowsInv, Sound
<1>10. AloneInv'
  BY <1>2, <1>5, <1>6, StaysAlone
<1> QED
  BY <1>2, <1>5, <1>6, <1>7, <1>8, <1>9, <1>10, StepOf DEF RowInv

\* The rows read of a shard are backed by what was loaded.
LEMMA ReadShardKeeps == ASSUME QueryInv, NEW q \in Queries, ReadShard(q) PROVE QueryInv'
<1>0. PICK hangs \in BOOLEAN :
        query' = [query EXCEPT ![q].pc = IF hangs THEN "hung" ELSE "rows",
                               ![q].rows = IF hangs THEN {} ELSE RowsOf(FirstShard(q)),
                               ![q].used = {}, ![q].series = {}]
  <2> DEFINE hangs == ReadHangs(FirstShard(q), query[q].used)
  <2>1. hangs \in BOOLEAN
    BY DEF ReadHangs
  <2>2. query' = [query EXCEPT ![q].pc = IF hangs THEN "hung" ELSE "rows",
                               ![q].rows = IF hangs THEN {} ELSE RowsOf(FirstShard(q)),
                               ![q].used = {}, ![q].series = {}]
    BY DEF ReadShard
  <2> QED
    BY <2>1, <2>2
<1> DEFINE new == [query[q] EXCEPT !.pc = IF hangs THEN "hung" ELSE "rows",
                                   !.rows = IF hangs THEN {} ELSE RowsOf(FirstShard(q)),
                                   !.used = {}, !.series = {}]
           others == {r \in Queries \ {q} : query[r].pc = "rows"}
<1>1. query' = [query EXCEPT ![q] = new] /\ query[q].pc = "read"
  <2>1. query[q].pc = "read"
    BY DEF ReadShard
  <2>2. query' = [query EXCEPT ![q] = new]
    BY <1>0
  <2> QED
    BY <2>1, <2>2
<1>2. /\ UNCHANGED <<shards, files, torn>> /\ m_row_nodes' = {}
      /\ overlapped' = overlapped \cup others \cup (IF others # {} THEN {q} ELSE {})
  BY DEF ReadShard
<1>3. DOMAIN query[q] = DOMAIN Asked /\ RowInv(q)
  BY DEF QueryInv, QueryShape
<1>4. /\ DOMAIN new = DOMAIN Asked /\ new.pc = (IF hangs THEN "hung" ELSE "rows")
      /\ new.index = query[q].index /\ new.todo = query[q].todo
      /\ new.rows = (IF hangs THEN {} ELSE RowsOf(FirstShard(q)))
      /\ new.indexedThen = query[q].indexedThen /\ new.tags = query[q].tags
  BY <1>3, AskedFields
<1> HIDE DEF new
<1>5. query'[q] = new
  BY <1>1 DEF QueryInv, QueryShape
<1>6. files' = files /\ Days' = Days
  BY <1>2 DEF Days, ShardOf
<1>7. LoadInv(q)'
  BY <1>3, <1>4, <1>5, <1>6 DEF RowInv, LoadInv, OnDisk
<1>8. LookupInv(q)'
  BY <1>4, <1>5 DEF LookupInv
<1>9. ASSUME q \notin torn, NEW row \in RowsOf(FirstShard(q)) PROVE Backed(q, row)
  <2>1. DOMAIN query[q].index # {}
    BY <1>9 DEF FirstShard, RowsOf
  <2> DEFINE s == Earliest(DOMAIN query[q].index)
             loaded == query[q].index[s]
  <2>2. s \in DOMAIN query[q].index
    BY <1>3, <2>1, EarliestIn DEF RowInv, LoadInv
  <2>3. Loads(loaded) /\ OnDisk(loaded)
    BY <1>3, <2>2 DEF RowInv, LoadInv
  <2>4. FirstShard(q) = ReadFor(q, loaded)
    BY <2>1 DEF FirstShard
  <2> HIDE DEF loaded
  <2>5. FirstShard(q) \in SUBSET loaded /\ \A b \in FirstShard(q) : b.series \in query[q].series
    BY <2>4, ReadForIsPart
  <2>6. query[q].series = {r \in query[q].indexedThen : query[q].tags # {} /\ query[q].tags \subseteq TagsOf[r]}
    BY <1>1, <1>3, <1>9 DEF RowInv, LookupInv
  <2>7. \A b \in FirstShard(q) : About(q, b.series)
    BY <2>5, <2>6 DEF About
  <2> QED
    BY <1>9, <2>3, <2>5, <2>7, RowsAreBacked
<1>10. \A row : Backed(q, row) => Backed(q, row)'
  BY <1>4, <1>5, <1>6, SameGrow, StaysGiven
<1>11. RowsInv(q)'
  <2>1. PICK rows : rows = RowsOf(FirstShard(q))
    OBVIOUS
  <2>2. query'[q].pc = "rows" => query'[q].rows = rows
    BY <1>4, <1>5, <2>1
  <2>3. q \notin torn => \A row \in rows : Backed(q, row)'
    BY <1>9, <1>10, <2>1
  <2>4. query'[q].pc # "done"
    BY <1>4, <1>5
  <2>5. torn' = torn
    BY <1>2
  <2> QED
    BY <2>2, <2>3, <2>4, <2>5 DEF RowsInv, Sound
<1>12. AloneInv'
  <2>1. \A r \in Queries : query'[r].pc = "rows" => r = q \/ query[r].pc = "rows"
    BY <1>1 DEF QueryInv, QueryShape
  <2>2. ASSUME NEW r \in Queries, query'[r].pc = "rows", r \notin overlapped',
               NEW other \in Queries, query'[other].pc = "rows"
        PROVE  other = r
    <3>1. CASE others = {}
      <4>1. \A x \in Queries : query'[x].pc = "rows" => x = q
        BY <2>1, <3>1
      <4> QED
        BY <2>2, <4>1
    <3>2. CASE others # {}
      <4>1. r # q /\ r \notin others
        BY <1>2, <2>2, <3>2
      <4> QED
        BY <2>1, <2>2, <4>1
    <3> QED
      BY <3>1, <3>2
  <2> QED
    BY <1>2, <2>2 DEF AloneInv
<1> QED
  BY <1>1, <1>2, <1>4, <1>7, <1>8, <1>11, <1>12, StepOf DEF RowInv

\* What is printed are the rows read, of this query alone unless another overlapped it.
LEMMA AnswerKeeps == ASSUME QueryInv, NEW q \in Queries, Answer(q) PROVE QueryInv'
<1> DEFINE rows == query[q].rows
           throws == \E row \in rows : Verdict(query[q].rest, row) = "throws"
           fails == [query[q] EXCEPT !.rows = {}, !.pc = "failed"]
           prints == m_row_nodes \cup Kept(query[q].rest, rows)
           ends == [query[q] EXCEPT !.rows = {}, !.printed = prints, !.pc = "done"]
<1>1. query[q].pc = "rows" /\ UNCHANGED <<shards, files, torn, overlapped>>
  BY DEF Answer
<1>2. DOMAIN query[q] = DOMAIN Asked /\ RowInv(q)
  BY DEF QueryInv, QueryShape
<1>3. files' = files /\ Days' = Days
  BY <1>1 DEF Days, ShardOf
<1>4. CASE throws
  <2>1. query' = [query EXCEPT ![q] = fails] /\ m_row_nodes' = m_row_nodes
    BY <1>4 DEF Answer
  <2>2. /\ DOMAIN fails = DOMAIN Asked /\ fails.pc = "failed" /\ fails.index = query[q].index
        /\ fails.todo = query[q].todo
    BY <1>2, AskedFields
  <2> HIDE DEF fails
  <2> QED
    BY <1>1, <1>2, <2>1, <2>2, MovesOn DEF RowInv, LoadInv
<1>5. CASE ~throws
  <2>1. query' = [query EXCEPT ![q] = ends] /\ m_row_nodes' = prints
    BY <1>5 DEF Answer
  <2>2. /\ DOMAIN ends = DOMAIN Asked /\ ends.pc = "done" /\ ends.index = query[q].index
        /\ ends.todo = query[q].todo /\ ends.printed = prints /\ ends.rest = query[q].rest
        /\ ends.indexedThen = query[q].indexedThen /\ ends.tags = query[q].tags
    BY <1>2, AskedFields
  <2> HIDE DEF ends
  <2>3. query'[q] = ends
    BY <2>1 DEF QueryInv, QueryShape
  <2>4. LoadInv(q)'
    BY <1>2, <1>3, <2>2, <2>3 DEF RowInv, LoadInv, OnDisk
  <2>5. LookupInv(q)'
    BY <2>2, <2>3 DEF LookupInv
  <2>6. ASSUME q \notin torn, q \notin overlapped, NEW row \in prints
        PROVE  Verdict(query[q].rest, row) = "yes" /\ Backed(q, row)
    <3>1. m_row_nodes = {}
      BY <1>1, <2>6 DEF QueryInv, AloneInv
    <3>2. row \in rows /\ Verdict(query[q].rest, row) = "yes"
      BY <2>6, <3>1 DEF Kept
    <3> QED
      BY <1>1, <1>2, <2>6, <3>2 DEF RowInv, RowsInv
  <2>7. \A row : Backed(q, row) => Backed(q, row)'
    BY <1>3, <2>2, <2>3, SameGrow, StaysGiven
  <2>8. RowsInv(q)'
    <3>1. PICK all : all = prints
      OBVIOUS
    <3>2. query'[q].printed = all /\ query'[q].pc = "done" /\ query'[q].rest = query[q].rest
      BY <2>2, <2>3, <3>1
    <3>3. q \notin torn /\ q \notin overlapped =>
            \A row \in all : Verdict(query[q].rest, row) = "yes" /\ Backed(q, row)'
      BY <2>6, <2>7, <3>1
    <3> QED
      BY <1>1, <3>2, <3>3 DEF RowsInv, Sound
  <2>9. AloneInv'
    BY <1>1, <2>1, <2>2, StaysAlone
  <2> QED
    BY <1>1, <2>1, <2>2, <2>4, <2>5, <2>8, <2>9, StepOf DEF RowInv
<1> QED
  BY <1>4, <1>5

\* The series and the files may change while queries run.
LEMMA IndexAndFilesKeep ==
  ASSUME QueryInv,
         \/ \E s \in Series : BeginIndex(s)
         \/ EndIndex
         \/ \E shard \in Days : AddShard(shard) \/ CreateFile(shard)
         \/ \E s \in Series, x \in Fields, shard \in Days : WriteIndex(s, x, shard)
  PROVE  QueryInv'
<1>1. UNCHANGED <<query, m_row_nodes, overlapped>> /\ torn \subseteq torn'
  BY DEF BeginIndex, EndIndex, AddShard, CreateFile, WriteIndex
<1>2. FilesInv
  BY DEF QueryInv
<1>3. ASSUME UNCHANGED files, \/ UNCHANGED shards
                              \/ \E shard \in Days : shards' = shards \cup {shard}
      PROVE  FilesInv' /\ Grows
  BY <1>2, <1>3, SameGrow DEF FilesInv
<1>4. FilesInv' /\ Grows
  <2>1. CASE \E s \in Series : BeginIndex(s)
    BY <1>3, <2>1 DEF BeginIndex
  <2>2. CASE EndIndex
    BY <1>3, <2>2 DEF EndIndex
  <2>3. CASE \E shard \in Days : AddShard(shard)
    BY <1>3, <2>3 DEF AddShard
  <2>4. CASE \E shard \in Days : CreateFile(shard)
    BY <1>2, <2>4, CreateFileKeeps
  <2>5. CASE \E s \in Series, x \in Fields, shard \in Days : WriteIndex(s, x, shard)
    BY <1>2, <2>5, WriteIndexKeeps
  <2> QED
    BY <2>1, <2>2, <2>3, <2>4, <2>5
<1> QED
  BY <1>1, <1>4, OtherSteps

\* At first nothing is loaded, read or printed.
LEMMA QueryInvBegins == Init => QueryInv
<1> SUFFICES ASSUME Init PROVE QueryInv
  OBVIOUS
<1>1. \A q \in Queries : query[q] = Asked
  BY DEF Init
<1>2. FilesInv
  BY QueryAssumption DEF Init, FilesInv
<1>3. /\ Asked.pc = "idle" /\ Asked.todo = {} /\ DOMAIN Asked.index = {}
  BY DEF Asked
<1>4. QueryShape /\ AloneInv
  BY <1>1, <1>3 DEF Init, QueryShape, AloneInv
<1>5. \A q \in Queries : RowInv(q)
  BY <1>1, <1>3 DEF RowInv, LoadInv, LookupInv, RowsInv, Sound
<1> QED
  BY <1>2, <1>4, <1>5 DEF QueryInv

\* Every step keeps the invariant.
LEMMA QueryInvKept == QueryInv /\ [Next]_vars => QueryInv'
<1> SUFFICES ASSUME QueryInv, [Next]_vars PROVE QueryInv'
  OBVIOUS
<1>1. CASE UNCHANGED vars
  <2>1. /\ UNCHANGED <<shards, files, query, m_row_nodes, overlapped, torn>>
        /\ Grows
    BY <1>1, SameGrow DEF vars
  <2>2. FilesInv'
    BY <2>1 DEF QueryInv, FilesInv
  <2> QED
    BY <2>1, <2>2, OtherSteps
<1>2. CASE \E q \in Queries : (\E tree \in Trees : Ask(q, tree)) \/ QueryStep(q)
  BY <1>2, AskKeeps, FilterShardsKeeps, BeginLookupKeeps, EndLookupKeeps, BeginBuildKeeps,
     LoadShardKeeps, LoadStopsKeeps, EndBuildKeeps, ReadShardKeeps, AnswerKeeps DEF QueryStep
<1> QED
  BY <1>1, <1>2, IndexAndFilesKeep DEF Next

\* What queries load, look up, read and print is backed by what was flushed.
THEOREM QueryInvariant == Spec => []QueryInv
BY QueryInvBegins, QueryInvKept, PTL DEF Spec

\* RowsWereFlushed: every value a query prints, disturbed and misled ones apart, is a point's
\* of the field and time, flushed under the label of a series with the tags, and its row
\* passes the condition, for any number of queries, series, points, files and conditions.
THEOREM AnswersWereFlushed == Spec => []RowsWereFlushed
<1>1. QueryInv => RowsWereFlushed
  BY DEF QueryInv, RowInv, RowsInv, Backed, RowsWereFlushed
<1> QED
  BY <1>1, QueryInvariant, PTL

-----------------------------------------------------------------------------
(* conditions *)

\* The nodes of a tree are numbered, each after its sides.
LEMMA TreeShape ==
  ASSUME NEW tree, IsTree(tree)
  PROVE  /\ Len(tree.node) \in Nat /\ DOMAIN tree.node = 1..Len(tree.node)
         /\ tree.root \in 0..Len(tree.node)
         /\ \A n \in 1..Len(tree.node) : tree.node[n].op \in Logical =>
              tree.node[n].left \in 0..n - 1 /\ tree.node[n].right \in 0..n - 1
<1>1. tree.node \in Seq(Range(tree.node)) /\ tree.root \in 0..Len(tree.node)
  BY DEF IsTree
<1>2. Len(tree.node) \in Nat /\ DOMAIN tree.node = 1..Len(tree.node)
  BY <1>1
<1>3. \A n \in DOMAIN tree.node : tree.node[n].op \in Logical =>
        {tree.node[n].left, tree.node[n].right} \subseteq 0..n - 1
  BY DEF IsTree
<1> QED
  BY <1>1, <1>2, <1>3

\* The nodes of a condition: the root, and the sides of those it has.
LEMMA PartsAre ==
  ASSUME NEW tree, IsTree(tree)
  PROVE  /\ Parts(tree) \subseteq 1..Len(tree.node)
         /\ tree.root \in Parts(tree) \cup {0}
         /\ \A n \in Parts(tree) : tree.node[n].op \in Logical =>
              tree.node[n].left \in Parts(tree) \cup {0} /\ tree.node[n].right \in Parts(tree) \cup {0}
         /\ \A S \in SUBSET (1..Len(tree.node)) :
              /\ tree.root \in S \cup {0}
              /\ \A n \in S : tree.node[n].op \in Logical =>
                   tree.node[n].left \in S \cup {0} /\ tree.node[n].right \in S \cup {0}
              => Parts(tree) \subseteq S
<1> DEFINE N == 1..Len(tree.node)
           Closed(S) == \A n \in S : tree.node[n].op \in Logical =>
                          {tree.node[n].left, tree.node[n].right} \subseteq S \cup {0}
           Begun(S) == tree.root \in S \cup {0}
<1>1. Parts(tree) = {n \in N : \A S \in SUBSET N : Begun(S) /\ Closed(S) => n \in S}
  BY TreeShape DEF Parts
<1>2. \A n \in N : tree.node[n].op \in Logical =>
        tree.node[n].left \in N \cup {0} /\ tree.node[n].right \in N \cup {0}
  BY TreeShape
<1>3. tree.root \in N \cup {0}
  BY TreeShape
<1>4. ASSUME NEW n \in Parts(tree), tree.node[n].op \in Logical, NEW m \in N,
             m \in {tree.node[n].left, tree.node[n].right}
      PROVE  m \in Parts(tree)
  <2>1. ASSUME NEW S \in SUBSET N, Begun(S), Closed(S) PROVE m \in S
    <3>1. n \in S
      BY <1>1, <2>1
    <3>2. m \in S \cup {0} /\ m # 0
      BY <1>4, <2>1, <3>1
    <3> QED
      BY <3>2
  <2> QED
    BY <1>1, <2>1
<1>5. \A S \in SUBSET N : Begun(S) /\ Closed(S) => Parts(tree) \subseteq S
  BY <1>1
<1>6. tree.root # 0 => tree.root \in Parts(tree)
  BY <1>1, <1>3
<1>7. Parts(tree) \subseteq N
  BY <1>1
<1> HIDE DEF N
<1>8. ASSUME NEW n \in Parts(tree), tree.node[n].op \in Logical
      PROVE  tree.node[n].left \in Parts(tree) \cup {0} /\ tree.node[n].right \in Parts(tree) \cup {0}
  BY <1>2, <1>4, <1>7, <1>8
<1> QED
  BY <1>5, <1>6, <1>7, <1>8 DEF N

\* Induction over the nodes of a condition.
LEMMA ByParts ==
  ASSUME NEW tree, IsTree(tree), NEW S, 0 \in S,
         \A n \in Parts(tree) :
           (tree.node[n].op \in Logical => tree.node[n].left \in S /\ tree.node[n].right \in S)
           => n \in S
  PROVE  tree.root \in S
<1> DEFINE T == {k \in Nat : \A n \in Parts(tree) : n <= k => n \in S}
<1>1. Parts(tree) \subseteq 1..Len(tree.node) /\ Len(tree.node) \in Nat
  BY PartsAre, TreeShape
<1>2. 0 \in T
  BY <1>1
<1>3. ASSUME NEW k \in Nat, k \in T PROVE k + 1 \in T
  <2>1. ASSUME NEW n \in Parts(tree), n = k + 1 PROVE n \in S
    <3>1. tree.node[n].op \in Logical => tree.node[n].left \in S /\ tree.node[n].right \in S
      <4>1. ASSUME tree.node[n].op \in Logical, NEW m \in Parts(tree) \cup {0}, m \in 0..n - 1
            PROVE  m \in S
        BY <1>1, <1>3, <2>1, <4>1
      <4>2. n \in 1..Len(tree.node)
        BY <1>1
      <4> QED
        BY <4>1, <4>2, PartsAre, TreeShape
    <3> QED
      BY <3>1
  <2> QED
    BY <1>1, <1>3, <2>1
<1>4. Nat \subseteq T
  BY <1>2, <1>3, Counting
<1>5. Parts(tree) \subseteq S
  BY <1>1, <1>4
<1> QED
  BY <1>5, PartsAre

\* What is left of node n, from what is left of its sides.
KeptAt(tree, kept, n) ==
  IF n = 0 THEN 0
  ELSE LET node == tree.node[n] IN
       IF IsTag(node) THEN 0
       ELSE IF node.op \notin Logical THEN n
       ELSE IF kept[node.left] = 0 THEN kept[node.right]
       ELSE IF kept[node.right] = 0 THEN kept[node.left]
       ELSE n

\* Does a shard satisfy node n, from whether it does its sides?
HoldsAt(tree, shard, holds, n) ==
  \/ n = 0
  \/ LET node == tree.node[n] IN
     \/ node.op \in Comparisons /\ EvaluateShard(node, shard)
     \/ node.op = "and" /\ holds[node.left] /\ holds[node.right]
     \/ node.op = "or" /\ (holds[node.left] \/ holds[node.right])

\* What node n says of a row, from what its sides say.
VerdictAt(tree, row, verdict, n) ==
  IF n = 0 THEN "yes"
  ELSE LET node == tree.node[n]
           Answer_(b) == IF b THEN "yes" ELSE "no" IN
       CASE node.op = "and" ->
              IF verdict[node.left] = "yes" THEN verdict[node.right] ELSE verdict[node.left]
         [] node.op = "or" ->
              IF verdict[node.left] = "no" THEN verdict[node.right] ELSE verdict[node.left]
         [] node.op \notin Logical /\ node.name = "time" ->
              IF node.op \in Comparisons THEN Answer_(Compare(node.op, row.time, node.value))
              ELSE "throws"
         [] OTHER ->
              Answer_(/\ node.name \in DOMAIN row.columns
                      /\ Compare(node.op, row.columns[node.name], node.value))

\* The recursion of rebuild_tree_without_tags has a solution.
LEMMA KeptExists ==
  ASSUME NEW tree, IsTree(tree)
  PROVE  \E f : f = [n \in 0..Len(tree.node) |-> KeptAt(tree, f, n)]
<1> DEFINE Sol(f, k) == f = [n \in 0..k |-> KeptAt(tree, f, n)]
           S == {k \in Nat : k <= Len(tree.node) => \E f : Sol(f, k)}
<1>1. 0 \in S
  <2> DEFINE f == [n \in 0..0 |-> 0]
  <2>1. f = [n \in 0..0 |-> KeptAt(tree, f, n)]
    <3>1. \A n \in 0..0 : KeptAt(tree, f, n) = 0
      BY DEF KeptAt
    <3> QED
      BY <3>1
  <2>2. Sol(f, 0)
    BY <2>1
  <2> QED
    BY <2>2
<1>2. ASSUME NEW k \in Nat, k \in S PROVE k + 1 \in S
  <2>1. SUFFICES ASSUME k + 1 <= Len(tree.node) PROVE \E f : Sol(f, k + 1)
    OBVIOUS
  <2>2. PICK f : Sol(f, k)
    BY <1>2, <2>1, TreeShape
  <2> DEFINE g == [n \in 0..k + 1 |-> KeptAt(tree, f, n)]
  <2>3. \A n \in 0..k : g[n] = f[n]
    BY <2>2
  <2>4. ASSUME NEW n \in 0..k + 1 PROVE KeptAt(tree, f, n) = KeptAt(tree, g, n)
    <3>1. CASE n = 0
      BY <3>1 DEF KeptAt
    <3>2. CASE n # 0
      <4>1. n \in 1..Len(tree.node)
        BY <2>1, <3>2, TreeShape
      <4>2. tree.node[n].op \in Logical => tree.node[n].left \in 0..k /\ tree.node[n].right \in 0..k
        BY <4>1, TreeShape
      <4>3. tree.node[n].op \in Logical =>
              f[tree.node[n].left] = g[tree.node[n].left] /\ f[tree.node[n].right] = g[tree.node[n].right]
        BY <2>3, <4>2
      <4> HIDE DEF g
      <4> QED
        BY <4>3 DEF KeptAt
    <3> QED
      BY <3>1, <3>2
  <2> HIDE DEF g
  <2>5. g = [n \in 0..k + 1 |-> KeptAt(tree, g, n)]
    BY <2>4 DEF g
  <2>6. Sol(g, k + 1)
    BY <2>5
  <2> QED
    BY <2>6
<1> HIDE DEF S
<1>3. Len(tree.node) \in S
  <2>1. Nat \subseteq S
    BY <1>1, <1>2, Counting
  <2> QED
    BY <2>1, TreeShape
<1> QED
  BY <1>3, TreeShape DEF S

\* The recursion of evaluate_condition has a solution.
LEMMA HoldsExists ==
  ASSUME NEW tree, IsTree(tree), NEW shard
  PROVE  \E f : f = [n \in 0..Len(tree.node) |-> HoldsAt(tree, shard, f, n)]
<1> DEFINE Sol(f, k) == f = [n \in 0..k |-> HoldsAt(tree, shard, f, n)]
           S == {k \in Nat : k <= Len(tree.node) => \E f : Sol(f, k)}
<1>1. 0 \in S
  <2> DEFINE f == [n \in 0..0 |-> TRUE]
  <2>1. f = [n \in 0..0 |-> HoldsAt(tree, shard, f, n)]
    <3>1. \A n \in 0..0 : HoldsAt(tree, shard, f, n) = TRUE
      BY DEF HoldsAt
    <3> QED
      BY <3>1
  <2>2. Sol(f, 0)
    BY <2>1
  <2> QED
    BY <2>2
<1>2. ASSUME NEW k \in Nat, k \in S PROVE k + 1 \in S
  <2>1. SUFFICES ASSUME k + 1 <= Len(tree.node) PROVE \E f : Sol(f, k + 1)
    OBVIOUS
  <2>2. PICK f : Sol(f, k)
    BY <1>2, <2>1, TreeShape
  <2> DEFINE g == [n \in 0..k + 1 |-> HoldsAt(tree, shard, f, n)]
  <2>3. \A n \in 0..k : g[n] = f[n]
    BY <2>2
  <2>4. ASSUME NEW n \in 0..k + 1 PROVE HoldsAt(tree, shard, f, n) = HoldsAt(tree, shard, g, n)
    <3>1. CASE n = 0
      BY <3>1 DEF HoldsAt
    <3>2. CASE n # 0
      <4>1. n \in 1..Len(tree.node)
        BY <2>1, <3>2, TreeShape
      <4>2. tree.node[n].op \in Logical => tree.node[n].left \in 0..k /\ tree.node[n].right \in 0..k
        BY <4>1, TreeShape
      <4>3. tree.node[n].op \in Logical =>
              f[tree.node[n].left] = g[tree.node[n].left] /\ f[tree.node[n].right] = g[tree.node[n].right]
        BY <2>3, <4>2
      <4> HIDE DEF g
      <4> QED
        BY <4>3 DEF HoldsAt, Logical
    <3> QED
      BY <3>1, <3>2
  <2> HIDE DEF g
  <2>5. g = [n \in 0..k + 1 |-> HoldsAt(tree, shard, g, n)]
    BY <2>4 DEF g
  <2>6. Sol(g, k + 1)
    BY <2>5
  <2> QED
    BY <2>6
<1> HIDE DEF S
<1>3. Len(tree.node) \in S
  <2>1. Nat \subseteq S
    BY <1>1, <1>2, Counting
  <2> QED
    BY <2>1, TreeShape
<1> QED
  BY <1>3, TreeShape DEF S

\* The recursion of evaluate_expr_node_for_row has a solution.
LEMMA VerdictExists ==
  ASSUME NEW tree, IsTree(tree), NEW row
  PROVE  \E f : f = [n \in 0..Len(tree.node) |-> VerdictAt(tree, row, f, n)]
<1> DEFINE Sol(f, k) == f = [n \in 0..k |-> VerdictAt(tree, row, f, n)]
           S == {k \in Nat : k <= Len(tree.node) => \E f : Sol(f, k)}
<1>1. 0 \in S
  <2> DEFINE f == [n \in 0..0 |-> "yes"]
  <2>1. f = [n \in 0..0 |-> VerdictAt(tree, row, f, n)]
    <3>1. \A n \in 0..0 : VerdictAt(tree, row, f, n) = "yes"
      BY DEF VerdictAt
    <3> QED
      BY <3>1
  <2>2. Sol(f, 0)
    BY <2>1
  <2> QED
    BY <2>2
<1>2. ASSUME NEW k \in Nat, k \in S PROVE k + 1 \in S
  <2>1. SUFFICES ASSUME k + 1 <= Len(tree.node) PROVE \E f : Sol(f, k + 1)
    OBVIOUS
  <2>2. PICK f : Sol(f, k)
    BY <1>2, <2>1, TreeShape
  <2> DEFINE g == [n \in 0..k + 1 |-> VerdictAt(tree, row, f, n)]
  <2>3. \A n \in 0..k : g[n] = f[n]
    BY <2>2
  <2>4. ASSUME NEW n \in 0..k + 1 PROVE VerdictAt(tree, row, f, n) = VerdictAt(tree, row, g, n)
    <3>1. CASE n = 0
      BY <3>1 DEF VerdictAt
    <3>2. CASE n # 0
      <4>1. n \in 1..Len(tree.node)
        BY <2>1, <3>2, TreeShape
      <4>2. tree.node[n].op \in Logical => tree.node[n].left \in 0..k /\ tree.node[n].right \in 0..k
        BY <4>1, TreeShape
      <4>3. tree.node[n].op \in Logical =>
              f[tree.node[n].left] = g[tree.node[n].left] /\ f[tree.node[n].right] = g[tree.node[n].right]
        BY <2>3, <4>2
      <4> HIDE DEF g
      <4> QED
        BY <4>3 DEF VerdictAt, Logical
    <3> QED
      BY <3>1, <3>2
  <2> HIDE DEF g
  <2>5. g = [n \in 0..k + 1 |-> VerdictAt(tree, row, g, n)]
    BY <2>4 DEF g
  <2>6. Sol(g, k + 1)
    BY <2>5
  <2> QED
    BY <2>6
<1> HIDE DEF S
<1>3. Len(tree.node) \in S
  <2>1. Nat \subseteq S
    BY <1>1, <1>2, Counting
  <2> QED
    BY <2>1, TreeShape
<1> QED
  BY <1>3, TreeShape DEF S

\* What is left of a tree is a tree.
LEMMA WithoutIsTree ==
  ASSUME NEW tree, IsTree(tree)
  PROVE  IsTree(Without(tree))
<1> DEFINE Sol(f) == f = [n \in 0..Len(tree.node) |-> KeptAt(tree, f, n)]
           kept == CHOOSE f : Sol(f)
           Left(node) == IF node.op \in Logical
                         THEN [node EXCEPT !.left = kept[@], !.right = kept[@]] ELSE node
           N == Len(tree.node)
<1>1. Sol(kept)
  <2>1. \E f : Sol(f)
    BY KeptExists
  <2> HIDE DEF Sol
  <2> QED
    BY <2>1, Zenon
<1>2. Without(tree) = [node |-> [n \in DOMAIN tree.node |-> Left(tree.node[n])],
                       root |-> kept[tree.root]]
  BY DEF Without, KeptAt
<1> HIDE DEF kept
<1> DEFINE low == {k \in Nat : \A n \in 0..N : n <= k => kept[n] \in 0..n}
<1>3. \A n \in 0..N : kept[n] = KeptAt(tree, kept, n)
  BY <1>1
<1> HIDE DEF Sol
<1>4. 0 \in low
  BY <1>3, TreeShape DEF KeptAt
<1>5. ASSUME NEW k \in Nat, k \in low PROVE k + 1 \in low
  <2>1. ASSUME NEW n \in 0..N, n = k + 1 PROVE kept[n] \in 0..n
    <3>1. n \in 1..N /\ n # 0
      BY <2>1, TreeShape
    <3>2. CASE tree.node[n].op \in Logical
      <4>1. tree.node[n].left \in 0..k /\ tree.node[n].right \in 0..k
        BY <2>1, <3>1, <3>2, TreeShape
      <4>2. kept[tree.node[n].left] \in 0..n /\ kept[tree.node[n].right] \in 0..n
        BY <1>5, <2>1, <4>1, TreeShape
      <4> QED
        BY <1>3, <3>1, <4>2 DEF KeptAt
    <3>3. CASE tree.node[n].op \notin Logical
      BY <1>3, <3>1, <3>3 DEF KeptAt
    <3> QED
      BY <3>2, <3>3
  <2> QED
    BY <1>5, <2>1, TreeShape
<1>6. \A n \in 0..N : kept[n] \in 0..n
  <2>1. Nat \subseteq low
    BY <1>4, <1>5, Counting
  <2> QED
    BY <2>1, TreeShape
<1>7. N \in Nat /\ DOMAIN tree.node = 1..N
  BY TreeShape
<1> DEFINE rest == Without(tree)
<1>8. PICK nodes : nodes = [n \in 1..N |-> Left(tree.node[n])]
  OBVIOUS
<1>11. rest = [node |-> nodes, root |-> kept[tree.root]]
  BY <1>2, <1>7, <1>8
<1>12. DOMAIN nodes = 1..N /\ \A n \in 1..N : nodes[n] = Left(tree.node[n])
  BY <1>8
<1>13. rest.node = nodes /\ rest.root = kept[tree.root]
  BY <1>11
<1> HIDE DEF rest
<1>14. nodes \in Seq(Range(nodes)) /\ Len(nodes) = N
  <2>1. \A n \in 1..N : nodes[n] \in Range(nodes)
    BY <1>12 DEF Range
  <2>2. nodes \in [1..N -> Range(nodes)]
    <3> HIDE DEF Left
    <3> QED
      BY <1>8, <2>1
  <2> QED
    BY <1>7, <2>2
<1>9. rest.root \in 0..N
  <2>1. tree.root \in 0..N
    BY TreeShape
  <2>2. kept[tree.root] \in 0..tree.root
    BY <1>6, <2>1
  <2> QED
    BY <1>7, <1>13, <2>1, <2>2
<1>10. ASSUME NEW n \in 1..N
       PROVE  /\ DOMAIN rest.node[n] = {"op", "name", "value", "left", "right"}
              /\ rest.node[n].op \in Logical => {rest.node[n].left, rest.node[n].right} \subseteq 0..n - 1
              /\ rest.node[n].name = "time" => rest.node[n].value \in Nat
  <2> DEFINE node == tree.node[n]
  <2>1. /\ DOMAIN node = {"op", "name", "value", "left", "right"}
        /\ node.name = "time" => node.value \in Nat
    BY TreeShape DEF IsTree
  <2>2. CASE node.op \in Logical
    <3>1. node.left \in 0..n - 1 /\ node.right \in 0..n - 1
      BY <2>2, TreeShape
    <3>2. kept[node.left] \in 0..n - 1 /\ kept[node.right] \in 0..n - 1
      BY <1>6, <3>1, TreeShape
    <3>3. rest.node[n] = [node EXCEPT !.left = kept[node.left], !.right = kept[node.right]]
      BY <1>12, <1>13, <2>2
    <3> QED
      BY <2>1, <3>2, <3>3
  <2>3. CASE node.op \notin Logical
    BY <1>12, <1>13, <2>1, <2>3
  <2> QED
    BY <2>2, <2>3
<1> QED
  BY <1>9, <1>10, <1>12, <1>13, <1>14 DEF IsTree, rest

\* Whether a shard satisfies a comparison of the time is whether it has such a time.
LEMMA ShardIsJudged ==
  ASSUME NEW node, NEW shard \in Nat, node.name = "time", node.value \in Nat,
         node.op \in Comparisons \ {"!="}
  PROVE  EvaluateShard(node, shard) <=>
           \E t \in shard * Day..shard * Day + Day - 1 : Compare(node.op, t, node.value)
<1> DEFINE start == shard * Day
           v == node.value
<1>1. start \in Nat /\ Day \in Nat \ {0}
  BY QueryAssumption
<1> HIDE DEF start
<1>2. CASE node.op = ">"
  <2>1. EvaluateShard(node, shard) <=> v < start + Day - 1
    BY <1>2 DEF EvaluateShard, start
  <2>2. \A t : Compare(node.op, t, v) <=> t > v
    BY <1>2 DEF Compare
  <2>3. start + Day - 1 \in start..start + Day - 1
    BY <1>1
  <2> QED
    BY <1>1, <2>1, <2>2, <2>3 DEF start
<1>3. CASE node.op = "<"
  <2>1. EvaluateShard(node, shard) <=> v > start
    BY <1>3 DEF EvaluateShard, start
  <2>2. \A t : Compare(node.op, t, v) <=> t < v
    BY <1>3 DEF Compare
  <2>3. start \in start..start + Day - 1
    BY <1>1
  <2> QED
    BY <1>1, <2>1, <2>2, <2>3 DEF start
<1>4. CASE node.op = ">="
  <2>1. EvaluateShard(node, shard) <=> v <= start + Day - 1
    BY <1>4 DEF EvaluateShard, start
  <2>2. \A t : Compare(node.op, t, v) <=> t >= v
    BY <1>4 DEF Compare
  <2>3. start + Day - 1 \in start..start + Day - 1
    BY <1>1
  <2> QED
    BY <1>1, <2>1, <2>2, <2>3 DEF start
<1>5. CASE node.op = "<="
  <2>1. EvaluateShard(node, shard) <=> v >= start
    BY <1>5 DEF EvaluateShard, start
  <2>2. \A t : Compare(node.op, t, v) <=> t <= v
    BY <1>5 DEF Compare
  <2>3. start \in start..start + Day - 1
    BY <1>1
  <2> QED
    BY <1>1, <2>1, <2>2, <2>3 DEF start
<1>6. CASE node.op = "=="
  <2>1. EvaluateShard(node, shard) <=> start <= v /\ v <= start + Day - 1
    BY <1>6 DEF EvaluateShard, start
  <2>2. \A t : Compare(node.op, t, v) <=> t = v
    BY <1>6 DEF Compare
  <2> QED
    BY <1>1, <2>1, <2>2 DEF start
<1> QED
  BY <1>2, <1>3, <1>4, <1>5, <1>6 DEF Comparisons

\* evaluate_condition, of a tree of bounds: a shard satisfies it if it reaches each bound.
LEMMA ConditionIsReach ==
  ASSUME NEW tree, IsTree(tree), Bounds(tree), NEW shard \in Nat
  PROVE  Condition(tree, shard) <=> Reaches(tree, shard)
<1> DEFINE Sol(f) == f = [n \in 0..Len(tree.node) |-> HoldsAt(tree, shard, f, n)]
           holds == CHOOSE f : Sol(f)
           N == Len(tree.node)
           Reached(n) == \E t \in shard * Day..shard * Day + Day - 1 :
                           Compare(tree.node[n].op, t, tree.node[n].value)
<1>1. Sol(holds)
  <2>1. \E f : Sol(f)
    BY HoldsExists
  <2> HIDE DEF Sol
  <2> QED
    BY <2>1, Zenon
<1>2. Condition(tree, shard) = holds[tree.root]
  BY DEF Condition, HoldsAt
<1> HIDE DEF holds
<1>3. \A n \in 0..N : holds[n] = HoldsAt(tree, shard, holds, n)
  BY <1>1
<1> HIDE DEF Sol
<1>4. Parts(tree) \subseteq 1..N
  BY PartsAre
<1>5. ASSUME NEW n \in Parts(tree)
      PROVE  \/ /\ tree.node[n].op = "and"
                /\ holds[n] <=> holds[tree.node[n].left] /\ holds[tree.node[n].right]
             \/ /\ tree.node[n].op \in Comparisons
                /\ holds[n] <=> Reached(n)
  <2>1. n # 0 /\ n \in 0..N
    BY <1>4, TreeShape
  <2>2. holds[n] <=> HoldsAt(tree, shard, holds, n)
    BY <1>3, <2>1, Zenon
  <2>3. CASE tree.node[n].op = "and"
    <3>1. "and" \notin Comparisons
      BY DEF Comparisons
    <3> QED
      BY <2>1, <2>2, <2>3, <3>1 DEF HoldsAt
  <2>4. CASE tree.node[n].op \in Comparisons \ {"!="} /\ tree.node[n].name = "time"
    <3>1. tree.node[n].op \notin {"and", "or"}
      BY <2>4 DEF Comparisons
    <3>2. tree.node[n].value \in Nat
      BY <1>4, <2>4, TreeShape DEF IsTree
    <3>3. EvaluateShard(tree.node[n], shard) <=> Reached(n)
      BY <2>4, <3>2, ShardIsJudged
    <3> HIDE DEF Reached
    <3>4. holds[n] <=> EvaluateShard(tree.node[n], shard)
      BY <2>1, <2>2, <2>4, <3>1 DEF HoldsAt
    <3> QED
      BY <2>4, <3>3, <3>4
  <2> QED
    BY <2>3, <2>4 DEF Bounds
<1>6. holds[0]
  <2>1. HoldsAt(tree, shard, holds, 0) /\ 0 \in 0..N
    BY TreeShape DEF HoldsAt
  <2> QED
    BY <1>3, <2>1, Zenon
<1>7. Reaches(tree, shard) <=> \A n \in Parts(tree) : tree.node[n].op \in Comparisons => Reached(n)
  BY DEF Reaches
<1> HIDE DEF Reached
<1>8. ASSUME Reaches(tree, shard) PROVE holds[tree.root]
  <2> DEFINE S == {n \in 0..N : holds[n]}
  <2>1. 0 \in S
    BY <1>6, TreeShape
  <2>2. ASSUME NEW n \in Parts(tree),
               tree.node[n].op \in Logical => tree.node[n].left \in S /\ tree.node[n].right \in S
        PROVE  n \in S
    <3>1. n \in 0..N
      BY <1>4, TreeShape
    <3>2. tree.node[n].op = "and" => holds[tree.node[n].left] /\ holds[tree.node[n].right]
      BY <2>2 DEF Logical
    <3>3. holds[n]
      BY <1>5, <1>7, <1>8, <3>2
    <3> QED
      BY <3>1, <3>3
  <2> HIDE DEF S
  <2>3. tree.root \in S
    BY <2>1, <2>2, ByParts
  <2> QED
    BY <2>3 DEF S
<1>9. ASSUME holds[tree.root] PROVE Reaches(tree, shard)
  <2> DEFINE S == {n \in Parts(tree) : holds[n]}
  <2>1. tree.root \in S \cup {0}
    BY <1>9, PartsAre
  <2>2. ASSUME NEW n \in S, tree.node[n].op \in Logical
        PROVE  tree.node[n].left \in S \cup {0} /\ tree.node[n].right \in S \cup {0}
    <3>1. tree.node[n].op \notin Comparisons
      BY <2>2 DEF Logical, Comparisons
    <3>2. holds[tree.node[n].left] /\ holds[tree.node[n].right]
      BY <1>5, <3>1
    <3> QED
      BY <2>2, <3>2, PartsAre
  <2>3. S \in SUBSET (1..N)
    BY <1>4
  <2>4. Parts(tree) \subseteq S
    <3> HIDE DEF S
    <3> QED
      BY <2>1, <2>2, <2>3, PartsAre
  <2>5. ASSUME NEW n \in Parts(tree), tree.node[n].op \in Comparisons PROVE Reached(n)
    <3>1. holds[n] /\ tree.node[n].op # "and"
      BY <2>4, <2>5 DEF Comparisons
    <3> QED
      BY <1>5, <3>1
  <2> QED
    BY <1>7, <2>5
<1> QED
  BY <1>2, <1>8, <1>9

\* evaluate_expr_node_for_row, of a tree of bounds, looks at the time of a row only.
LEMMA VerdictIsOfTime ==
  ASSUME NEW tree, IsTree(tree), Bounds(tree), NEW row, NEW other, row.time = other.time
  PROVE  Verdict(tree, row) = Verdict(tree, other)
<1> DEFINE Sol(f, x) == f = [n \in 0..Len(tree.node) |-> VerdictAt(tree, x, f, n)]
           verdict == CHOOSE f : Sol(f, row)
           second == CHOOSE f : Sol(f, other)
           N == Len(tree.node)
<1>1. Sol(verdict, row) /\ Sol(second, other)
  <2>1. \A x : \E f : Sol(f, x)
    BY VerdictExists
  <2> HIDE DEF Sol
  <2> QED
    BY <2>1, Zenon
<1>2. Verdict(tree, row) = verdict[tree.root] /\ Verdict(tree, other) = second[tree.root]
  BY DEF Verdict, VerdictAt
<1> HIDE DEF verdict, second
<1>3. \A n \in 0..N : /\ verdict[n] = VerdictAt(tree, row, verdict, n)
                      /\ second[n] = VerdictAt(tree, other, second, n)
  BY <1>1
<1> HIDE DEF Sol
<1> DEFINE S == {n \in 0..N : verdict[n] = second[n]}
<1>4. 0 \in S
  BY <1>3, TreeShape DEF VerdictAt
<1>5. ASSUME NEW n \in Parts(tree),
             tree.node[n].op \in Logical => tree.node[n].left \in S /\ tree.node[n].right \in S
      PROVE  n \in S
  <2>1. n # 0 /\ n \in 0..N
    BY PartsAre, TreeShape
  <2>2. CASE tree.node[n].op = "and"
    <3>1. /\ verdict[tree.node[n].left] = second[tree.node[n].left]
          /\ verdict[tree.node[n].right] = second[tree.node[n].right]
      BY <1>5, <2>2 DEF Logical
    <3> QED
      BY <1>3, <2>1, <2>2, <3>1 DEF VerdictAt
  <2>3. CASE tree.node[n].op \in Comparisons /\ tree.node[n].name = "time"
    <3>1. tree.node[n].op \notin Logical
      BY <2>3 DEF Comparisons, Logical
    <3>2. /\ VerdictAt(tree, row, verdict, n) =
               IF Compare(tree.node[n].op, row.time, tree.node[n].value) THEN "yes" ELSE "no"
          /\ VerdictAt(tree, other, second, n) =
               IF Compare(tree.node[n].op, other.time, tree.node[n].value) THEN "yes" ELSE "no"
      BY <2>1, <2>3, <3>1 DEF VerdictAt, Logical
    <3> QED
      BY <1>3, <2>1, <3>2
  <2> QED
    BY <2>2, <2>3 DEF Bounds
<1> HIDE DEF S
<1>6. tree.root \in S
  BY <1>4, <1>5, ByParts
<1> QED
  BY <1>2, <1>6 DEF S

-----------------------------------------------------------------------------
(* the rows of a shard that can be read *)

\* Of two blocks of a set, the set has more than one.
LEMMA TwoAreMore ==
  ASSUME NEW S, IsFiniteSet(S), NEW a \in S, NEW b \in S, a # b
  PROVE  Cardinality(S) > 1
<1>1. IsFiniteSet({a, b}) /\ Cardinality({a, b}) = 2
  <2>1. IsFiniteSet({a}) /\ Cardinality({a}) = 1
    BY FS_Singleton
  <2>2. Cardinality({a} \cup {b}) = Cardinality({a}) + 1 /\ IsFiniteSet({a} \cup {b})
    BY <2>1, FS_AddElement
  <2>3. {a, b} = {a} \cup {b}
    OBVIOUS
  <2> QED
    BY <2>1, <2>2, <2>3
<1>2. Cardinality({a, b}) <= Cardinality(S)
  BY FS_Subset
<1> QED
  BY <1>1, <1>2, FS_CardinalityType

\* The blocks of a shard that a query is about.
AboutIn(index, asked) ==
  {b \in index : b.series \in asked.indexedThen /\ asked.tags \subseteq TagsOf[b.series]}

\* No iterator stalls on blocks that can be read: all a query is about are.
LEMMA AllAreRead ==
  ASSUME NEW q, NEW index, Loads(index), query[q].tags # {},
         query[q].series = {s \in query[q].indexedThen : query[q].tags # {} /\ query[q].tags \subseteq TagsOf[s]},
         Readable(AboutIn(index, query[q]))
  PROVE  ReadFor(q, index) = AboutIn(index, query[q])
<1> DEFINE blocks == AboutIn(index, query[q])
<1>1. \A b \in index : b \in blocks <=> b.series \in query[q].series
  BY DEF AboutIn
<1>2. blocks \subseteq index
  BY DEF AboutIn
<1> HIDE DEF blocks
<1>3. ASSUME NEW s \in query[q].series, NEW x PROVE ~Stalls(SeriesBlocks(index, s, x))
  <2> DEFINE all == SeriesBlocks(index, s, x)
  <2>1. all = {b \in blocks : b.series = s /\ b.field = x} /\ all \subseteq index
    BY <1>1, <1>2 DEF SeriesBlocks
  <2> HIDE DEF all
  <2>2. IsFiniteSet(all)
    BY <2>1, FS_Subset DEF Loads
  <2>3. ASSUME NEW b \in all, NEW a \in all, Precedes(a, b)
        PROVE  Cardinality(FirstBlock(a)) < Cardinality(all)
    <3>1. a # b
      BY <2>1, <2>3, Order
    <3>2. Cardinality(all) > 1
      BY <2>2, <3>1, TwoAreMore
    <3>3. SeriesBlocks(blocks, a.series, a.field) = all /\ a \in blocks
      BY <2>1 DEF SeriesBlocks
    <3>4. \A c \in blocks : Cardinality(SeriesBlocks(blocks, c.series, c.field)) > 1
            => Cardinality(FirstBlock(c)) < Cardinality(SeriesBlocks(blocks, c.series, c.field))
      BY DEF Readable, blocks
    <3> QED
      BY <3>2, <3>3, <3>4
  <2>4. BlocksRead(all) = all
    BY <2>3 DEF BlocksRead
  <2> QED
    BY <2>4 DEF Stalls, all
<1>4. \A b \in blocks : b \in ReadFor(q, index)
  <2> SUFFICES ASSUME NEW b \in blocks PROVE b \in ReadFor(q, index)
    OBVIOUS
  <2>1. b \in index /\ b.series \in query[q].series
    BY <1>1, <1>2
  <2>2. b.field \in Fields
    <3>1. [series |-> b.series, field |-> b.field, entries |-> b.entries] \in Metas
      BY <2>1 DEF Loads
    <3> QED
      BY <3>1 DEF Metas
  <2>3. b \in SeriesBlocks(index, b.series, b.field)
    BY <2>1 DEF SeriesBlocks
  <2>4. b \in BlocksRead(SeriesBlocks(index, b.series, b.field))
    BY <1>3, <2>1, <2>3 DEF Stalls
  <2> QED
    BY <1>3, <2>1, <2>2, <2>4 DEF ReadFor
<1>5. ReadFor(q, index) \subseteq blocks
  BY <1>1, ReadForIsPart
<1> QED
  BY <1>4, <1>5 DEF blocks

\* The points of blocks that can be read are those of their first data blocks.
LEMMA PointsAreFirst ==
  ASSUME NEW blocks, Loads(blocks), Readable(blocks), NEW p
  PROVE  p \in PointsIn(blocks) <=> \E b \in blocks : p \in FirstBlock(b)
<1>1. ASSUME NEW b \in blocks PROVE Range(b.entries) = {FirstBlock(b)}
  <2> DEFINE meta == [series |-> b.series, field |-> b.field, entries |-> b.entries]
  <2>1. meta \in Metas
    BY DEF Loads
  <2>2. meta.entries \in Seq(SUBSET Points)
    BY <2>1 DEF Metas
  <2>3. b.entries \in Seq(SUBSET Points)
    BY <2>2
  <2>4. Len(b.entries) = 1
    BY DEF Readable
  <2>5. DOMAIN b.entries = {1}
    BY <2>3, <2>4
  <2> QED
    BY <2>5 DEF Range, FirstBlock
<1>2. PointsIn(blocks) = UNION UNION {{FirstBlock(b)} : b \in blocks}
  BY <1>1 DEF PointsIn
<1> QED
  BY <1>2

\* The rows of blocks that can be read are their points, aligned.
LEMMA RowsAreAligned ==
  ASSUME NEW blocks, Loads(blocks), Readable(blocks)
  PROVE  RowsOf(blocks) = Aligned(PointsIn(blocks))
<1> DEFINE points == PointsIn(blocks)
           With(t) == {b.field : b \in {a \in blocks : t \in TimesOf(a)}}
           At(t) == {p \in points : p.time = t}
           Seen(t) == {p.field : p \in At(t)}
           Row(t) == [time |-> t, columns |-> [x \in With(t) |-> Column(blocks, x, t)]]
           Aligns(t) == [time |-> t,
                         columns |-> [x \in Seen(t) |-> (CHOOSE p \in At(t) : p.field = x).value]]
<1>1. \A p : p \in points <=> \E b \in blocks : p \in FirstBlock(b)
  BY PointsAreFirst
<1>2. \A b \in blocks : \A p \in FirstBlock(b) : p.field = b.field
  BY FirstIsEntry
<1>3. RowsOf(blocks) = {Row(t) : t \in UNION {TimesOf(b) : b \in blocks}}
  BY DEF RowsOf
<1>4. Aligned(points) = {Aligns(t) : t \in {p.time : p \in points}}
  BY DEF Aligned
<1>5. \A p, r \in points : p.time = r.time /\ p.field = r.field => p.value = r.value
  BY DEF Readable
<1> HIDE DEF points
<1>6. UNION {TimesOf(b) : b \in blocks} = {p.time : p \in points}
  BY <1>1 DEF TimesOf
<1>7. ASSUME NEW t PROVE Row(t) = Aligns(t)
  <2>1. With(t) = Seen(t)
    <3>1. \A b \in blocks : t \in TimesOf(b) <=> \E p \in FirstBlock(b) : p.time = t
      BY DEF TimesOf
    <3>2. \A x : x \in With(t) <=> \E b \in blocks : b.field = x /\ \E p \in FirstBlock(b) : p.time = t
      BY <3>1
    <3>3. \A x : x \in Seen(t) <=> \E p \in points : p.time = t /\ p.field = x
      OBVIOUS
    <3> HIDE DEF With, Seen
    <3>4. \A x : x \in With(t) <=> x \in Seen(t)
      BY <1>1, <1>2, <3>2, <3>3
    <3> QED
      BY <3>4
  <2>2. ASSUME NEW x \in With(t)
        PROVE  Column(blocks, x, t) = (CHOOSE p \in At(t) : p.field = x).value
    <3>1. PICK b \in blocks : b.field = x /\ t \in TimesOf(b)
      BY <2>2
    <3>2. PICK a \in blocks : \E p \in FirstBlock(a) :
                 a.field = x /\ p.time = t /\ Column(blocks, x, t) = p.value
      BY <3>1, ColumnIsRead
    <3>3. PICK p \in FirstBlock(a) : a.field = x /\ p.time = t /\ Column(blocks, x, t) = p.value
      BY <3>2
    <3>4. p \in points /\ p.field = x
      BY <1>1, <1>2, <3>3
    <3> DEFINE r == CHOOSE r \in At(t) : r.field = x
    <3>5. \E y \in At(t) : y.field = x
      BY <3>3, <3>4
    <3>6. r \in At(t) /\ r.field = x
      BY <3>5
    <3>7. r \in points /\ r.time = t
      BY <3>6
    <3> HIDE DEF r
    <3>8. p.value = r.value
      BY <1>5, <3>3, <3>4, <3>6, <3>7
    <3> QED
      BY <3>3, <3>8 DEF r
  <2> HIDE DEF With, Seen
  <2> QED
    BY <2>1, <2>2
<1> HIDE DEF Row, Aligns
<1>8. RowsOf(blocks) = Aligned(points)
  BY <1>3, <1>4, <1>6, <1>7
<1> QED
  BY <1>8 DEF points

\* The points a query wants, of those of some blocks.
WantedBy(asked, points) ==
  {p \in points : Verdict(asked.rest, [time |-> p.time, columns |-> <<>>]) = "yes"}

\* The rows that are kept are the points within the bounds, aligned.
LEMMA KeptAreWanted ==
  ASSUME NEW asked, IsTree(asked.rest), Bounds(asked.rest), NEW points
  PROVE  Kept(asked.rest, Aligned(points)) = Aligned(WantedBy(asked, points))
<1> DEFINE wanted == WantedBy(asked, points)
           Yes(t) == Verdict(asked.rest, [time |-> t, columns |-> <<>>]) = "yes"
           At(some, t) == {p \in some : p.time = t}
           Row(some, t) == [time |-> t, columns |-> [x \in {p.field : p \in At(some, t)} |->
                                  (CHOOSE p \in At(some, t) : p.field = x).value]]
<1>1. \A some : Aligned(some) = {Row(some, t) : t \in {p.time : p \in some}}
  BY DEF Aligned
<1>2. \A p : p \in wanted <=> p \in points /\ Yes(p.time)
  BY DEF WantedBy
<1> HIDE DEF wanted
<1>3. ASSUME NEW t PROVE Verdict(asked.rest, Row(points, t)) = "yes" <=> Yes(t)
  <2>1. \A some : Row(some, t).time = t
    OBVIOUS
  <2> HIDE DEF Row
  <2>2. [time |-> t, columns |-> <<>>].time = t
    OBVIOUS
  <2> QED
    BY <2>1, <2>2, VerdictIsOfTime
<1> HIDE DEF Yes
<1>4. ASSUME NEW t, Yes(t) PROVE Row(wanted, t) = Row(points, t)
  <2>1. At(wanted, t) = At(points, t)
    BY <1>2, <1>4
  <2> HIDE DEF At
  <2> QED
    BY <2>1
<1>5. \A t : t \in {p.time : p \in wanted} <=> t \in {p.time : p \in points} /\ Yes(t)
  BY <1>2
<1> HIDE DEF Row
<1>6. Kept(asked.rest, Aligned(points)) = {Row(points, t) : t \in {s \in {p.time : p \in points} : Yes(s)}}
  BY <1>1, <1>3 DEF Kept
<1>7. Aligned(wanted) = {Row(points, t) : t \in {s \in {p.time : p \in points} : Yes(s)}}
  BY <1>1, <1>4, <1>5
<1> QED
  BY <1>6, <1>7 DEF wanted

-----------------------------------------------------------------------------
(* a query by tags and times leaves nothing out *)

\* The blocks of the shard it reads.
Chosen(asked) == AboutIn(asked.index[Earliest(DOMAIN asked.index)], asked)

\* The shards its times reach are those it has loaded or has still to load.
KnowsShards(asked) ==
  /\ asked.pc \in {"idle", "filter"} => DOMAIN asked.index = {}
  /\ asked.pc \in {"read", "rows", "done"} => asked.todo = {}
  /\ asked.pc \in {"lookup", "looking", "build", "load", "read", "rows", "done"} /\ Bounds(asked.rest)
       => asked.reached = asked.todo \cup DOMAIN asked.index

\* What it has read is all there is.
ReadAll(asked) ==
  IF DOMAIN asked.index = {} THEN asked.rows = {}
  ELSE Readable(Chosen(asked)) => asked.rows = Aligned(PointsIn(Chosen(asked)))

\* What it has printed is all it asked for.
PrintedAll(asked) ==
  Bounds(asked.rest) =>
    IF DOMAIN asked.index = {} THEN asked.printed = {}
    ELSE Readable(Chosen(asked)) =>
           asked.printed = Aligned(WantedBy(asked, PointsIn(Chosen(asked))))

ExactOf(q) ==
  /\ IsTree(query[q].rest)
  /\ KnowsShards(query[q])
  /\ query[q].pc = "rows" /\ q \notin torn /\ query[q].tags # {} => ReadAll(query[q])
  /\ Sound(q) /\ query[q].tags # {} => PrintedAll(query[q])

ExactInv == \A q \in Queries : ExactOf(q)

\* A step of q keeps this if it does for q.
LEMMA ExactStep ==
  ASSUME QueryInv, ExactInv, NEW q \in Queries, NEW new, query' = [query EXCEPT ![q] = new],
         torn \subseteq torn', overlapped \subseteq overlapped',
         IsTree(new.rest), KnowsShards(new),
         new.pc = "rows" /\ q \notin torn' /\ new.tags # {} => ReadAll(new),
         new.pc = "done" /\ q \notin torn' /\ q \notin overlapped' /\ new.tags # {} => PrintedAll(new)
  PROVE  ExactInv'
<1>1. ASSUME NEW r \in Queries PROVE ExactOf(r)'
  <2>1. CASE r = q
    <3>1. query'[r] = new
      BY <2>1 DEF QueryInv, QueryShape
    <3> QED
      BY <2>1, <3>1 DEF ExactOf, Sound
  <2>2. CASE r # q
    <3>1. query'[r] = query[r]
      BY <2>2 DEF QueryInv, QueryShape
    <3> QED
      BY <3>1 DEF ExactInv, ExactOf, Sound
  <2> QED
    BY <2>1, <2>2
<1> QED
  BY <1>1 DEF ExactInv

\* A step that neither reads nor prints keeps it.
LEMMA ExactMovesOn ==
  ASSUME QueryInv, ExactInv, NEW q \in Queries, NEW new, query' = [query EXCEPT ![q] = new],
         torn \subseteq torn', overlapped \subseteq overlapped',
         new.rest = query[q].rest, new.pc \notin {"rows", "done"}, KnowsShards(new)
  PROVE  ExactInv'
<1>1. IsTree(query[q].rest)
  BY DEF ExactInv, ExactOf
<1> QED
  BY <1>1, ExactStep

\* A query asks with a tree.
LEMMA AskIsExact ==
  ASSUME QueryInv, ExactInv, NEW q \in Queries, NEW tree \in Trees, Ask(q, tree)
  PROVE  ExactInv'
<1> DEFINE new == [Asked EXCEPT !.pc = "filter", !.tree = tree,
                                !.rest = Without(tree), !.tags = TagsIn(tree)]
<1>1. query' = [query EXCEPT ![q] = new] /\ UNCHANGED <<torn, overlapped>>
  BY DEF Ask
<1>2. new.pc = "filter" /\ new.index = <<>> /\ new.rest = Without(tree)
  BY AskedFields DEF Asked
<1> HIDE DEF new
<1>3. IsTree(new.rest)
  BY <1>2, WithoutIsTree, QueryAssumption
<1>4. KnowsShards(new)
  <2>1. DOMAIN new.index = {}
    BY <1>2
  <2> QED
    BY <1>2, <2>1 DEF KnowsShards
<1> QED
  BY <1>1, <1>2, <1>3, <1>4, ExactStep

\* The shards that satisfy its bounds are those its times reach.
LEMMA FilterShardsIsExact ==
  ASSUME QueryInv, ExactInv, NEW q \in Queries, FilterShards(q)
  PROVE  ExactInv'
<1> DEFINE new == [query[q] EXCEPT !.todo = {s \in shards : Condition(query[q].rest, s)},
                                   !.reached = {s \in shards : Reaches(query[q].rest, s)},
                                   !.pc = "lookup"]
<1>1. query' = [query EXCEPT ![q] = new] /\ UNCHANGED <<torn, overlapped>> /\ query[q].pc = "filter"
  BY DEF FilterShards
<1>2. DOMAIN query[q] = DOMAIN Asked /\ shards \subseteq Nat
  BY DaysAreNat DEF QueryInv, QueryShape, FilesInv
<1>3. /\ new.pc = "lookup" /\ new.rest = query[q].rest /\ new.index = query[q].index
      /\ new.todo = {s \in shards : Condition(query[q].rest, s)}
      /\ new.reached = {s \in shards : Reaches(query[q].rest, s)}
  BY <1>2, AskedFields
<1> HIDE DEF new
<1>4. IsTree(query[q].rest) /\ DOMAIN query[q].index = {}
  BY <1>1 DEF ExactInv, ExactOf, KnowsShards
<1>5. Bounds(query[q].rest) => new.reached = new.todo
  BY <1>2, <1>3, <1>4, ConditionIsReach
<1>6. KnowsShards(new)
  BY <1>3, <1>4, <1>5 DEF KnowsShards
<1> QED
  BY <1>1, <1>3, <1>6, ExactMovesOn

\* Neither the lookup nor the start of the build changes what is to be loaded.
LEMMA LookupIsExact ==
  ASSUME QueryInv, ExactInv, NEW q \in Queries, BeginLookup(q) \/ EndLookup(q) \/ BeginBuild(q)
  PROVE  ExactInv'
<1>1. DOMAIN query[q] = DOMAIN Asked /\ KnowsShards(query[q])
  BY DEF QueryInv, QueryShape, ExactInv, ExactOf
<1>2. \E new : /\ query' = [query EXCEPT ![q] = new]
               /\ new.pc \in {"looking", "build", "load"} /\ new.rest = query[q].rest
               /\ new.todo = query[q].todo /\ new.reached = query[q].reached
               /\ new.index = query[q].index
  <2>1. CASE BeginLookup(q)
    <3> DEFINE new == [query[q] EXCEPT !.pc = "looking"]
    <3>1. query' = [query EXCEPT ![q] = new]
      BY <2>1 DEF BeginLookup
    <3>2. /\ new.pc = "looking" /\ new.rest = query[q].rest /\ new.todo = query[q].todo
          /\ new.reached = query[q].reached /\ new.index = query[q].index
      BY <1>1, AskedFields
    <3> QED
      BY <3>1, <3>2
  <2>2. CASE EndLookup(q)
    <3>0. PICK series \in SUBSET indexed :
            query' = [query EXCEPT ![q].series = series, ![q].pc = "build", ![q].indexedThen = indexed]
      BY <2>2 DEF EndLookup
    <3> DEFINE new == [query[q] EXCEPT !.series = series, !.pc = "build", !.indexedThen = indexed]
    <3>1. query' = [query EXCEPT ![q] = new]
      BY <3>0
    <3>2. /\ new.pc = "build" /\ new.rest = query[q].rest /\ new.todo = query[q].todo
          /\ new.reached = query[q].reached /\ new.index = query[q].index
      BY <1>1, AskedFields
    <3> QED
      BY <3>1, <3>2
  <2>3. CASE BeginBuild(q)
    <3> DEFINE new == [query[q] EXCEPT !.pc = "load"]
    <3>1. query' = [query EXCEPT ![q] = new]
      BY <2>3 DEF BeginBuild
    <3>2. /\ new.pc = "load" /\ new.rest = query[q].rest /\ new.todo = query[q].todo
          /\ new.reached = query[q].reached /\ new.index = query[q].index
      BY <1>1, AskedFields
    <3> QED
      BY <3>1, <3>2
  <2> QED
    BY <2>1, <2>2, <2>3
<1>3. PICK new : /\ query' = [query EXCEPT ![q] = new]
                 /\ new.pc \in {"looking", "build", "load"} /\ new.rest = query[q].rest
                 /\ new.todo = query[q].todo /\ new.reached = query[q].reached
                 /\ new.index = query[q].index
  BY <1>2
<1>4. query[q].pc \in {"lookup", "looking", "build"}
  BY DEF BeginLookup, EndLookup, BeginBuild
<1>5. KnowsShards(new)
  BY <1>1, <1>3, <1>4 DEF KnowsShards
<1>6. torn \subseteq torn' /\ overlapped' = overlapped
  BY DEF BeginLookup, EndLookup, BeginBuild
<1> QED
  BY <1>3, <1>5, <1>6, ExactMovesOn

\* A shard loaded leaves those to load.
LEMMA LoadShardIsExact ==
  ASSUME QueryInv, ExactInv, NEW q \in Queries, LoadShard(q)
  PROVE  ExactInv'
<1> DEFINE shard == Earliest(query[q].todo)
<1>1. PICK new, part : HasLoaded(q, new, part)
  BY LoadShardIs
<1>2. UNCHANGED <<torn, overlapped>> /\ query[q].pc = "load" /\ query[q].todo # {}
  BY DEF LoadShard
<1>3. shard \in query[q].todo
  BY <1>2, EarliestIn DEF QueryInv, RowInv, LoadInv
<1> HIDE DEF shard
<1>4. /\ query' = [query EXCEPT ![q] = new] /\ new.pc = "load" /\ new.rest = query[q].rest
      /\ new.todo = query[q].todo \ {shard} /\ new.reached = query[q].reached
      /\ DOMAIN new.index = DOMAIN query[q].index \cup {shard}
  BY <1>1 DEF HasLoaded, shard
<1>5. KnowsShards(query[q])
  BY DEF ExactInv, ExactOf
<1>6. KnowsShards(new)
  BY <1>2, <1>3, <1>4, <1>5 DEF KnowsShards
<1> QED
  BY <1>2, <1>4, <1>6, ExactMovesOn

\* A load that never ends leaves nothing to say.
LEMMA LoadStopsIsExact ==
  ASSUME QueryInv, ExactInv, NEW q \in Queries, LoadHangs(q) \/ LoadLoops(q)
  PROVE  ExactInv'
<1>0. PICK pc \in {"hung", "looping"} :
        query' = [query EXCEPT ![q].pc = pc] /\ UNCHANGED <<torn, overlapped>>
  BY DEF LoadHangs, LoadLoops
<1> DEFINE new == [query[q] EXCEPT !.pc = pc]
<1>1. query' = [query EXCEPT ![q] = new]
  BY <1>0
<1>2. DOMAIN query[q] = DOMAIN Asked
  BY DEF QueryInv, QueryShape
<1>3. new.pc \in {"hung", "looping"} /\ new.rest = query[q].rest
  BY <1>2, AskedFields
<1> HIDE DEF new
<1>4. KnowsShards(new)
  BY <1>3 DEF KnowsShards
<1> QED
  BY <1>0, <1>1, <1>3, <1>4, ExactMovesOn

\* When the iterators are built every shard is loaded.
LEMMA EndBuildIsExact ==
  ASSUME QueryInv, ExactInv, NEW q \in Queries, EndBuild(q)
  PROVE  ExactInv'
<1> DEFINE new == [query[q] EXCEPT !.pc = "read"]
<1>1. /\ query' = [query EXCEPT ![q] = new] /\ UNCHANGED <<torn, overlapped>>
      /\ query[q].pc = "load" /\ query[q].todo = {}
  BY DEF EndBuild
<1>2. DOMAIN query[q] = DOMAIN Asked /\ KnowsShards(query[q])
  BY DEF QueryInv, QueryShape, ExactInv, ExactOf
<1>3. /\ new.pc = "read" /\ new.rest = query[q].rest /\ new.todo = query[q].todo
      /\ new.reached = query[q].reached /\ new.index = query[q].index
  BY <1>2, AskedFields
<1> HIDE DEF new
<1>4. KnowsShards(new)
  BY <1>1, <1>2, <1>3 DEF KnowsShards
<1> QED
  BY <1>1, <1>3, <1>4, ExactMovesOn

\* The rows read of the first shard are all it has for the query.
LEMMA ReadShardIsExact ==
  ASSUME QueryInv, ExactInv, NEW q \in Queries, ReadShard(q)
  PROVE  ExactInv'
<1>0. PICK hangs \in BOOLEAN :
        query' = [query EXCEPT ![q].pc = IF hangs THEN "hung" ELSE "rows",
                               ![q].rows = IF hangs THEN {} ELSE RowsOf(FirstShard(q)),
                               ![q].used = {}, ![q].series = {}]
  <2> DEFINE hangs == ReadHangs(FirstShard(q), query[q].used)
  <2>1. hangs \in BOOLEAN
    BY DEF ReadHangs
  <2>2. query' = [query EXCEPT ![q].pc = IF hangs THEN "hung" ELSE "rows",
                               ![q].rows = IF hangs THEN {} ELSE RowsOf(FirstShard(q)),
                               ![q].used = {}, ![q].series = {}]
    BY DEF ReadShard
  <2> QED
    BY <2>1, <2>2
<1> DEFINE new == [query[q] EXCEPT !.pc = IF hangs THEN "hung" ELSE "rows",
                                   !.rows = IF hangs THEN {} ELSE RowsOf(FirstShard(q)),
                                   !.used = {}, !.series = {}]
<1>1. query' = [query EXCEPT ![q] = new] /\ query[q].pc = "read"
  <2>1. query[q].pc = "read"
    BY DEF ReadShard
  <2>2. query' = [query EXCEPT ![q] = new]
    BY <1>0
  <2> QED
    BY <2>1, <2>2
<1>2. torn' = torn /\ overlapped \subseteq overlapped'
  BY DEF ReadShard
<1>3. DOMAIN query[q] = DOMAIN Asked /\ RowInv(q) /\ IsTree(query[q].rest) /\ KnowsShards(query[q])
  BY DEF QueryInv, QueryShape, ExactInv, ExactOf
<1>4. /\ new.pc = (IF hangs THEN "hung" ELSE "rows") /\ new.rest = query[q].rest
      /\ new.index = query[q].index /\ new.todo = query[q].todo /\ new.reached = query[q].reached
      /\ new.rows = (IF hangs THEN {} ELSE RowsOf(FirstShard(q)))
      /\ new.indexedThen = query[q].indexedThen /\ new.tags = query[q].tags
  BY <1>3, AskedFields
<1> HIDE DEF new
<1>5. KnowsShards(new)
  BY <1>1, <1>3, <1>4 DEF KnowsShards
<1>6. ASSUME new.pc = "rows", q \notin torn, query[q].tags # {} PROVE ReadAll(new)
  <2>1. new.rows = RowsOf(FirstShard(q))
    BY <1>4, <1>6
  <2>2. CASE DOMAIN query[q].index = {}
    <3>1. RowsOf({}) = {}
      BY DEF RowsOf
    <3> QED
      BY <1>4, <2>1, <2>2, <3>1 DEF FirstShard, ReadAll
  <2>3. CASE DOMAIN query[q].index # {}
    <3> DEFINE s == Earliest(DOMAIN query[q].index)
               index == query[q].index[s]
    <3>1. s \in DOMAIN query[q].index
      BY <1>3, <2>3, EarliestIn DEF RowInv, LoadInv
    <3>2. Loads(index)
      BY <1>3, <3>1 DEF RowInv, LoadInv
    <3>3. FirstShard(q) = ReadFor(q, index)
      BY <2>3 DEF FirstShard
    <3>4. Chosen(new) = AboutIn(index, query[q])
      BY <1>4 DEF Chosen, AboutIn
    <3> HIDE DEF index
    <3>5. ASSUME Readable(AboutIn(index, query[q]))
          PROVE  RowsOf(ReadFor(q, index)) = Aligned(PointsIn(AboutIn(index, query[q])))
      <4>1. query[q].series =
              {r \in query[q].indexedThen : query[q].tags # {} /\ query[q].tags \subseteq TagsOf[r]}
        BY <1>1, <1>3, <1>6 DEF RowInv, LookupInv
      <4>2. ReadFor(q, index) = AboutIn(index, query[q])
        BY <1>6, <3>2, <3>5, <4>1, AllAreRead
      <4>3. Loads(AboutIn(index, query[q]))
        <5>1. AboutIn(index, query[q]) \subseteq index
          BY DEF AboutIn
        <5>2. IsFiniteSet(AboutIn(index, query[q]))
          BY <3>2, <5>1, FS_Subset DEF Loads
        <5> QED
          BY <3>2, <5>1, <5>2 DEF Loads
      <4> QED
        BY <3>5, <4>2, <4>3, RowsAreAligned
    <3> QED
      BY <1>4, <2>1, <2>3, <3>3, <3>4, <3>5 DEF ReadAll
  <2> QED
    BY <2>2, <2>3
<1>7. new.pc # "done"
  BY <1>4
<1> QED
  BY <1>1, <1>2, <1>3, <1>4, <1>5, <1>6, <1>7, ExactStep

\* What is printed of them is all the bounds ask for.
LEMMA AnswerIsExactly ==
  ASSUME QueryInv, ExactInv, NEW q \in Queries, Answer(q)
  PROVE  ExactInv'
<1> DEFINE rows == query[q].rows
           throws == \E row \in rows : Verdict(query[q].rest, row) = "throws"
           fails == [query[q] EXCEPT !.rows = {}, !.pc = "failed"]
           prints == m_row_nodes \cup Kept(query[q].rest, rows)
           ends == [query[q] EXCEPT !.rows = {}, !.printed = prints, !.pc = "done"]
<1>1. query[q].pc = "rows" /\ UNCHANGED <<torn, overlapped>>
  BY DEF Answer
<1>2. DOMAIN query[q] = DOMAIN Asked /\ ExactOf(q)
  BY DEF QueryInv, QueryShape, ExactInv
<1>3. CASE throws
  <2>1. query' = [query EXCEPT ![q] = fails]
    BY <1>3 DEF Answer
  <2>2. fails.pc = "failed" /\ fails.rest = query[q].rest
    BY <1>2, AskedFields
  <2> HIDE DEF fails
  <2>3. KnowsShards(fails)
    BY <2>2 DEF KnowsShards
  <2> QED
    BY <1>1, <2>1, <2>2, <2>3, ExactMovesOn
<1>4. CASE ~throws
  <2>1. query' = [query EXCEPT ![q] = ends]
    BY <1>4 DEF Answer
  <2>2. /\ ends.pc = "done" /\ ends.index = query[q].index /\ ends.todo = query[q].todo
        /\ ends.printed = prints /\ ends.rest = query[q].rest /\ ends.reached = query[q].reached
        /\ ends.indexedThen = query[q].indexedThen /\ ends.tags = query[q].tags
    BY <1>2, AskedFields
  <2> HIDE DEF ends
  <2>3. IsTree(ends.rest) /\ KnowsShards(ends)
    BY <1>1, <1>2, <2>2 DEF ExactOf, KnowsShards
  <2>4. ASSUME q \notin torn, q \notin overlapped, query[q].tags # {} PROVE PrintedAll(ends)
    <3>1. m_row_nodes = {}
      BY <1>1, <2>4 DEF QueryInv, AloneInv
    <3>2. ends.printed = Kept(query[q].rest, rows)
      BY <2>2, <3>1
    <3>3. ReadAll(query[q])
      BY <1>1, <1>2, <2>4 DEF ExactOf
    <3>4. Chosen(ends) = Chosen(query[q]) /\ \A points : WantedBy(ends, points) = WantedBy(query[q], points)
      BY <2>2 DEF Chosen, AboutIn, WantedBy
    <3>5. CASE DOMAIN query[q].index = {}
      <4>1. ends.printed = {}
        BY <3>2, <3>3, <3>5 DEF ReadAll, Kept
      <4> QED
        BY <2>2, <3>5, <4>1 DEF PrintedAll
    <3>6. CASE DOMAIN query[q].index # {}
      <4>1. ASSUME Bounds(query[q].rest), Readable(Chosen(query[q]))
            PROVE  ends.printed = Aligned(WantedBy(query[q], PointsIn(Chosen(query[q]))))
        <5>1. rows = Aligned(PointsIn(Chosen(query[q])))
          BY <3>3, <3>6, <4>1 DEF ReadAll
        <5>2. IsTree(query[q].rest)
          BY <1>2 DEF ExactOf
        <5> QED
          BY <3>2, <4>1, <5>1, <5>2, KeptAreWanted
      <4> QED
        BY <2>2, <3>4, <3>6, <4>1 DEF PrintedAll
    <3> QED
      BY <3>5, <3>6
  <2> QED
    BY <1>1, <2>1, <2>2, <2>3, <2>4, ExactStep
<1> QED
  BY <1>3, <1>4

\* At first nothing is asked.
LEMMA ExactInvBegins == Init => ExactInv
<1> SUFFICES ASSUME Init PROVE ExactInv
  OBVIOUS
<1>1. \A q \in Queries : query[q] = Asked
  BY DEF Init
<1>2. Asked.pc = "idle" /\ DOMAIN Asked.index = {} /\ Asked.rest = NoTree
  BY DEF Asked
<1>3. IsTree(NoTree)
  <2>1. NoTree.node = <<>> /\ NoTree.root = 0
    BY DEF NoTree
  <2>2. <<>> \in Seq(Range(<<>>)) /\ Len(<<>>) = 0 /\ DOMAIN <<>> = {}
    OBVIOUS
  <2> QED
    BY <2>1, <2>2 DEF IsTree
<1>4. KnowsShards(Asked)
  BY <1>2 DEF KnowsShards
<1> QED
  BY <1>1, <1>2, <1>3, <1>4 DEF ExactInv, ExactOf, Sound

\* Every step keeps it.
LEMMA ExactInvKept == QueryInv /\ ExactInv /\ [Next]_vars => ExactInv'
<1> SUFFICES ASSUME QueryInv, ExactInv, [Next]_vars PROVE ExactInv'
  OBVIOUS
<1>1. ASSUME UNCHANGED <<query, overlapped>>, torn \subseteq torn' PROVE ExactInv'
  BY <1>1 DEF ExactInv, ExactOf, Sound
<1>2. CASE UNCHANGED vars
  BY <1>1, <1>2 DEF vars
<1>3. CASE \/ \E s \in Series : BeginIndex(s)
           \/ EndIndex
           \/ \E shard \in Days : AddShard(shard) \/ CreateFile(shard)
           \/ \E s \in Series, x \in Fields, shard \in Days : WriteIndex(s, x, shard)
  <2>1. UNCHANGED <<query, overlapped>> /\ torn \subseteq torn'
    BY <1>3 DEF BeginIndex, EndIndex, AddShard, CreateFile, WriteIndex
  <2> QED
    BY <1>1, <2>1
<1>4. CASE \E q \in Queries : (\E tree \in Trees : Ask(q, tree)) \/ QueryStep(q)
  BY <1>4, AskIsExact, FilterShardsIsExact, LookupIsExact, LoadShardIsExact, LoadStopsIsExact,
     EndBuildIsExact, ReadShardIsExact, AnswerIsExactly DEF QueryStep
<1> QED
  BY <1>2, <1>3, <1>4 DEF Next

\* What a query by tags and times has loaded, read and printed leaves nothing out.
THEOREM ExactInvariant == Spec => []ExactInv
<1>1. QueryInv /\ ExactInv /\ [Next]_vars => ExactInv'
  BY ExactInvKept
<1> QED
  BY <1>1, ExactInvBegins, QueryInvariant, PTL DEF Spec

\* Where blocks carry the labels of their points, the points of the blocks labelled with a
\* query's series are those of its series.
LEMMA LabelsTell ==
  ASSUME NEW q, NEW index, RightlyLabelled(index), NEW blocks,
         blocks = {b \in index : About(q, b.series)}
  PROVE  PointsIn(blocks) = {p \in PointsIn(index) : About(q, p.series)}
<1>1. ASSUME NEW some, NEW p
      PROVE  p \in PointsIn(some) <=> \E b \in some : \E i \in DOMAIN b.entries : p \in b.entries[i]
  BY DEF PointsIn, Range
<1>2. \A b \in index : \A i \in DOMAIN b.entries : \A p \in b.entries[i] : p.series = b.series
  BY DEF RightlyLabelled
<1>3. ASSUME NEW p PROVE p \in PointsIn(blocks) <=> p \in PointsIn(index) /\ About(q, p.series)
  BY <1>1, <1>2
<1> QED
  BY <1>3

\* AnswerIsExact: a query by tags and times that nothing disturbed or misled loads every
\* shard its times reach, and prints exactly the points it asked for of the earliest, when
\* they lie, rightly labelled, where it can read them; for any conditions, series, points
\* and files.
THEOREM AnswersAreExact == Spec => []AnswerIsExact
<1>1. QueryInv /\ ExactInv => AnswerIsExact
  <2> SUFFICES ASSUME QueryInv, ExactInv, NEW q \in Queries, Plain(q)
               PROVE  /\ query[q].reached = DOMAIN query[q].index
                      /\ IF query[q].reached = {} THEN query[q].printed = {}
                         ELSE LET shard == Earliest(query[q].reached)
                              IN Answerable(q, shard) => query[q].printed = Aligned(Wanted(q, shard))
    BY DEF AnswerIsExact
  <2>1. /\ Sound(q) /\ query[q].tags # {} /\ Bounds(query[q].rest) /\ query[q].pc = "done"
        /\ KnowsShards(query[q]) /\ PrintedAll(query[q])
    BY DEF Plain, Sound, ExactInv, ExactOf
  <2>2. query[q].reached = DOMAIN query[q].index
    BY <2>1 DEF KnowsShards
  <2> DEFINE shard == Earliest(query[q].reached)
             chosen == Chosen(query[q])
  <2>3. BlocksFor(q, shard) = chosen
    BY <2>2 DEF BlocksFor, Chosen, AboutIn, About
  <2>4. ASSUME Answerable(q, shard)
        PROVE  Readable(chosen) /\ WantedBy(query[q], PointsIn(chosen)) = Wanted(q, shard)
    <3>1. RightlyLabelled(query[q].index[shard]) /\ Readable(chosen)
      BY <2>3, <2>4 DEF Answerable
    <3>2. chosen = {b \in query[q].index[shard] : About(q, b.series)}
      BY <2>3 DEF BlocksFor
    <3> HIDE DEF chosen, shard
    <3>3. PointsIn(chosen) = {p \in PointsIn(query[q].index[shard]) : About(q, p.series)}
      BY <3>1, <3>2, LabelsTell
    <3>4. \A p : p \in WantedBy(query[q], PointsIn(chosen)) <=> p \in PointsIn(chosen) /\ InBounds(q, p)
      BY DEF WantedBy, InBounds
    <3>5. \A p : p \in Wanted(q, shard) <=>
                    p \in PointsIn(query[q].index[shard]) /\ About(q, p.series) /\ InBounds(q, p)
      BY DEF Wanted
    <3>6. Wanted(q, shard) \subseteq PointsIn(query[q].index[shard])
      BY <3>5
    <3>7. \A p : p \in WantedBy(query[q], PointsIn(chosen)) <=> p \in Wanted(q, shard)
      BY <3>3, <3>4, <3>5
    <3> QED
      BY <3>1, <3>7 DEF Wanted, WantedBy
  <2> HIDE DEF chosen
  <2> QED
    BY <2>1, <2>2, <2>4 DEF PrintedAll, chosen
<1> QED
  BY <1>1, QueryInvariant, ExactInvariant, PTL

=============================================================================
