----------------------------- MODULE CatalogProofs -----------------------------
(***************************************************************************)
(* Proofs about Catalog for any databases, tables, fields and workers,     *)
(* through crashes and restarts: who may meet a writer that is gone, that  *)
(* the shards reach meta.tsm, and that memory agrees with the files.       *)
(***************************************************************************)
EXTENDS Catalog, FiniteSetTheorems, TLAPS

-----------------------------------------------------------------------------
(* types *)

Busy == [pc : {"check", "record", "store", "add", "write"}, table : Tables, field : Fields,
         valid : BOOLEAN, seen : Seq(Fields)]

Slots == [writer : BOOLEAN, shard : Nat]

TaskTypes == task \in [Workers -> Busy \cup {NoTask}]

SlotTypes == DOMAIN m_map \subseteq Tables /\ \A t \in DOMAIN m_map : m_map[t] \in Slots

FileTypes ==
  /\ DOMAIN sysfile \subseteq Tables
  /\ \A t \in DOMAIN sysfile : sysfile[t] \in Seq(Fields)
  /\ metafile \in Seq(Tables \X Nat)
  /\ main.op = "table" => main.table \in Tables

\* What flush threads have left to do; a process that has ended has nothing in memory.
FlushTypes ==
  /\ owed \subseteq Tables
  /\ todo \subseteq DOMAIN m_map
  /\ todo # {} => flushing
  /\ ~running => /\ DOMAIN m_map = {} /\ owed = {} /\ main.op # "table"
                 /\ \A w \in Workers : task[w] = NoTask

Types == TaskTypes /\ SlotTypes /\ FileTypes /\ FlushTypes

-----------------------------------------------------------------------------
(* what MisusedOnlyAfterDrop rests on *)

\* A slot without a writer is one that a flush has made for a table that lost its own.
NullIsDropped == \A t \in DOMAIN m_map : ~m_map[t].writer => t \in dropped

\* What is registered with a table outlives its slot only if the slot was dropped.
OwedHasSlot == owed \subseteq DOMAIN m_map \cup dropped

\* A producer holds a reference to a slot that is there, or was dropped.
ReferenceIsValid ==
  \A w \in Workers :
    task[w] # NoTask =>
      \/ task[w].valid /\ task[w].table \in DOMAIN m_map
      \/ ~task[w].valid /\ task[w].table \in dropped

WriterInv == NullIsDropped /\ OwedHasSlot /\ ReferenceIsValid /\ MisusedOnlyAfterDrop

CatalogInv == Types /\ WriterInv

-----------------------------------------------------------------------------
(* steps that leave the writers alone *)

\* A busy producer is told from an idle one by its pc.
LEMMA BusyApart ==
  ASSUME NEW x \in Busy \cup {NoTask}
  PROVE  /\ x # NoTask <=> x.pc # "idle"
         /\ x # NoTask => x \in Busy
BY DEF Busy, NoTask

LEMMA CutBusy ==
  ASSUME NEW x \in Busy
  PROVE  /\ [x EXCEPT !.valid = FALSE] \in Busy
         /\ [x EXCEPT !.valid = FALSE].table = x.table
         /\ ~[x EXCEPT !.valid = FALSE].valid
BY DEF Busy

\* A step that touches neither producers, slots nor flushes.
LEMMA CatalogFrame ==
  ASSUME CatalogInv,
         UNCHANGED <<task, m_map, owed, todo, flushing, running, dropped, misused, metafile>>,
         FileTypes', main'.op = "table" => running
  PROVE  CatalogInv'
BY DEF CatalogInv, Types, TaskTypes, SlotTypes, FlushTypes, WriterInv, NullIsDropped, OwedHasSlot,
       ReferenceIsValid, MisusedOnlyAfterDrop

\* The end of the process empties memory; what it misused on its way had been dropped.
LEMMA CatalogEnds ==
  ASSUME CatalogInv, Ended, UNCHANGED <<sysfile, metafile>>, misused' \subseteq dropped
  PROVE  CatalogInv'
<1>1. TaskTypes' /\ SlotTypes' /\ FlushTypes'
  BY DEF Ended, TaskTypes, SlotTypes, FlushTypes, Idle
<1>2. FileTypes'
  BY DEF Ended, CatalogInv, Types, FileTypes, Idle
<1>3. WriterInv'
  BY DEF Ended, WriterInv, NullIsDropped, OwedHasSlot, ReferenceIsValid, MisusedOnlyAfterDrop
<1> QED  BY <1>1, <1>2, <1>3 DEF CatalogInv, Types

LEMMA CatalogInit == Init => CatalogInv
<1> SUFFICES ASSUME Init PROVE CatalogInv  OBVIOUS
<1>1. FileTypes
  <2>1. PICK old \in {{}, Old} : sysfile \in UNION {[S -> {<<>>}] : S \in SUBSET old}
    BY DEF Init
  <2>2. PICK S \in SUBSET old : sysfile \in [S -> {<<>>}]  BY <2>1
  <2>3. DOMAIN sysfile \subseteq Tables /\ \A t \in DOMAIN sysfile : sysfile[t] = <<>>
    BY <2>2, CatalogAssumption
  <2>4. <<>> \in Seq(Fields) /\ <<>> \in Seq(Tables \X Nat)  OBVIOUS
  <2>5. metafile = <<>> /\ main.op # "table"  BY DEF Init, Idle
  <2> QED  BY <2>3, <2>4, <2>5 DEF FileTypes
<1>2. TaskTypes /\ SlotTypes /\ FlushTypes
  BY DEF Init, TaskTypes, SlotTypes, FlushTypes
<1>3. WriterInv
  BY DEF Init, WriterInv, NullIsDropped, OwedHasSlot, ReferenceIsValid, MisusedOnlyAfterDrop
<1> QED  BY <1>1, <1>2, <1>3 DEF CatalogInv, Types

\* After a restart each slot is one load_meta_file has made, with a writer.
LEMMA CatalogRestarts ==
  ASSUME CatalogInv, Restart
  PROVE  CatalogInv'
<1>1. metafile \in Seq(Tables \X Nat)  BY DEF CatalogInv, Types, FileTypes
<1>2. DOMAIN LoadMetaFile = {metafile[i][1] : i \in LastTables(metafile)}
  BY DEF LoadMetaFile, Loaded
<1>3. ASSUME NEW t \in DOMAIN LoadMetaFile
      PROVE  t \in Tables /\ LoadMetaFile[t] \in Slots /\ LoadMetaFile[t].writer
  <2>1. PICK i \in LastTables(metafile) : metafile[i][1] = t  BY <1>2
  <2> DEFINE j == CHOOSE k \in LastTables(metafile) : metafile[k][1] = t
  <2>2. j \in LastTables(metafile) /\ metafile[j][1] = t  BY <2>1
  <2>3. j \in DOMAIN metafile  BY <2>2 DEF LastTables
  <2>4. metafile[j] \in Tables \X Nat  BY <1>1, <2>3
  <2>5. LoadMetaFile[t] = [writer |-> TRUE, shard |-> metafile[j][2]]
    BY <1>2 DEF LoadMetaFile, Loaded
  <2> QED  BY <2>2, <2>4, <2>5 DEF Slots
<1>4. m_map' = LoadMetaFile /\ owed' = {} /\ todo' = {} /\ \A w \in Workers : task'[w] = NoTask
  BY DEF Restart, meta, CatalogInv, Types, FlushTypes
<1>5. SlotTypes' /\ NullIsDropped'  BY <1>3, <1>4 DEF SlotTypes, NullIsDropped
<1>6. TaskTypes' /\ FileTypes' /\ FlushTypes'
  BY <1>4 DEF Restart, disk, plan, meta, CatalogInv, Types, TaskTypes, FileTypes, FlushTypes
<1>7. OwedHasSlot' /\ ReferenceIsValid' /\ MisusedOnlyAfterDrop'
  BY <1>4 DEF Restart, CatalogInv, WriterInv, OwedHasSlot, ReferenceIsValid, MisusedOnlyAfterDrop
<1> QED  BY <1>5, <1>6, <1>7 DEF CatalogInv, Types, WriterInv

-----------------------------------------------------------------------------
(* statements *)

LEMMA CatalogStatement ==
  ASSUME CatalogInv, Statement
  PROVE  CatalogInv'
<1> USE DEF Ready
<1>0. FileTypes /\ (~running => main.op # "table") /\ misused \subseteq dropped
  BY DEF CatalogInv, Types, FlushTypes, WriterInv, MisusedOnlyAfterDrop
<1>1. ASSUME NEW db \in Databases, CreateDatabase(db) PROVE CatalogInv'
  BY <1>0, <1>1, CatalogFrame DEF CreateDatabase, meta, history, FileTypes
<1>2. ASSUME NEW db \in Databases, Use(db) PROVE CatalogInv'
  BY <1>0, <1>2, CatalogFrame DEF Use, disk, meta, history, FileTypes, Idle
<1>3. ASSUME NEW db \in Databases, ReadMissing(db) PROVE CatalogInv'
  BY <1>0, <1>3, CatalogEnds DEF ReadMissing, Dies, disk
<1>4. ASSUME NEW db \in Databases, ShowElsewhere(db) PROVE CatalogInv'
  BY <1>0, <1>4, CatalogFrame DEF ShowElsewhere, disk, meta, history, FileTypes
<1>5. ASSUME NEW t \in Tables, CreateTable(t) PROVE CatalogInv'
  BY <1>0, <1>5, CatalogFrame DEF CreateTable, meta, history, FileTypes
<1>6. ASSUME NEW t \in Tables, CreateTableAgain(t) PROVE CatalogInv'
  BY <1>0, <1>6, CatalogEnds DEF CreateTableAgain, Dies, disk
<1>7. ASSUME NEW t \in Tables, ClearSystemFile(t) PROVE CatalogInv'
  <2>1. CASE t \in DOMAIN sysfile
    <3>1. sysfile' = [sysfile EXCEPT ![t] = <<>>]  BY <1>7, <2>1 DEF ClearSystemFile
    <3>2. FileTypes'  BY <1>0, <1>7, <2>1, <3>1 DEF ClearSystemFile, memory, plan, FileTypes
    <3> QED
      BY <1>0, <1>7, <2>1, <3>2, CatalogFrame DEF ClearSystemFile, memory, plan, meta
  <2>2. CASE t \notin DOMAIN sysfile
    BY <1>0, <1>7, <2>2, CatalogEnds DEF ClearSystemFile, Dies
  <2> QED  BY <2>1, <2>2
<1>8. CASE CreateDatabaseFile
  BY <1>0, <1>8, CatalogFrame DEF CreateDatabaseFile, meta, history, FileTypes, Idle
<1>9. CASE LoadDatabase
  BY <1>0, <1>9, CatalogFrame DEF LoadDatabase, disk, meta, history, FileTypes, Idle
<1>10. CASE ShowTables
  BY <1>0, <1>10, CatalogFrame DEF ShowTables, disk, meta, history, FileTypes
<1>11. CASE CreateTableFile
  <2>1. sysfile' = sysfile \/ sysfile' = Put(sysfile, main.table, <<>>)
    BY <1>11 DEF CreateTableFile
  <2>2. main.table \in Tables  BY <1>0, <1>11 DEF CreateTableFile, FileTypes
  <2>3. main' = Idle /\ metafile' = metafile  BY <1>11 DEF CreateTableFile
  <2>4. DOMAIN sysfile' \subseteq Tables /\ \A t \in DOMAIN sysfile' : sysfile'[t] \in Seq(Fields)
    <3>1. CASE sysfile' = sysfile  BY <1>0, <3>1 DEF FileTypes
    <3>2. CASE sysfile' = Put(sysfile, main.table, <<>>)
      BY <1>0, <2>2, <3>2 DEF FileTypes, Put
    <3> QED  BY <2>1, <3>1, <3>2
  <2>5. FileTypes'  BY <1>0, <2>3, <2>4 DEF FileTypes, Idle
  <2> QED  BY <1>0, <1>11, <2>5, CatalogFrame DEF CreateTableFile, meta, history, Idle
<1> QED
  BY <1>1, <1>2, <1>3, <1>4, <1>5, <1>6, <1>7, <1>8, <1>9, <1>10, <1>11 DEF Statement

-----------------------------------------------------------------------------
(* inserts *)

\* A step of a producer within its insert, which keeps its table and its reference.
LEMMA CatalogMoves ==
  ASSUME CatalogInv, NEW w \in Workers, task[w].pc # "idle",
         NEW pc \in {"check", "record", "store", "add", "write"}, NEW seen \in Seq(Fields),
         task' = [task EXCEPT ![w].pc = pc, ![w].seen = seen],
         UNCHANGED <<m_map, owed, todo, flushing, running, main, dropped, misused, metafile>>,
         FileTypes', running
  PROVE  CatalogInv'
<1>1. task \in [Workers -> Busy \cup {NoTask}] /\ task[w] \in Busy
  BY BusyApart DEF CatalogInv, Types, TaskTypes
<1> DEFINE new == [task[w] EXCEPT !.pc = pc, !.seen = seen]
<1>2. new \in Busy /\ new.table = task[w].table /\ new.valid = task[w].valid
  BY <1>1 DEF Busy
<1>3. task' = [task EXCEPT ![w] = new]  BY <1>1 DEF Busy
<1> HIDE DEF new
<1>4. TaskTypes'  BY <1>1, <1>2, <1>3 DEF TaskTypes
<1>5. ReferenceIsValid'
  BY <1>1, <1>2, <1>3, BusyApart DEF CatalogInv, WriterInv, ReferenceIsValid
<1> QED
  BY <1>4, <1>5 DEF CatalogInv, Types, SlotTypes, FlushTypes, WriterInv, NullIsDropped, OwedHasSlot,
     MisusedOnlyAfterDrop

\* A producer that returns takes its reference with it.
LEMMA CatalogReturns ==
  ASSUME CatalogInv, NEW w \in Workers, running,
         task' = [task EXCEPT ![w] = NoTask],
         UNCHANGED <<owed, m_map, todo, flushing, running, main, dropped, metafile, sysfile>>,
         misused' \subseteq dropped
  PROVE  CatalogInv'
<1>1. TaskTypes' /\ ReferenceIsValid'
  BY DEF CatalogInv, Types, TaskTypes, WriterInv, ReferenceIsValid
<1> QED
  BY <1>1 DEF CatalogInv, Types, SlotTypes, FileTypes, FlushTypes, WriterInv, NullIsDropped,
     OwedHasSlot, MisusedOnlyAfterDrop

\* The entry of a database is replaced: its other tables are dropped, and so are the
\* references into them.
LEMMA CatalogResolve ==
  ASSUME CatalogInv, NEW w \in Workers, NEW t \in Tables, NEW f \in Fields, Resolve(w, t, f)
  PROVE  CatalogInv'
<1> DEFINE new == [pc |-> "check", table |-> t, field |-> f, valid |-> TRUE, seen |-> <<>>]
<1>1. new \in Busy /\ new # NoTask /\ new.table = t /\ new.valid  BY DEF Busy, NoTask
<1>2. task \in [Workers -> Busy \cup {NoTask}]  BY DEF CatalogInv, Types, TaskTypes
<1>3. FileTypes'
  BY DEF Resolve, disk, plan, CatalogInv, Types, FileTypes
<1>4. CASE t \in DOMAIN m_map
  <2>1. task' = [task EXCEPT ![w] = new] /\ UNCHANGED <<m_map, dropped>>
    BY <1>4 DEF Resolve
  <2> HIDE DEF new
  <2>2. TaskTypes'  BY <1>1, <1>2, <2>1 DEF TaskTypes
  <2>3. ReferenceIsValid'
    BY <1>1, <1>2, <1>4, <2>1 DEF CatalogInv, WriterInv, ReferenceIsValid
  <2>4. UNCHANGED <<owed, todo, flushing, running, misused>> /\ running
    BY DEF Resolve, meta
  <2> QED
    BY <1>3, <2>1, <2>2, <2>3, <2>4 DEF CatalogInv, Types, SlotTypes, FlushTypes, WriterInv,
       NullIsDropped, OwedHasSlot, MisusedOnlyAfterDrop
<1>5. CASE t \notin DOMAIN m_map
  <2> DEFINE cut(v) == IF task[v] # NoTask /\ task[v].table[1] = t[1]
                       THEN [task[v] EXCEPT !.valid = FALSE] ELSE task[v]
  <2>1. /\ m_map' = Replaced(t)
        /\ dropped' = dropped \cup (DOMAIN m_map \cap TablesOf(t[1]))
        /\ task' = [v \in Workers |-> IF v = w THEN new ELSE cut(v)]
    BY <1>5 DEF Resolve
  <2>2. running /\ ~flushing /\ UNCHANGED <<owed, todo, flushing, running, misused>>
    BY DEF Resolve, meta
  <2>3. DOMAIN m_map \subseteq Tables /\ todo = {}
    BY <2>2 DEF CatalogInv, Types, SlotTypes, FlushTypes
  <2>4. /\ DOMAIN m_map' = {v \in DOMAIN m_map : v[1] # t[1]} \cup {t}
        /\ m_map'[t] = [writer |-> TRUE, shard |-> 0]
        /\ \A u \in DOMAIN m_map' \ {t} : m_map'[u] = m_map[u]
    BY <2>1 DEF Replaced
  <2>5. DOMAIN m_map \subseteq DOMAIN m_map' \cup dropped' /\ dropped \subseteq dropped'
    BY <2>1, <2>3, <2>4 DEF TablesOf
  <2>6. SlotTypes'
    <3>1. [writer |-> TRUE, shard |-> 0] \in Slots  BY DEF Slots
    <3>2. \A u \in DOMAIN m_map : m_map[u] \in Slots  BY DEF CatalogInv, Types, SlotTypes
    <3> QED  BY <2>3, <2>4, <3>1, <3>2 DEF SlotTypes
  <2>7. ASSUME NEW v \in Workers, task[v] # NoTask
        PROVE  /\ cut(v) \in Busy /\ cut(v).table = task[v].table
               /\ \/ cut(v) = task[v] /\ task[v].table[1] # t[1]
                  \/ ~cut(v).valid /\ task[v].table[1] = t[1]
    <3>1. task[v] \in Busy  BY <1>2, <2>7
    <3>2. CASE task[v].table[1] = t[1]
      <4>1. cut(v) = [task[v] EXCEPT !.valid = FALSE]  BY <2>7, <3>2
      <4> QED  BY <3>1, <3>2, <4>1, CutBusy
    <3>3. CASE task[v].table[1] # t[1]
      <4>1. cut(v) = task[v]  BY <3>3
      <4> QED  BY <3>1, <3>3, <4>1
    <3> QED  BY <3>2, <3>3
  <2>8. \A v \in Workers : task[v] = NoTask => cut(v) = NoTask  OBVIOUS
  <2> HIDE DEF cut, new
  <2>9. TaskTypes'  BY <1>1, <1>2, <2>1, <2>7, <2>8 DEF TaskTypes
  <2>10. ReferenceIsValid'
    <3> SUFFICES ASSUME NEW v \in Workers, task'[v] # NoTask
                 PROVE  \/ task'[v].valid /\ task'[v].table \in DOMAIN m_map'
                        \/ ~task'[v].valid /\ task'[v].table \in dropped'
      BY DEF ReferenceIsValid
    <3>1. CASE v = w  BY <1>1, <2>1, <2>4, <3>1
    <3>2. CASE v # w
      <4>1. task'[v] = cut(v) /\ task[v] # NoTask  BY <2>1, <2>8, <3>2
      <4>2. \/ task[v].valid /\ task[v].table \in DOMAIN m_map
            \/ ~task[v].valid /\ task[v].table \in dropped
        BY <4>1 DEF CatalogInv, WriterInv, ReferenceIsValid
      <4>3. CASE cut(v) = task[v] /\ task[v].table[1] # t[1]
        BY <2>4, <2>5, <4>1, <4>2, <4>3
      <4>4. CASE ~cut(v).valid /\ task[v].table[1] = t[1]
        <5>1. task[v].table \in dropped'
          BY <2>1, <2>3, <4>2, <4>4 DEF TablesOf
        <5> QED  BY <2>7, <4>1, <4>4, <5>1
      <4> QED  BY <2>7, <4>1, <4>3, <4>4
    <3> QED  BY <3>1, <3>2
  <2>11. FlushTypes'  BY <2>2, <2>3 DEF CatalogInv, Types, FlushTypes
  <2>12. NullIsDropped'
    BY <2>4, <2>5 DEF CatalogInv, WriterInv, NullIsDropped
  <2>13. OwedHasSlot' /\ MisusedOnlyAfterDrop'
    BY <2>2, <2>5 DEF CatalogInv, WriterInv, OwedHasSlot, MisusedOnlyAfterDrop
  <2> QED
    BY <1>3, <2>6, <2>9, <2>10, <2>11, <2>12, <2>13 DEF CatalogInv, Types, WriterInv
<1> QED  BY <1>4, <1>5

\* A write through a reference makes the shard; a null writer ends the process.
LEMMA CatalogWrites ==
  ASSUME CatalogInv, NEW w \in Workers, WritePoint(w)
  PROVE  CatalogInv'
<1> DEFINE t == task[w].table
<1>1. running /\ task[w] # NoTask /\ task[w].valid
  BY DEF WritePoint, At, NoTask
<1>2. t \in DOMAIN m_map /\ t \in Tables /\ m_map[t] \in Slots
  BY <1>1 DEF CatalogInv, Types, SlotTypes, WriterInv, ReferenceIsValid
<1>3. CASE m_map[t].writer
  <2> DEFINE slot == [m_map[t] EXCEPT !.shard = IF @ = 0 THEN 1 ELSE @]
  <2>1. slot \in Slots /\ slot.writer = m_map[t].writer  BY <1>2 DEF Slots
  <2>2. /\ m_map' = [m_map EXCEPT ![t] = slot]
        /\ owed' = owed \cup {t}
        /\ task' = [task EXCEPT ![w] = NoTask]
        /\ UNCHANGED <<running, plan, meta, history, disk>>
    BY <1>3 DEF WritePoint
  <2> HIDE DEF slot, t
  <2>3. TaskTypes' /\ ReferenceIsValid'
    BY <1>2, <2>2 DEF CatalogInv, Types, TaskTypes, WriterInv, ReferenceIsValid, history
  <2>4. SlotTypes' /\ NullIsDropped'
    BY <1>2, <2>1, <2>2 DEF CatalogInv, Types, SlotTypes, WriterInv, NullIsDropped, history
  <2>5. FileTypes' /\ FlushTypes'
    BY <1>1, <1>2, <2>2 DEF CatalogInv, Types, FileTypes, FlushTypes, disk, plan, meta
  <2>6. OwedHasSlot' /\ MisusedOnlyAfterDrop'
    BY <1>2, <2>2 DEF CatalogInv, WriterInv, OwedHasSlot, MisusedOnlyAfterDrop, history
  <2> QED  BY <2>3, <2>4, <2>5, <2>6 DEF CatalogInv, Types, WriterInv
<1>4. CASE ~m_map[t].writer
  <2>1. t \in dropped  BY <1>2, <1>4 DEF CatalogInv, WriterInv, NullIsDropped
  <2>2. Ended /\ misused' = misused \cup {t} /\ UNCHANGED disk
    BY <1>4 DEF WritePoint, DiesOfWriter
  <2>3. dropped' = dropped  BY <2>2 DEF Ended
  <2> QED
    BY <2>1, <2>2, <2>3, CatalogEnds DEF disk, CatalogInv, WriterInv, MisusedOnlyAfterDrop
<1> QED  BY <1>3, <1>4

LEMMA CatalogInsert ==
  ASSUME CatalogInv, InsertStep
  PROVE  CatalogInv'
<1>0. misused \subseteq dropped /\ FileTypes
  BY DEF CatalogInv, Types, WriterInv, MisusedOnlyAfterDrop
<1>1. PICK w \in Workers :
        \/ \E t \in Tables, f \in Fields : Resolve(w, t, f)
        \/ CheckField(w) \/ ReadFields(w) \/ StoreField(w) \/ AddField(w)
        \/ WritePoint(w) \/ WriteGone(w)
  BY DEF InsertStep
<1>2. task[w] \in Busy \cup {NoTask}  BY DEF CatalogInv, Types, TaskTypes
<1>3. task[w].pc # "idle" => task[w] \in Busy /\ task[w].seen \in Seq(Fields)
  BY <1>2, BusyApart DEF Busy
<1>4. ASSUME NEW pc, pc \in {"record", "write", "add"}, Goto(w, pc), running,
             task[w].pc # "idle",
             UNCHANGED <<m_map, owed, todo, flushing, running, main, dropped, misused, metafile>>,
             FileTypes'
      PROVE  CatalogInv'
  <2>1. task' = [task EXCEPT ![w].pc = pc, ![w].seen = task[w].seen]
    BY <1>3, <1>4 DEF Goto, CatalogInv, Types, TaskTypes, Busy
  <2> QED  BY <1>3, <1>4, <2>1, CatalogMoves
<1>5. CASE CheckField(w)
  BY <1>0, <1>4, <1>5 DEF CheckField, At, disk, plan, meta, FileTypes
<1>6. CASE ReadFields(w)
  <2>1. CASE task[w].table \in DOMAIN sysfile
    <3>1. sysfile[task[w].table] \in Seq(Fields)  BY <1>0, <2>1 DEF FileTypes
    <3>2. FileTypes'  BY <1>0, <1>6, <2>1 DEF ReadFields, disk, plan, FileTypes
    <3> QED
      BY <1>6, <2>1, <3>1, <3>2, CatalogMoves DEF ReadFields, At, disk, plan, meta, history
  <2>2. CASE task[w].table \notin DOMAIN sysfile
    BY <1>0, <1>6, <2>2, CatalogEnds DEF ReadFields, Dies, disk
  <2> QED  BY <2>1, <2>2
<1>7. CASE StoreField(w)
  <2>1. task[w].pc # "idle"  BY <1>7 DEF StoreField, At
  <2>2. Append(task[w].seen, task[w].field) \in Seq(Fields)  BY <1>3, <2>1 DEF Busy
  <2>3. FileTypes'
    BY <1>0, <1>7, <2>2 DEF StoreField, Stored, plan, FileTypes
  <2> QED  BY <1>4, <1>7, <2>1, <2>3 DEF StoreField, At, plan, meta, history
<1>8. CASE AddField(w)
  BY <1>0, <1>4, <1>8 DEF AddField, At, disk, plan, meta, history, FileTypes
<1>9. CASE WriteGone(w)
  <2>1. task[w] # NoTask /\ ~task[w].valid /\ running  BY <1>9 DEF WriteGone, At, NoTask
  <2>2. task[w].table \in dropped  BY <2>1 DEF CatalogInv, WriterInv, ReferenceIsValid
  <2>3. CASE DiesOfWriter(task[w].table) /\ UNCHANGED disk
    <3>1. misused' \subseteq dropped
      BY <1>0, <2>2, <2>3 DEF DiesOfWriter
    <3> QED  BY <2>3, <3>1, CatalogEnds DEF DiesOfWriter, disk
  <2>4. CASE ~DiesOfWriter(task[w].table)
    <3>1. misused' \subseteq dropped /\ task' = [task EXCEPT ![w] = NoTask]
      BY <1>0, <1>9, <2>2, <2>4 DEF WriteGone
    <3> QED
      BY <1>9, <2>1, <2>4, <3>1, CatalogReturns DEF WriteGone, disk, plan, meta
  <2> QED  BY <1>9, <2>3, <2>4 DEF WriteGone
<1> QED
  BY <1>1, <1>5, <1>6, <1>7, <1>8, <1>9, CatalogResolve, CatalogWrites

-----------------------------------------------------------------------------
(* flushes *)

LEMMA CatalogFlush ==
  ASSUME CatalogInv, FlushStep
  PROVE  CatalogInv'
<1>0. FileTypes /\ FlushTypes /\ misused \subseteq dropped
  BY DEF CatalogInv, Types, WriterInv, MisusedOnlyAfterDrop
<1>1. CASE ShardsDue
  BY <1>0, <1>1, CatalogFrame DEF ShardsDue, disk, plan, history, FileTypes
<1>2. CASE BeginMeta
  <2>1. FileTypes'  BY <1>0, <1>2 DEF BeginMeta, plan, FileTypes
  <2>2. FlushTypes'  BY <1>0, <1>2 DEF BeginMeta, plan, FlushTypes
  <2> QED
    BY <1>2, <2>1, <2>2 DEF BeginMeta, history, CatalogInv, Types, TaskTypes, SlotTypes,
       WriterInv, NullIsDropped, OwedHasSlot, ReferenceIsValid, MisusedOnlyAfterDrop
<1>3. CASE EndMeta
  <2>1. FileTypes' /\ FlushTypes'
    BY <1>0, <1>3 DEF EndMeta, disk, plan, FileTypes, FlushTypes
  <2> QED
    BY <1>3, <2>1 DEF EndMeta, CatalogInv, Types, TaskTypes, SlotTypes,
       WriterInv, NullIsDropped, OwedHasSlot, ReferenceIsValid, MisusedOnlyAfterDrop
<1>4. ASSUME NEW t \in Tables, DiskWrite(t) PROVE CatalogInv'
  <2>1. /\ running /\ t \in owed /\ owed' = owed \ {t}
        /\ UNCHANGED <<disk, running, plan, task, flushing, history>>
    BY <1>4 DEF DiskWrite
  <2>2. /\ SlotTypes' /\ NullIsDropped'
        /\ DOMAIN m_map \subseteq DOMAIN m_map'
        /\ todo' \subseteq DOMAIN m_map' /\ (todo' # {} => flushing)
    <3>1. CASE t \in DOMAIN m_map
      <4> DEFINE slot == [m_map[t] EXCEPT !.shard = IF @ < MaxVersion THEN @ + 1 ELSE 2]
      <4>1. slot \in Slots /\ slot.writer = m_map[t].writer
        BY <3>1 DEF CatalogInv, Types, SlotTypes, Slots
      <4>2. todo' = todo /\ (m_map' = m_map \/ m_map' = [m_map EXCEPT ![t] = slot])
        BY <1>4, <3>1 DEF DiskWrite
      <4> HIDE DEF slot
      <4> QED
        BY <1>0, <2>1, <3>1, <4>1, <4>2 DEF history, CatalogInv, Types, SlotTypes, FlushTypes,
           WriterInv, NullIsDropped
    <3>2. CASE t \notin DOMAIN m_map
      <4> DEFINE slot == [writer |-> FALSE, shard |-> 0]
      <4>1. slot \in Slots  BY DEF Slots
      <4>2. m_map' = Put(m_map, t, slot) /\ todo' \in {todo, todo \cup {t}}
            /\ (~flushing => todo' = todo)
        BY <1>4, <3>2 DEF DiskWrite
      <4> HIDE DEF slot
      <4>3. /\ DOMAIN m_map' = DOMAIN m_map \cup {t} /\ m_map'[t] = slot
            /\ \A u \in DOMAIN m_map : m_map'[u] = m_map[u]
        BY <3>2, <4>2 DEF Put
      <4>4. t \in dropped  BY <2>1, <3>2 DEF CatalogInv, WriterInv, OwedHasSlot
      <4> QED
        BY <1>0, <2>1, <4>1, <4>2, <4>3, <4>4 DEF history, CatalogInv, Types, SlotTypes,
           FlushTypes, WriterInv, NullIsDropped
    <3> QED  BY <3>1, <3>2
  <2>3. FileTypes' /\ FlushTypes' /\ TaskTypes'
    BY <1>0, <2>1, <2>2 DEF disk, plan, FileTypes, FlushTypes, CatalogInv, Types, TaskTypes
  <2>4. OwedHasSlot' /\ ReferenceIsValid' /\ MisusedOnlyAfterDrop'
    BY <2>1, <2>2 DEF history, CatalogInv, WriterInv, OwedHasSlot, ReferenceIsValid,
       MisusedOnlyAfterDrop
  <2> QED  BY <2>2, <2>3, <2>4 DEF CatalogInv, Types, WriterInv
<1>5. ASSUME NEW t \in Tables, RecordShards(t) PROVE CatalogInv'
  <2>1. t \in DOMAIN m_map /\ m_map[t] \in Slots
    BY <1>0, <1>5 DEF RecordShards, FlushTypes, CatalogInv, Types, SlotTypes
  <2>2. CASE m_map[t].writer
    <3>1. metafile' \in Seq(Tables \X Nat)
      <4>1. <<t, m_map[t].shard>> \in Tables \X Nat  BY <2>1 DEF Slots
      <4>2. metafile' = metafile \/ metafile' = Append(metafile, <<t, m_map[t].shard>>)
        BY <1>5, <2>2 DEF RecordShards, Record
      <4>3. metafile \in Seq(Tables \X Nat)  BY <1>0 DEF FileTypes
      <4>4. ASSUME NEW x \in Tables \X Nat PROVE Append(metafile, x) \in Seq(Tables \X Nat)
        BY <4>3
      <4> QED  BY <4>1, <4>2, <4>3, <4>4
    <3>2. FileTypes' /\ FlushTypes'
      BY <1>0, <1>5, <2>2, <3>1 DEF RecordShards, plan, FileTypes, FlushTypes
    <3> QED
      BY <1>5, <2>2, <3>2 DEF RecordShards, history, CatalogInv, Types, TaskTypes, SlotTypes,
         WriterInv, NullIsDropped, OwedHasSlot, ReferenceIsValid, MisusedOnlyAfterDrop
  <2>3. CASE ~m_map[t].writer
    <3>1. t \in dropped  BY <2>1, <2>3 DEF CatalogInv, WriterInv, NullIsDropped
    <3>2. Ended /\ misused' = misused \cup {t} /\ UNCHANGED <<metafile, sysfile>>
      BY <1>5, <2>3 DEF RecordShards, DiesOfWriter
    <3> QED  BY <1>0, <3>1, <3>2, CatalogEnds
  <2> QED  BY <2>2, <2>3
<1> QED  BY <1>1, <1>2, <1>3, <1>4, <1>5 DEF FlushStep

-----------------------------------------------------------------------------

\* The types of the catalog, and what a producer, a slot and a registered flush may
\* assume of each other, hold through crashes and restarts.
THEOREM CatalogInvariant == Spec => []CatalogInv
<1>1. CatalogInv /\ [Next]_vars => CatalogInv'
  <2> SUFFICES ASSUME CatalogInv, [Next]_vars PROVE CatalogInv'  OBVIOUS
  <2>1. CASE Crash
    BY <2>1, CatalogEnds DEF Crash, Dies, disk, CatalogInv, WriterInv, MisusedOnlyAfterDrop
  <2>2. CASE UNCHANGED vars
    <3>1. FileTypes' /\ (main'.op = "table" => running)
      BY <2>2 DEF vars, disk, memory, plan, CatalogInv, Types, FileTypes, FlushTypes
    <3> QED
      BY <2>2, <3>1, CatalogFrame DEF vars, disk, memory, plan, meta, history
  <2> QED
    BY <2>1, <2>2, CatalogStatement, CatalogInsert, CatalogFlush, CatalogRestarts DEF Next
<1> QED  BY CatalogInit, <1>1, PTL DEF Spec

\* Controller::insert_thread and the flush threads use a null or dangling Write only of a
\* table that lost its slot when Database{"", table} replaced the entry of its database.
THEOREM WritersLostOnlyByReplacement == Spec => []MisusedOnlyAfterDrop
<1>1. CatalogInv => MisusedOnlyAfterDrop  BY DEF CatalogInv, WriterInv
<1> QED  BY CatalogInvariant, <1>1, PTL

-----------------------------------------------------------------------------
(***************************************************************************)
(* Proof that the metadata of the shards in Catalog reaches meta.tsm and   *)
(* stays, for any databases, tables and threads, through crashes, restarts *)
(* and flushes of the metadata.                                            *)
(***************************************************************************)

(* what ShardsArePersistent rests on *)

InFile(t) == \E i \in DOMAIN metafile : metafile[i][1] = t

Lost(t) == torn \/ t \in dropped

HasShard(t) == t \in DOMAIN m_map /\ m_map[t].shard > 0

IsCurrent(t) == m_map[t].shard > 1 => \E i \in DOMAIN metafile : metafile[i] = <<t, m_map[t].shard>>

NothingDue == running /\ ~m_is_registered /\ queued = 0

\* meta.tsm has versions, and while it is rewritten only of shards that are in memory.
FileIsMade ==
  /\ \A i \in DOMAIN metafile : metafile[i][2] > 0
  /\ flushing => running /\ \A i \in DOMAIN metafile : HasShard(metafile[i][1])

\* A recorded shard is in memory, so that the next flush writes it ...
RecordedInMemory == running => \A t \in recorded : Lost(t) \/ HasShard(t)

\* ... and in the file, except for those the running flush has yet to write.
RecordedInFile == \A t \in recorded : Lost(t) \/ InFile(t) \/ (flushing /\ t \in todo)

\* The same of the last version of each shard.
CurrentInFile ==
  NothingDue => \A t \in DOMAIN m_map : IsCurrent(t) \/ (flushing /\ t \in todo)

ShardInv == FileIsMade /\ RecordedInMemory /\ RecordedInFile /\ CurrentInFile

-----------------------------------------------------------------------------

LEMMA ShardInit == Init => ShardInv
BY DEF Init, ShardInv, FileIsMade, RecordedInMemory, RecordedInFile, CurrentInFile

\* A step that touches neither slots nor flushes.
LEMMA ShardFrame ==
  ASSUME ShardInv,
         UNCHANGED <<m_map, todo, flushing, queued, m_is_registered, running, recorded, torn,
                     dropped, metafile>>
  PROVE  ShardInv'
BY DEF ShardInv, FileIsMade, RecordedInMemory, RecordedInFile, CurrentInFile, InFile, Lost,
       HasShard, IsCurrent, NothingDue

\* The process ends: what a flush had yet to write is torn.
LEMMA ShardEnds ==
  ASSUME CatalogInv, ShardInv, Ended, UNCHANGED metafile
  PROVE  ShardInv'
<1>1. UNCHANGED <<metafile, recorded, dropped>> /\ ~running' /\ ~flushing'
      /\ torn' = (torn \/ flushing)
  BY DEF Ended
<1>2. FileIsMade' /\ RecordedInMemory' /\ CurrentInFile'
  BY <1>1 DEF ShardInv, FileIsMade, RecordedInMemory, CurrentInFile, NothingDue
<1>3. RecordedInFile'
  BY <1>1 DEF ShardInv, RecordedInFile, InFile, Lost
<1> QED  BY <1>2, <1>3 DEF ShardInv

\* load_meta_file: what the file has is in memory again, or dropped.
LEMMA ShardRestarts ==
  ASSUME CatalogInv, ShardInv, Restart
  PROVE  ShardInv'
<1>1. /\ m_map' = LoadMetaFile /\ UNCHANGED <<metafile, recorded, torn, flushing>>
      /\ dropped' = dropped \cup {metafile[i][1] : i \in DOMAIN metafile \ LastTables(metafile)}
  BY DEF Restart, disk, meta
<1>2. ~flushing  BY DEF Restart, ShardInv, FileIsMade
<1>3. DOMAIN LoadMetaFile = {metafile[i][1] : i \in LastTables(metafile)}
  BY DEF LoadMetaFile, Loaded
<1>4. ASSUME NEW t \in DOMAIN LoadMetaFile
      PROVE  \E j \in DOMAIN metafile : metafile[j] = <<t, LoadMetaFile[t].shard>>
  <2>1. PICK i \in LastTables(metafile) : metafile[i][1] = t  BY <1>3
  <2> DEFINE j == CHOOSE k \in LastTables(metafile) : metafile[k][1] = t
  <2>2. j \in LastTables(metafile) /\ metafile[j][1] = t  BY <2>1
  <2>3. j \in DOMAIN metafile  BY <2>2 DEF LastTables
  <2>4. metafile[j] \in Tables \X Nat  BY <2>3 DEF CatalogInv, Types, FileTypes
  <2>5. LoadMetaFile[t] = [writer |-> TRUE, shard |-> metafile[j][2]]
    BY <1>3 DEF LoadMetaFile, Loaded
  <2> HIDE DEF j
  <2>6. metafile[j] = <<t, metafile[j][2]>>  BY <2>2, <2>4
  <2>7. LoadMetaFile[t].shard = metafile[j][2]  BY <2>5
  <2> QED  BY <2>3, <2>6, <2>7
<1>5. \A t \in DOMAIN LoadMetaFile : LoadMetaFile[t].shard > 0
  BY <1>4 DEF ShardInv, FileIsMade
<1>6. FileIsMade'  BY <1>1, <1>2 DEF ShardInv, FileIsMade
<1>7. RecordedInMemory'
  <2> SUFFICES ASSUME NEW t \in recorded, ~Lost(t)' PROVE HasShard(t)'
    BY <1>1 DEF RecordedInMemory
  <2>1. ~Lost(t)  BY <1>1 DEF Lost
  <2>2. PICK i \in DOMAIN metafile : metafile[i][1] = t
    BY <1>2, <2>1 DEF ShardInv, RecordedInFile, InFile
  <2>3. i \in LastTables(metafile)  BY <1>1, <2>2 DEF Lost
  <2> QED  BY <1>1, <1>3, <1>5, <2>2, <2>3 DEF HasShard
<1>8. RecordedInFile'
  BY <1>1, <1>2 DEF ShardInv, RecordedInFile, InFile, Lost
<1>9. CurrentInFile'
  BY <1>1, <1>4 DEF CurrentInFile, IsCurrent
<1> QED  BY <1>6, <1>7, <1>8, <1>9 DEF ShardInv

LEMMA ShardStatement ==
  ASSUME CatalogInv, ShardInv, Statement
  PROVE  ShardInv'
<1>1. \/ Ended /\ UNCHANGED metafile
      \/ UNCHANGED <<m_map, todo, flushing, queued, m_is_registered, running, recorded, torn,
                     dropped, metafile>>
  BY DEF Statement, CreateDatabase, Use, ReadMissing, ShowElsewhere, CreateTable,
         CreateTableAgain, ClearSystemFile, CreateDatabaseFile, LoadDatabase, ShowTables,
         CreateTableFile, Dies, disk, memory, plan, meta, history
<1> QED  BY <1>1, ShardEnds, ShardFrame

\* A slot that is replaced is dropped, and the new one has no shard.
LEMMA ShardResolve ==
  ASSUME CatalogInv, ShardInv, NEW w \in Workers, NEW t \in Tables, NEW f \in Fields,
         Resolve(w, t, f)
  PROVE  ShardInv'
<1>1. ~flushing /\ UNCHANGED <<todo, flushing, queued, m_is_registered, running, recorded, torn,
                               metafile>>
  BY DEF Resolve, disk, meta
<1>2. CASE t \in DOMAIN m_map
  BY <1>1, <1>2, ShardFrame DEF Resolve
<1>3. CASE t \notin DOMAIN m_map
  <2>1. m_map' = Replaced(t) /\ dropped' = dropped \cup (DOMAIN m_map \cap TablesOf(t[1]))
    BY <1>3 DEF Resolve
  <2>2. DOMAIN m_map \subseteq Tables  BY DEF CatalogInv, Types, SlotTypes
  <2>3. /\ DOMAIN m_map' = {v \in DOMAIN m_map : v[1] # t[1]} \cup {t}
        /\ m_map'[t].shard = 0
        /\ \A u \in DOMAIN m_map' \ {t} : m_map'[u] = m_map[u]
    BY <2>1 DEF Replaced
  <2>4. FileIsMade'  BY <1>1 DEF ShardInv, FileIsMade
  <2>5. RecordedInMemory'
    <3> SUFFICES ASSUME running, NEW u \in recorded, ~Lost(u)' PROVE HasShard(u)'
      BY <1>1 DEF RecordedInMemory
    <3>1. HasShard(u)
      BY <1>1, <2>1 DEF Lost, ShardInv, RecordedInMemory
    <3>2. u \in DOMAIN m_map /\ u[1] # t[1]
      BY <2>1, <2>2, <3>1 DEF HasShard, Lost, TablesOf
    <3> QED  BY <1>3, <2>3, <3>1, <3>2 DEF HasShard
  <2>6. RecordedInFile'
    BY <1>1, <2>1 DEF ShardInv, RecordedInFile, InFile, Lost
  <2>7. CurrentInFile'
    BY <1>1, <1>3, <2>3 DEF ShardInv, CurrentInFile, IsCurrent, NothingDue
  <2> QED  BY <2>4, <2>5, <2>6, <2>7 DEF ShardInv
<1> QED  BY <1>2, <1>3

\* A shard that is made or changed stays one; a change is registered.
LEMMA ShardGrows ==
  ASSUME CatalogInv, ShardInv, NEW t \in DOMAIN m_map, NEW n \in Nat, n > 0,
         m_map' = [m_map EXCEPT ![t].shard = n],
         n <= 1 \/ n = m_map[t].shard \/ m_is_registered',
         m_is_registered => m_is_registered',
         UNCHANGED <<todo, flushing, queued, running, recorded, torn, dropped, metafile>>
  PROVE  ShardInv'
<1>1. m_map[t] \in Slots  BY DEF CatalogInv, Types, SlotTypes
<1>2. /\ DOMAIN m_map' = DOMAIN m_map /\ m_map'[t].shard = n
      /\ \A u \in DOMAIN m_map \ {t} : m_map'[u] = m_map[u]
  BY <1>1 DEF Slots
<1>3. \A u : HasShard(u) => HasShard(u)'  BY <1>2 DEF HasShard
<1>4. FileIsMade' /\ RecordedInMemory' /\ RecordedInFile'
  BY <1>3 DEF ShardInv, FileIsMade, RecordedInMemory, RecordedInFile, InFile, Lost
<1>5. CurrentInFile'
  BY <1>1, <1>2 DEF ShardInv, CurrentInFile, IsCurrent, NothingDue, Slots
<1> QED  BY <1>4, <1>5 DEF ShardInv

LEMMA ShardInsert ==
  ASSUME CatalogInv, ShardInv, InsertStep
  PROVE  ShardInv'
<1>1. PICK w \in Workers :
        \/ \E t \in Tables, f \in Fields : Resolve(w, t, f)
        \/ CheckField(w) \/ ReadFields(w) \/ StoreField(w) \/ AddField(w)
        \/ WritePoint(w) \/ WriteGone(w)
  BY DEF InsertStep
<1>2. CASE WritePoint(w)
  <2> DEFINE t == task[w].table
             n == IF m_map[t].shard = 0 THEN 1 ELSE m_map[t].shard
  <2>1. t \in DOMAIN m_map /\ m_map[t] \in Slots
    BY <1>2 DEF WritePoint, At, NoTask, CatalogInv, Types, SlotTypes, WriterInv, ReferenceIsValid
  <2>2. CASE m_map[t].writer
    <3>1. /\ m_map' = [m_map EXCEPT ![t].shard = n]
          /\ UNCHANGED <<todo, flushing, queued, m_is_registered, running, recorded, torn,
                         dropped, metafile>>
      BY <1>2, <2>2 DEF WritePoint, disk, meta, history
    <3>2. n \in Nat /\ n > 0 /\ (n <= 1 \/ n = m_map[t].shard)
      BY <2>1 DEF Slots
    <3> HIDE DEF n, t
    <3> QED  BY <2>1, <3>1, <3>2, ShardGrows
  <2>3. CASE ~m_map[t].writer
    BY <1>2, <2>3, ShardEnds DEF WritePoint, DiesOfWriter, disk
  <2> QED  BY <2>2, <2>3
<1>3. CASE CheckField(w) \/ ReadFields(w) \/ StoreField(w) \/ AddField(w) \/ WriteGone(w)
  <2>1. \/ Ended /\ UNCHANGED metafile
        \/ UNCHANGED <<m_map, todo, flushing, queued, m_is_registered, running, recorded, torn,
                       dropped, metafile>>
    BY <1>3 DEF CheckField, ReadFields, StoreField, AddField, WriteGone, Dies, DiesOfWriter,
                disk, plan, meta, history
  <2> QED  BY <2>1, ShardEnds, ShardFrame
<1> QED  BY <1>1, <1>2, <1>3, ShardResolve

-----------------------------------------------------------------------------
(* flushes *)

\* The file is truncated with the shards of memory still to be written.
LEMMA ShardBegins ==
  ASSUME CatalogInv, ShardInv, BeginMeta
  PROVE  ShardInv'
<1>1. /\ running /\ flushing' /\ todo' = DOMAIN m_map /\ metafile' = <<>>
      /\ UNCHANGED <<m_map, running, recorded, torn, dropped>>
  BY DEF BeginMeta, history
<1>2. FileIsMade'  BY <1>1 DEF FileIsMade
<1>3. RecordedInMemory' /\ RecordedInFile'
  BY <1>1 DEF ShardInv, RecordedInMemory, RecordedInFile, HasShard, Lost
<1>4. CurrentInFile'  BY <1>1 DEF CurrentInFile
<1> QED  BY <1>2, <1>3, <1>4 DEF ShardInv

LEMMA ShardRecorded ==
  ASSUME CatalogInv, ShardInv, NEW t \in Tables, RecordShards(t)
  PROVE  ShardInv'
<1>1. running /\ t \in todo /\ t \in DOMAIN m_map /\ flushing
  BY DEF RecordShards, CatalogInv, Types, FlushTypes
<1>2. m_map[t].shard \in Nat
  BY <1>1 DEF CatalogInv, Types, SlotTypes, Slots
<1>3. CASE m_map[t].writer
  <2>1. /\ metafile' = Record(t) /\ todo' = todo \ {t}
        /\ UNCHANGED <<m_map, running, flushing, m_is_registered, queued, recorded, torn, dropped>>
    BY <1>3 DEF RecordShards, history
  <2> DEFINE x == <<t, m_map[t].shard>>
  <2>2. \A i \in DOMAIN metafile : i \in DOMAIN metafile' /\ metafile'[i] = metafile[i]
    BY <2>1 DEF Record, CatalogInv, Types, FileTypes
  <2>3. \A i \in DOMAIN metafile' : i \in DOMAIN metafile \/ (metafile'[i] = x /\ m_map[t].shard > 0)
    <3>1. CASE m_map[t].shard = 0
      <4>1. metafile' = metafile  BY <2>1, <3>1 DEF Record
      <4> QED  BY <4>1
    <3>2. CASE m_map[t].shard # 0
      <4>1. metafile' = Append(metafile, x)  BY <2>1, <3>2 DEF Record
      <4>2. metafile \in Seq(Tables \X Nat)  BY DEF CatalogInv, Types, FileTypes
      <4> QED  BY <1>2, <3>2, <4>1, <4>2
    <3> QED  BY <3>1, <3>2
  <2>4. m_map[t].shard > 0 => \E i \in DOMAIN metafile' : metafile'[i] = x
    BY <2>1 DEF Record, CatalogInv, Types, FileTypes
  <2> HIDE DEF x
  <2>5. x[1] = t /\ x[2] = m_map[t].shard  BY DEF x
  <2>6. FileIsMade'
    <3> SUFFICES ASSUME NEW i \in DOMAIN metafile'
                 PROVE  (metafile[i][2] > 0 /\ HasShard(metafile[i][1]))'
      BY <1>1, <2>1 DEF FileIsMade
    <3>1. CASE i \in DOMAIN metafile
      BY <1>1, <2>1, <2>2, <3>1 DEF ShardInv, FileIsMade, HasShard
    <3>2. CASE metafile'[i] = x /\ m_map[t].shard > 0
      BY <1>1, <2>1, <2>5, <3>2 DEF HasShard
    <3> QED  BY <2>3, <3>1, <3>2
  <2>7. RecordedInMemory'
    BY <2>1 DEF ShardInv, RecordedInMemory, HasShard, Lost
  <2>8. RecordedInFile'
    <3> SUFFICES ASSUME NEW u \in recorded, ~Lost(u), ~(u \in todo') PROVE InFile(u)'
      BY <1>1, <2>1 DEF RecordedInFile, Lost
    <3>1. CASE u = t
      <4>1. m_map[t].shard > 0
        BY <1>1, <3>1 DEF ShardInv, RecordedInMemory, HasShard
      <4> QED  BY <2>4, <2>5, <3>1, <4>1 DEF InFile
    <3>2. CASE u # t
      <4>1. InFile(u)  BY <2>1, <3>2 DEF ShardInv, RecordedInFile
      <4> QED  BY <2>2, <4>1 DEF InFile
    <3> QED  BY <3>1, <3>2
  <2>9. CurrentInFile'
    <3> SUFFICES ASSUME NothingDue, NEW u \in DOMAIN m_map, ~(u \in todo') PROVE IsCurrent(u)'
      BY <1>1, <2>1 DEF CurrentInFile, NothingDue
    <3>1. CASE u = t
      <4>1. m_map[t].shard > 1 => \E i \in DOMAIN metafile' : metafile'[i] = x
        BY <1>2, <2>4
      <4> QED  BY <2>1, <3>1, <4>1 DEF IsCurrent, x
    <3>2. CASE u # t
      <4>1. IsCurrent(u)  BY <2>1, <3>2 DEF ShardInv, CurrentInFile
      <4> QED  BY <2>1, <2>2, <4>1 DEF IsCurrent
    <3> QED  BY <3>1, <3>2
  <2> QED  BY <2>6, <2>7, <2>8, <2>9 DEF ShardInv
<1>4. CASE ~m_map[t].writer
  BY <1>4, ShardEnds DEF RecordShards, DiesOfWriter
<1> QED  BY <1>3, <1>4

\* What the file has when it is closed is recorded, and in memory.
LEMMA ShardRecords ==
  ASSUME CatalogInv, ShardInv, EndMeta
  PROVE  ShardInv'
<1>1. /\ running /\ flushing /\ ~flushing' /\ todo = {}
      /\ recorded' = recorded \cup {metafile[i][1] : i \in DOMAIN metafile}
      /\ UNCHANGED <<m_map, metafile, running, m_is_registered, queued, torn, dropped>>
  BY DEF EndMeta, disk
<1>2. FileIsMade'  BY <1>1 DEF ShardInv, FileIsMade
<1>3. RecordedInMemory'
  BY <1>1 DEF ShardInv, FileIsMade, RecordedInMemory, HasShard, Lost
<1>4. RecordedInFile'
  BY <1>1 DEF ShardInv, RecordedInFile, InFile, Lost
<1>5. CurrentInFile'
  BY <1>1 DEF ShardInv, CurrentInFile, IsCurrent, NothingDue
<1> QED  BY <1>2, <1>3, <1>4, <1>5 DEF ShardInv

LEMMA ShardWrites ==
  ASSUME CatalogInv, ShardInv, NEW t \in Tables, DiskWrite(t)
  PROVE  ShardInv'
<1>1. UNCHANGED <<metafile, running, queued, flushing, recorded, torn, dropped>>
  BY DEF DiskWrite, disk, history
<1>2. CASE t \in DOMAIN m_map
  <2>1. m_map[t].shard \in Nat
    BY <1>2 DEF CatalogInv, Types, SlotTypes, Slots
  <2>2. CASE m_map[t].writer
    <3> DEFINE n == IF m_map[t].shard < MaxVersion THEN m_map[t].shard + 1 ELSE 2
    <3>1. m_map' = [m_map EXCEPT ![t].shard = n] /\ m_is_registered' /\ todo' = todo
      BY <1>2, <2>2 DEF DiskWrite
    <3>2. n \in Nat /\ n > 0  BY <2>1
    <3> HIDE DEF n
    <3> QED  BY <1>1, <1>2, <3>1, <3>2, ShardGrows
  <2>3. CASE ~m_map[t].writer
    BY <1>1, <1>2, <2>3, ShardFrame DEF DiskWrite
  <2> QED  BY <2>2, <2>3
<1>3. CASE t \notin DOMAIN m_map
  <2> DEFINE slot == [writer |-> FALSE, shard |-> 0]
  <2>1. m_map' = Put(m_map, t, slot) /\ todo \subseteq todo' /\ UNCHANGED m_is_registered
    BY <1>3 DEF DiskWrite
  <2>2. slot.shard = 0  OBVIOUS
  <2> HIDE DEF slot
  <2>3. /\ DOMAIN m_map' = DOMAIN m_map \cup {t} /\ m_map'[t] = slot
        /\ \A u \in DOMAIN m_map : m_map'[u] = m_map[u]
    BY <1>3, <2>1 DEF Put
  <2>4. \A u : HasShard(u) => HasShard(u)'  BY <2>3 DEF HasShard
  <2>5. FileIsMade' /\ RecordedInMemory' /\ RecordedInFile'
    BY <1>1, <2>1, <2>4 DEF ShardInv, FileIsMade, RecordedInMemory, RecordedInFile, InFile, Lost
  <2>6. CurrentInFile'
    BY <1>1, <2>1, <2>2, <2>3 DEF ShardInv, CurrentInFile, IsCurrent, NothingDue
  <2> QED  BY <2>5, <2>6 DEF ShardInv
<1> QED  BY <1>2, <1>3

LEMMA ShardFlush ==
  ASSUME CatalogInv, ShardInv, FlushStep
  PROVE  ShardInv'
<1>1. CASE ShardsDue
  <2>1. /\ UNCHANGED <<m_map, todo, flushing, running, recorded, torn, dropped, metafile>>
        /\ queued = 0 /\ queued' = queued + 1
    BY <1>1 DEF ShardsDue, disk, history
  <2>2. CurrentInFile'  BY <2>1 DEF CurrentInFile, NothingDue
  <2>3. FileIsMade' /\ RecordedInMemory' /\ RecordedInFile'
    BY <2>1 DEF ShardInv, FileIsMade, RecordedInMemory, RecordedInFile, InFile, Lost, HasShard
  <2> QED  BY <2>2, <2>3 DEF ShardInv
<1> QED
  BY <1>1, ShardBegins, ShardRecorded, ShardRecords, ShardWrites DEF FlushStep

-----------------------------------------------------------------------------

\* ShardState::iterate_map resets the count of changes when it queues a flush of the
\* metadata, and flush_shard_meta_thread rewrites meta.tsm in place: when nothing is due
\* the file has the last version of each shard, and a shard it once had it keeps, unless
\* the process ended inside a rewrite or the entry of the database was replaced.
THEOREM ShardsSurvive == Spec => []ShardsArePersistent
<1>1. CatalogInv /\ ShardInv /\ [Next]_vars => ShardInv'
  <2> SUFFICES ASSUME CatalogInv, ShardInv, [Next]_vars PROVE ShardInv'  OBVIOUS
  <2>1. CASE Crash
    BY <2>1, ShardEnds DEF Crash, Dies, disk
  <2>2. CASE UNCHANGED vars
    BY <2>2, ShardFrame DEF vars, disk, memory, meta, history
  <2> QED
    BY <2>1, <2>2, ShardStatement, ShardInsert, ShardFlush, ShardRestarts DEF Next
<1>2. CatalogInv /\ ShardInv => ShardsArePersistent
  <2> SUFFICES ASSUME CatalogInv, ShardInv PROVE ShardsArePersistent  OBVIOUS
  <2>1. MetaFileIsCurrent
    BY DEF MetaFileIsCurrent, ShardInv, CurrentInFile, NothingDue, IsCurrent
  <2>2. RecordedShardSurvives
    <3> SUFFICES ASSUME NEW t \in recorded, ~Lost(t) PROVE InFile(t) \/ HasShard(t)
      BY DEF RecordedShardSurvives, Lost, InFile, HasShard
    <3>1. CASE flushing
      BY <3>1 DEF ShardInv, FileIsMade, RecordedInMemory
    <3>2. CASE ~flushing
      BY <3>2 DEF ShardInv, RecordedInFile
    <3> QED  BY <3>1, <3>2
  <2> QED  BY <2>1, <2>2 DEF ShardsArePersistent
<1> QED  BY ShardInit, CatalogInvariant, <1>1, <1>2, PTL DEF Spec

-----------------------------------------------------------------------------
(***************************************************************************)
(* Proofs about the tables and fields of Catalog, for any databases,       *)
(* tables, fields and producers, through crashes and restarts: memory has  *)
(* what the files have, and who records a field twice.                     *)
(***************************************************************************)

(* tables: TableEngineManager and sys-metadata *)

LineTypes ==
  /\ DOMAIN lines \subseteq dirs
  /\ dirs \subseteq Databases
  /\ \A db \in DOMAIN lines : lines[db] \in Seq(TablesOf(db)) /\ IsInjective(lines[db])

\* Memory has all the tables of a database or none.
KnownAgrees ==
  \A db \in Databases :
    Known(db) => db \in DOMAIN lines /\ m_tab_eng_map \cap TablesOf(db) = ToSet(lines[db])

\* The database in use has been read.
CurrentIsRead ==
  m_curr_db # None =>
    m_curr_db \in DOMAIN lines /\ (Known(m_curr_db) \/ lines[m_curr_db] = <<>>)

Listed(t) == t[1] \in DOMAIN lines /\ t \in ToSet(lines[t[1]])

\* What the statement loop is about to do fits the files.
MainFits ==
  /\ main.op = "database" => main.db \in dirs \ DOMAIN lines
  /\ main.op = "use" => main.db \in DOMAIN lines
  /\ main.op = "table" => Listed(main.table)

LinesInv == LineTypes /\ KnownAgrees /\ CurrentIsRead /\ MainFits

\* Each conjunct as the property has it.
LEMMA LinesAgree == LinesInv => MapAgreesWithFile
BY DEF LinesInv, LineTypes, KnownAgrees, MapAgreesWithFile

\* The tables of a finite set, in some order.
LEMMA SomeOrder ==
  ASSUME NEW S, IsFiniteSet(S)
  PROVE  SetToSeq(S) \in Seq(S) /\ IsInjective(SetToSeq(S))
<1>1. Cardinality(S) \in Nat /\ ExistsBijection(1..Cardinality(S), S)
  BY FS_CardinalityType
<1>2. \E f \in [1..Cardinality(S) -> S] : IsInjective(f)
  BY <1>1 DEF ExistsBijection, Bijection, Injection
<1>3. SetToSeq(S) \in [1..Cardinality(S) -> S] /\ IsInjective(SetToSeq(S))
  BY <1>2 DEF SetToSeq
<1> QED  BY <1>1, <1>3

LEMMA LinesInit == Init => LinesInv
<1> SUFFICES ASSUME Init PROVE LinesInv  OBVIOUS
<1>1. PICK old \in {{}, Old} : /\ dirs = {t[1] : t \in old}
                              /\ lines = [db \in dirs |-> SetToSeq(old \cap TablesOf(db))]
  BY DEF Init
<1>2. old \subseteq Tables /\ IsFiniteSet(old)
  BY CatalogAssumption, FS_EmptySet
<1>3. ASSUME NEW db \in dirs
      PROVE  lines[db] \in Seq(TablesOf(db)) /\ IsInjective(lines[db])
  <2> DEFINE S == old \cap TablesOf(db)
  <2>1. IsFiniteSet(S)  BY <1>2, FS_Subset
  <2> HIDE DEF S
  <2>2. SetToSeq(S) \in Seq(S) /\ IsInjective(SetToSeq(S))  BY <2>1, SomeOrder
  <2>3. S \subseteq TablesOf(db)  BY DEF S
  <2>4. SetToSeq(S) \in Seq(TablesOf(db))  BY <2>2, <2>3
  <2> QED  BY <1>1, <1>3, <2>2, <2>4 DEF S
<1>4. dirs \subseteq Databases  BY <1>1, <1>2, CatalogAssumption
<1>5. LineTypes  BY <1>1, <1>3, <1>4 DEF LineTypes
<1>6. m_tab_eng_map = {} /\ m_curr_db = None /\ main.op = "idle"  BY DEF Init, Idle
<1>7. KnownAgrees /\ CurrentIsRead /\ MainFits
  BY <1>6 DEF KnownAgrees, Known, CurrentIsRead, MainFits
<1> QED  BY <1>5, <1>7 DEF LinesInv

LEMMA NothingListed ==
  ASSUME NEW S, NEW s \in Seq(S), ToSet(s) = {}
  PROVE  s = <<>>
<1>1. 1 \notin DOMAIN s  BY DEF ToSet
<1>2. Len(s) = 0  BY <1>1
<1> QED  BY <1>2

LEMMA LinesFrame ==
  ASSUME LinesInv, UNCHANGED <<dirs, lines, m_tab_eng_map, m_curr_db>>,
         UNCHANGED main \/ main' = Idle
  PROVE  LinesInv'
BY DEF LinesInv, LineTypes, KnownAgrees, Known, CurrentIsRead, MainFits, Listed, Idle

LEMMA LinesEnd ==
  ASSUME LinesInv, Ended, UNCHANGED <<dirs, lines>>
  PROVE  LinesInv'
BY DEF LinesInv, Ended, LineTypes, KnownAgrees, Known, CurrentIsRead, MainFits, Idle

\* Reading sys-metadata makes a database known, if it has tables.
LEMMA LinesRead ==
  ASSUME LinesInv, NEW db \in Databases, Known(db) \/ db \in DOMAIN lines,
         LoadDatabaseMetadata(db), UNCHANGED <<dirs, lines>>,
         m_curr_db' \in {m_curr_db, db},
         UNCHANGED main \/ main' = Idle \/ main' = [op |-> "use", db |-> db]
  PROVE  LinesInv'
<1>1. db \in DOMAIN lines  BY DEF LinesInv, KnownAgrees
<1>2. ToSet(lines[db]) \subseteq TablesOf(db)
  BY <1>1 DEF LinesInv, LineTypes, ToSet
<1>3. \A e \in Databases : e # db => TablesOf(e) \cap TablesOf(db) = {}
  BY DEF TablesOf
<1>4. \A e \in Databases : e # db => m_tab_eng_map' \cap TablesOf(e) = m_tab_eng_map \cap TablesOf(e)
  BY <1>2, <1>3 DEF LoadDatabaseMetadata
<1>5. Known(db)' <=> ToSet(lines[db]) # {}
  BY <1>2 DEF LoadDatabaseMetadata, LinesInv, KnownAgrees, Known
<1>6. m_tab_eng_map' \cap TablesOf(db) = ToSet(lines[db])
  BY <1>2 DEF LoadDatabaseMetadata, LinesInv, KnownAgrees, Known
<1>7. KnownAgrees'
  BY <1>1, <1>4, <1>6 DEF LinesInv, KnownAgrees, Known
<1>8. ToSet(lines[db]) = {} => lines[db] = <<>>
  BY <1>1, NothingListed DEF LinesInv, LineTypes
<1>9. m_curr_db # None => m_curr_db \in Databases
  BY DEF LinesInv, CurrentIsRead, LineTypes
<1>10. CurrentIsRead'
  BY <1>1, <1>4, <1>5, <1>8, <1>9 DEF LinesInv, CurrentIsRead, Known
<1>11. MainFits'
  BY <1>1 DEF LinesInv, MainFits, Listed, Idle
<1>12. LineTypes'  BY DEF LinesInv, LineTypes
<1> QED  BY <1>7, <1>10, <1>11, <1>12 DEF LinesInv

\* A new table is on no line.
LEMMA NewIsNotListed ==
  ASSUME LinesInv, NEW t \in Tables, IsNewTable(t)
  PROVE  t[1] \in DOMAIN lines /\ t \notin ToSet(lines[t[1]])
<1>1. t[1] \in Databases /\ t \in TablesOf(t[1])  BY CatalogAssumption DEF TablesOf
<1>2. t[1] \in DOMAIN lines /\ (Known(t[1]) \/ lines[t[1]] = <<>>)
  BY <1>1, CatalogAssumption DEF IsNewTable, LinesInv, CurrentIsRead
<1>3. CASE Known(t[1])
  BY <1>1, <1>2, <1>3 DEF IsNewTable, LinesInv, KnownAgrees
<1>4. CASE lines[t[1]] = <<>>
  BY <1>2, <1>4 DEF ToSet
<1> QED  BY <1>2, <1>3, <1>4

\* A line that is appended.
LEMMA ToSetAppend ==
  ASSUME NEW S, NEW s \in Seq(S), NEW x \in S
  PROVE  /\ Append(s, x) \in Seq(S)
         /\ ToSet(Append(s, x)) = ToSet(s) \cup {x}
         /\ IsInjective(s) /\ x \notin ToSet(s) => IsInjective(Append(s, x))
<1>1. ToSet(Append(s, x)) = ToSet(s) \cup {x}
  <2>1. \A i \in 1..Len(s) : Append(s, x)[i] = s[i]  OBVIOUS
  <2>2. Append(s, x)[Len(s) + 1] = x /\ DOMAIN Append(s, x) = 1..(Len(s) + 1)  OBVIOUS
  <2> QED  BY <2>1, <2>2 DEF ToSet
<1>2. IsInjective(s) /\ x \notin ToSet(s) => IsInjective(Append(s, x))
  BY DEF IsInjective, ToSet
<1> QED  BY <1>1, <1>2

LEMMA LinesCreateTable ==
  ASSUME LinesInv, NEW t \in Tables, CreateTable(t)
  PROVE  LinesInv'
<1> DEFINE db == t[1]
<1>1. db \in Databases /\ t \in TablesOf(db)  BY CatalogAssumption DEF TablesOf
<1>2. db \in DOMAIN lines /\ t \notin ToSet(lines[db])
  BY NewIsNotListed DEF CreateTable
<1>3. lines[db] \in Seq(TablesOf(db)) /\ IsInjective(lines[db])
  BY <1>2 DEF LinesInv, LineTypes
<1> DEFINE new == Append(lines[db], t)
<1>4. new \in Seq(TablesOf(db)) /\ ToSet(new) = ToSet(lines[db]) \cup {t} /\ IsInjective(new)
  BY <1>1, <1>2, <1>3, ToSetAppend
<1>5. lines' = Put(lines, db, new) /\ UNCHANGED <<dirs, m_curr_db>>
      /\ m_tab_eng_map' = m_tab_eng_map \cup {t} /\ main' = [op |-> "table", table |-> t]
      /\ m_curr_db = db
  BY <1>2 DEF CreateTable, IsNewTable
<1> HIDE DEF new, db
<1>6. /\ DOMAIN lines' = DOMAIN lines /\ lines'[db] = new
      /\ \A e \in DOMAIN lines : e # db => lines'[e] = lines[e]
  BY <1>2, <1>5 DEF Put
<1>7. LineTypes'  BY <1>4, <1>5, <1>6 DEF LinesInv, LineTypes
<1>8. \A e \in Databases : e # db => m_tab_eng_map' \cap TablesOf(e) = m_tab_eng_map \cap TablesOf(e)
  BY <1>1, <1>5 DEF TablesOf
<1>9. m_tab_eng_map' \cap TablesOf(db) = ToSet(new)
  <2>1. CASE Known(db)
    BY <1>1, <1>4, <1>5, <2>1 DEF LinesInv, KnownAgrees
  <2>2. CASE ~Known(db)
    <3>1. lines[db] = <<>>
      BY <1>2, <1>5, <2>2, CatalogAssumption, <1>1 DEF LinesInv, CurrentIsRead
    <3>2. ToSet(lines[db]) = {}  BY <3>1 DEF ToSet
    <3> QED  BY <1>1, <1>4, <1>5, <2>2, <3>2 DEF Known
  <2> QED  BY <2>1, <2>2
<1>10. KnownAgrees'
  <2> SUFFICES ASSUME NEW e \in Databases, Known(e)'
               PROVE  (e \in DOMAIN lines /\ m_tab_eng_map \cap TablesOf(e) = ToSet(lines[e]))'
    BY DEF KnownAgrees
  <2>1. CASE e = db  BY <1>2, <1>6, <1>9, <2>1
  <2>2. CASE e # db
    BY <1>6, <1>8, <2>2 DEF LinesInv, KnownAgrees, Known
  <2> QED  BY <2>1, <2>2
<1>11. CurrentIsRead'
  BY <1>1, <1>2, <1>5, <1>6 DEF CurrentIsRead, Known
<1>12. MainFits'
  <2>1. Listed(t)'  BY <1>2, <1>4, <1>5, <1>6 DEF Listed, db
  <2> QED  BY <1>5, <2>1 DEF MainFits
<1> QED  BY <1>7, <1>10, <1>11, <1>12 DEF LinesInv

LEMMA LinesStep ==
  ASSUME LinesInv, [Next]_vars
  PROVE  LinesInv'
<1>1. ASSUME NEW db \in Databases, CreateDatabase(db) PROVE LinesInv'
  <2>1. /\ db \notin dirs /\ dirs' = dirs \cup {db} /\ main' = [op |-> "database", db |-> db]
        /\ UNCHANGED <<lines, m_tab_eng_map, m_curr_db>>
    BY <1>1 DEF CreateDatabase
  <2> QED
    BY <2>1 DEF LinesInv, LineTypes, KnownAgrees, Known, CurrentIsRead, MainFits
<1>2. CASE CreateDatabaseFile
  <2>1. /\ main.db \in dirs \ DOMAIN lines /\ main' = Idle /\ lines' = Put(lines, main.db, <<>>)
        /\ UNCHANGED <<dirs, m_tab_eng_map, m_curr_db>>
    BY <1>2 DEF CreateDatabaseFile, LinesInv, MainFits
  <2>2. /\ DOMAIN lines' = DOMAIN lines \cup {main.db} /\ lines'[main.db] = <<>>
        /\ \A e \in DOMAIN lines : lines'[e] = lines[e]
    BY <2>1 DEF Put
  <2>3. <<>> \in Seq(TablesOf(main.db)) /\ IsInjective(<<>>)
    BY DEF IsInjective
  <2>4. LineTypes'  BY <2>1, <2>2, <2>3 DEF LinesInv, LineTypes
  <2>5. KnownAgrees' /\ CurrentIsRead'
    BY <2>1, <2>2 DEF LinesInv, KnownAgrees, Known, CurrentIsRead
  <2> QED  BY <2>1, <2>4, <2>5 DEF LinesInv, MainFits, Idle
<1>3. ASSUME NEW db \in Databases, Use(db) \/ ShowElsewhere(db) PROVE LinesInv'
  BY <1>3, LinesRead DEF Use, ShowElsewhere, disk
<1>4. ASSUME NEW t \in Tables, CreateTable(t) PROVE LinesInv'
  BY <1>4, LinesCreateTable
<1>5. ASSUME \/ \E db \in Databases : ReadMissing(db)
             \/ \E t \in Tables : CreateTableAgain(t) \/ ClearSystemFile(t)
             \/ LoadDatabase \/ ShowTables \/ CreateTableFile
      PROVE  LinesInv'
  BY <1>5, LinesEnd, LinesFrame
     DEF ReadMissing, CreateTableAgain, ClearSystemFile, LoadDatabase, ShowTables,
         CreateTableFile, Dies, disk, memory, plan
<1>6. CASE InsertStep
  BY <1>6, LinesEnd, LinesFrame
     DEF InsertStep, Resolve, CheckField, ReadFields, StoreField, AddField, WritePoint, WriteGone,
         Dies, DiesOfWriter, disk, plan
<1>7. CASE FlushStep
  BY <1>7, LinesEnd, LinesFrame
     DEF FlushStep, ShardsDue, BeginMeta, EndMeta, DiskWrite, RecordShards, DiesOfWriter, disk, plan
<1>8. CASE Crash \/ Restart \/ UNCHANGED vars
  BY <1>8, LinesEnd, LinesFrame DEF Crash, Restart, vars, Dies, disk, memory, plan
<1> QED
  BY <1>1, <1>2, <1>3, <1>4, <1>5, <1>6, <1>7, <1>8 DEF Next, Statement

-----------------------------------------------------------------------------
(* fields: Controller::m_db_mea_map and the sys- files *)

\* The table is on its line and has no sys- file yet.
IsMaking(t) == main.op = "table" /\ main.table = t

FieldsInMemory(t) == IF t \in DOMAIN m_mea_fields THEN m_mea_fields[t] ELSE {}

Loads(t) == t \in m_tables \/ t \in DOMAIN m_mea_fields

\* The producers that are at pc with field f of table t.
Doing(w, pc, t) == task[w].pc = pc /\ task[w].table = t

\* Tables that the engine knows are listed, and made.
TablesAreListed ==
  /\ \A t \in Tables : Loads(t) => Listed(t) /\ ~IsMaking(t)
  /\ m_tables \subseteq Tables /\ DOMAIN m_mea_fields \subseteq Tables
  /\ \A w \in Workers : task[w] # NoTask => task[w].table \in m_tables

\* A producer that stores has the mutex and has read what the file has; one that has
\* stored finds its field there.
StoresWhatIsThere ==
  \A w \in Workers :
    /\ task[w].pc = "store" =>
         /\ m_meta_mutex = w /\ task[w].table \in DOMAIN sysfile
         /\ task[w].table \in cleared \/ task[w].seen = sysfile[task[w].table]
    /\ task[w].pc = "add" =>
         task[w].table \in cleared \/ task[w].field \in FileFields(task[w].table)

\* What the file of a loaded table has, memory has or is about to have.
FileFieldIsInMemory ==
  \A t \in Tables : Loads(t) /\ t \notin cleared =>
    \A f \in FileFields(t) :
      f \in FieldsInMemory(t) \/ \E w \in Workers : Doing(w, "add", t) /\ task[w].field = f

\* A field that is about to be stored is new, and only one producer stores it, but for
\* those that met.
StoredFieldIsNew ==
  \A w \in Workers : task[w].pc \in {"record", "store"} =>
    \/ task[w].table \in cleared
    \/ <<task[w].table, task[w].field>> \in raced
    \/ task[w].field \notin FileFields(task[w].table)

TwoHaveRaced ==
  \A t \in Tables, f \in Fields : \A v, w \in Adding(t, f) : v = w \/ <<t, f>> \in raced

FieldInv ==
  /\ TablesAreListed /\ FieldInMemoryIsOnDisk /\ StoresWhatIsThere
  /\ FileFieldIsInMemory /\ StoredFieldIsNew /\ TwoHaveRaced /\ DuplicateOnlyByRace

FieldVars == <<m_tables, m_mea_fields, sysfile, cleared, raced, task, m_meta_mutex>>

LEMMA FieldInit == Init => FieldInv
<1> SUFFICES ASSUME Init PROVE FieldInv  OBVIOUS
<1>1. /\ m_tables = {} /\ m_mea_fields = <<>> /\ main.op = "idle"
      /\ \A w \in Workers : task[w] = NoTask
  BY DEF Init, Idle
<1>2. \A t \in DOMAIN sysfile : sysfile[t] = <<>>
  <2>1. PICK old \in {{}, Old} : sysfile \in UNION {[S -> {<<>>}] : S \in SUBSET old}
    BY DEF Init
  <2> QED  BY <2>1
<1>3. TablesAreListed /\ FieldInMemoryIsOnDisk /\ FileFieldIsInMemory
  BY <1>1 DEF TablesAreListed, FieldInMemoryIsOnDisk, FileFieldIsInMemory, Loads, NoTask
<1>4. StoresWhatIsThere /\ StoredFieldIsNew /\ TwoHaveRaced
  BY <1>1 DEF StoresWhatIsThere, StoredFieldIsNew, TwoHaveRaced, Adding, NoTask
<1>5. DuplicateOnlyByRace  BY <1>2 DEF DuplicateOnlyByRace
<1> QED  BY <1>3, <1>4, <1>5 DEF FieldInv

\* A step of the statement loop may list a table and begin to make one.
LEMMA FieldFrame ==
  ASSUME FieldInv, UNCHANGED FieldVars,
         \A t \in Tables : Listed(t) => Listed(t)',
         \A t \in Tables : IsMaking(t)' => IsMaking(t) \/ ~Loads(t)
  PROVE  FieldInv'
<1> USE DEF FieldVars
<1>1. TablesAreListed'  BY DEF FieldInv, TablesAreListed, Loads
<1>2. FieldInMemoryIsOnDisk' /\ StoresWhatIsThere' /\ DuplicateOnlyByRace'
  BY DEF FieldInv, FieldInMemoryIsOnDisk, StoresWhatIsThere, DuplicateOnlyByRace, FileFields
<1>3. FileFieldIsInMemory' /\ StoredFieldIsNew' /\ TwoHaveRaced'
  BY DEF FieldInv, FileFieldIsInMemory, StoredFieldIsNew, TwoHaveRaced, Adding, FileFields,
         FieldsInMemory, Loads, Doing
<1> QED  BY <1>1, <1>2, <1>3 DEF FieldInv

LEMMA FieldEnds ==
  ASSUME FieldInv, Ended, UNCHANGED <<lines, sysfile>>
  PROVE  FieldInv'
<1>1. /\ m_tables' = {} /\ m_mea_fields' = <<>> /\ main'.op = "idle"
      /\ \A w \in Workers : task'[w] = NoTask
      /\ UNCHANGED <<cleared, raced>>
  BY DEF Ended, Idle
<1>2. TablesAreListed' /\ FieldInMemoryIsOnDisk' /\ FileFieldIsInMemory'
  BY <1>1 DEF TablesAreListed, FieldInMemoryIsOnDisk, FileFieldIsInMemory, Loads, NoTask
<1>3. StoresWhatIsThere' /\ StoredFieldIsNew' /\ TwoHaveRaced'
  BY <1>1 DEF StoresWhatIsThere, StoredFieldIsNew, TwoHaveRaced, Adding, NoTask
<1>4. DuplicateOnlyByRace'  BY <1>1 DEF FieldInv, DuplicateOnlyByRace
<1> QED  BY <1>2, <1>3, <1>4 DEF FieldInv

\* The step of one producer changes its pc alone.
LEMMA Moved ==
  ASSUME CatalogInv, NEW w \in Workers, NEW pc, Goto(w, pc)
  PROVE  \A v \in Workers :
           /\ task'[v].table = task[v].table /\ task'[v].field = task[v].field
           /\ task'[v].seen = task[v].seen
           /\ task'[v].pc = IF v = w THEN pc ELSE task[v].pc
<1>1. task \in [Workers -> Busy \cup {NoTask}]
  BY DEF CatalogInv, Types, TaskTypes
<1> DEFINE new == [task[w] EXCEPT !.pc = pc]
<1>2. /\ new.table = task[w].table /\ new.field = task[w].field /\ new.seen = task[w].seen
      /\ new.pc = pc
  BY <1>1 DEF Busy, NoTask
<1>3. task' = [task EXCEPT ![w] = new]  BY DEF Goto
<1> HIDE DEF new
<1> QED  BY <1>1, <1>2, <1>3

-----------------------------------------------------------------------------
(* inserts *)

LEMMA TaskFacts ==
  ASSUME CatalogInv, FieldInv, NEW w \in Workers, task[w].pc # "idle"
  PROVE  /\ task[w] \in Busy /\ task[w].table \in m_tables /\ task[w].table \in Tables
         /\ task[w].field \in Fields /\ Loads(task[w].table)
<1>1. task[w] \in Busy /\ task[w] # NoTask
  BY BusyApart DEF CatalogInv, Types, TaskTypes, NoTask
<1> QED  BY <1>1 DEF Busy, FieldInv, TablesAreListed, Loads

\* A step of a producer that leaves files and fields alone and is not about to store.
LEMMA FieldMoves ==
  ASSUME CatalogInv, FieldInv, NEW w \in Workers, task[w].pc \in {"check", "write"},
         UNCHANGED <<lines, m_tables, m_mea_fields, sysfile, cleared, raced, m_meta_mutex, main>>,
         NEW pc \in {"write", "idle"},
         \A v \in Workers : v # w => task'[v] = task[v],
         task'[w].pc = pc, task'[w].table = task[w].table \/ task'[w] = NoTask
  PROVE  FieldInv'
<1>1. task[w].table \in m_tables  BY TaskFacts
<1>2. TablesAreListed'
  BY <1>1 DEF FieldInv, TablesAreListed, Loads, Listed, IsMaking
<1>3. FieldInMemoryIsOnDisk' /\ DuplicateOnlyByRace'
  BY DEF FieldInv, FieldInMemoryIsOnDisk, DuplicateOnlyByRace, FileFields
<1>4. StoresWhatIsThere' /\ StoredFieldIsNew'
  BY DEF FieldInv, StoresWhatIsThere, StoredFieldIsNew, FileFields
<1>5. FileFieldIsInMemory' /\ TwoHaveRaced'
  BY DEF FieldInv, FileFieldIsInMemory, TwoHaveRaced, Adding, FileFields, FieldsInMemory, Loads,
         Doing
<1> QED  BY <1>2, <1>3, <1>4, <1>5 DEF FieldInv

\* A producer that does not find its field is the first, or meets another.
LEMMA FieldCheck ==
  ASSUME CatalogInv, FieldInv, NEW w \in Workers, CheckField(w)
  PROVE  FieldInv'
<1> DEFINE t == task[w].table
           f == task[w].field
<1>1. task[w].pc = "check" /\ UNCHANGED <<lines, m_tables, m_mea_fields, sysfile, cleared,
                                          m_meta_mutex, main>>
  BY DEF CheckField, At, disk, plan
<1>2. t \in m_tables /\ t \in Tables /\ f \in Fields /\ Loads(t) /\ task[w] \in Busy
  BY <1>1, TaskFacts
<1>3. CASE HasField(t, f)
  <2>1. Goto(w, "write") /\ UNCHANGED raced  BY <1>3 DEF CheckField
  <2>2. \A v \in Workers : v # w => task'[v] = task[v]
    BY <2>1 DEF Goto, CatalogInv, Types, TaskTypes
  <2>3. task'[w].pc = "write" /\ task'[w].table = task[w].table  BY <2>1, Moved
  <2> QED  BY <1>1, <2>1, <2>2, <2>3, FieldMoves
<1>4. CASE ~HasField(t, f)
  <2>1. Goto(w, "record") /\ raced' = IF Adding(t, f) # {} THEN raced \cup {<<t, f>>} ELSE raced
    BY <1>4 DEF CheckField
  <2>2. \A v \in Workers :
          /\ task'[v].table = task[v].table /\ task'[v].field = task[v].field
          /\ task'[v].seen = task[v].seen
          /\ task'[v].pc = IF v = w THEN "record" ELSE task[v].pc
    BY <2>1, Moved
  <2>3. raced \subseteq raced' /\ (Adding(t, f) # {} => <<t, f>> \in raced')
    BY <2>1
  <2>4. \A v \in Workers : task'[v] # NoTask => task'[v].table \in m_tables
    BY <1>2, <2>1, <2>2 DEF Goto, CatalogInv, Types, TaskTypes, FieldInv, TablesAreListed
  <2>5. TablesAreListed'
    BY <1>1, <2>4 DEF FieldInv, TablesAreListed, Loads, Listed, IsMaking
  <2>6. FieldInMemoryIsOnDisk' /\ DuplicateOnlyByRace'
    BY <1>1, <2>3 DEF FieldInv, FieldInMemoryIsOnDisk, DuplicateOnlyByRace, FileFields
  <2>7. StoresWhatIsThere'
    BY <1>1, <2>2 DEF FieldInv, StoresWhatIsThere, FileFields
  <2>8. FileFieldIsInMemory'
    BY <1>1, <2>2 DEF FieldInv, FileFieldIsInMemory, FileFields, FieldsInMemory, Loads, Doing
  <2>9. t \in cleared \/ <<t, f>> \in raced' \/ f \notin FileFields(t)
    <3> SUFFICES ASSUME t \notin cleared, f \in FileFields(t) PROVE Adding(t, f) # {}
      BY <2>3
    <3>1. f \notin FieldsInMemory(t)  BY <1>4 DEF HasField, FieldsInMemory
    <3>2. \E v \in Workers : Doing(v, "add", t) /\ task[v].field = f
      BY <1>2, <3>1 DEF FieldInv, FileFieldIsInMemory
    <3> QED  BY <3>2 DEF Doing, Adding
  <2>10. StoredFieldIsNew'
    BY <1>1, <2>2, <2>3, <2>9 DEF FieldInv, StoredFieldIsNew, FileFields
  <2>11. TwoHaveRaced'
    <3> SUFFICES ASSUME NEW u \in Tables, NEW g \in Fields, NEW v \in Adding(u, g)',
                        NEW x \in Adding(u, g)', v # x
                 PROVE  <<u, g>> \in raced'
      BY DEF TwoHaveRaced
    <3> HIDE DEF t, f
    <3>1. CASE v # w /\ x # w
      <4>1. v \in Adding(u, g) /\ x \in Adding(u, g)  BY <2>2, <3>1 DEF Adding
      <4> QED  BY <2>3, <4>1 DEF FieldInv, TwoHaveRaced
    <3>2. CASE v = w
      <4>1. x \in Adding(u, g) /\ u = t /\ g = f  BY <2>2, <3>2 DEF Adding, t, f
      <4> QED  BY <2>3, <4>1
    <3>3. CASE x = w
      <4>1. v \in Adding(u, g) /\ u = t /\ g = f  BY <2>2, <3>3 DEF Adding, t, f
      <4> QED  BY <2>3, <4>1
    <3> QED  BY <3>1, <3>2, <3>3
  <2> QED  BY <2>5, <2>6, <2>7, <2>8, <2>10, <2>11 DEF FieldInv
<1> QED  BY <1>3, <1>4

\* Under the mutex a producer reads what the file has.
LEMMA FieldRead ==
  ASSUME CatalogInv, FieldInv, NEW w \in Workers, ReadFields(w), task[w].table \in DOMAIN sysfile
  PROVE  FieldInv'
<1> DEFINE t == task[w].table
           new == [task[w] EXCEPT !.pc = "store", !.seen = sysfile[t]]
<1>0. task' = [task EXCEPT ![w].pc = "store", ![w].seen = sysfile[t]]
  BY DEF ReadFields
<1>1. /\ task[w].pc = "record" /\ m_meta_mutex = None /\ m_meta_mutex' = w
      /\ UNCHANGED <<lines, m_tables, m_mea_fields, sysfile, cleared, raced, main>>
  BY DEF ReadFields, At, disk, plan, history
<1>2. task \in [Workers -> Busy \cup {NoTask}] /\ task[w] \in Busy /\ t \in m_tables
  BY <1>1, TaskFacts DEF CatalogInv, Types, TaskTypes
<1>3. /\ new.table = t /\ new.field = task[w].field /\ new.pc = "store" /\ new.seen = sysfile[t]
  BY <1>2 DEF Busy
<1>4. task' = [task EXCEPT ![w] = new]  BY <1>0, <1>2 DEF Busy
<1> HIDE DEF new, t
<1>5. \A v \in Workers :
        /\ task'[v].table = task[v].table /\ task'[v].field = task[v].field
        /\ task'[v].pc = IF v = w THEN "store" ELSE task[v].pc
        /\ task'[v].seen = IF v = w THEN sysfile[task[w].table] ELSE task[v].seen
  BY <1>2, <1>3, <1>4 DEF t
<1>6. \A v \in Workers : task[v].pc # "store"
  BY <1>1, CatalogAssumption DEF FieldInv, StoresWhatIsThere
<1>7. TablesAreListed'
  <2>1. \A v \in Workers : task'[v] # NoTask => task'[v].table \in m_tables
    BY <1>2, <1>3, <1>4 DEF t, FieldInv, TablesAreListed
  <2> QED
    BY <1>1, <2>1 DEF FieldInv, TablesAreListed, Loads, Listed, IsMaking
<1>8. FieldInMemoryIsOnDisk' /\ DuplicateOnlyByRace'
  BY <1>1 DEF FieldInv, FieldInMemoryIsOnDisk, DuplicateOnlyByRace, FileFields
<1>9. StoresWhatIsThere'
  BY <1>1, <1>5, <1>6 DEF FieldInv, StoresWhatIsThere, FileFields
<1>10. FileFieldIsInMemory'
  BY <1>1, <1>5 DEF FieldInv, FileFieldIsInMemory, FileFields, FieldsInMemory, Loads, Doing
<1>11. StoredFieldIsNew'
  BY <1>1, <1>5 DEF FieldInv, StoredFieldIsNew, FileFields
<1>12. TwoHaveRaced'
  <2>1. \A u \in Tables, g \in Fields : Adding(u, g)' = Adding(u, g)
    BY <1>1, <1>5 DEF Adding
  <2> QED  BY <1>1, <2>1 DEF FieldInv, TwoHaveRaced
<1> QED  BY <1>7, <1>8, <1>9, <1>10, <1>11, <1>12 DEF FieldInv

\* The record goes where the file ended: it adds the field, twice only after a race.
LEMMA FieldStored ==
  ASSUME CatalogInv, FieldInv, NEW w \in Workers, StoreField(w)
  PROVE  FieldInv'
<1>1. /\ task[w].pc = "store" /\ sysfile' = Stored(w) /\ Goto(w, "add") /\ m_meta_mutex' = None
      /\ UNCHANGED <<lines, m_tables, m_mea_fields, cleared, raced, main>>
  BY DEF StoreField, At, plan, history
<1>0. PICK t \in Tables, f \in Fields : t = task[w].table /\ f = task[w].field
  BY <1>1, TaskFacts
<1>2. t \in m_tables /\ t \in Tables /\ f \in Fields /\ task[w] \in Busy
  BY <1>0, <1>1, TaskFacts
<1>3. t \in DOMAIN sysfile /\ (t \in cleared \/ task[w].seen = sysfile[t])
  BY <1>0, <1>1 DEF FieldInv, StoresWhatIsThere
<1>4. \A v \in Workers :
        /\ task'[v].table = task[v].table /\ task'[v].field = task[v].field
        /\ task'[v].seen = task[v].seen
        /\ task'[v].pc = IF v = w THEN "add" ELSE task[v].pc
  BY <1>1, Moved
<1>5. \A v \in Workers : v # w => task[v].pc # "store"
  BY <1>1 DEF FieldInv, StoresWhatIsThere
<1>6. \A v \in Workers : task'[v] # NoTask => task'[v].table \in m_tables
  BY <1>0, <1>1, <1>2, <1>4 DEF Goto, CatalogInv, Types, TaskTypes, FieldInv, TablesAreListed
<1> DEFINE new == Append(task[w].seen, f)
<1>7. /\ DOMAIN sysfile' = DOMAIN sysfile /\ sysfile'[t] = new
      /\ \A u \in DOMAIN sysfile : u # t => sysfile'[u] = sysfile[u]
  BY <1>0, <1>1, <1>3 DEF Stored
<1>8. t \in cleared \/ (sysfile[t] \in Seq(Fields) /\ new = Append(sysfile[t], f))
  BY <1>3 DEF CatalogInv, Types, FileTypes
<1>9. t \in cleared \/ ToSet(new) = ToSet(sysfile[t]) \cup {f}
  <2>1. CASE sysfile[t] \in Seq(Fields) /\ new = Append(sysfile[t], f)
    BY <2>1, ToSetAppend
  <2> QED  BY <1>8, <2>1
<1>10. t \in cleared \/ <<t, f>> \in raced \/ f \notin FileFields(t)
  BY <1>0, <1>1 DEF FieldInv, StoredFieldIsNew
<1> HIDE DEF new
<1>11. \A u : u # t => FileFields(u)' = FileFields(u)
  BY <1>7 DEF FileFields
<1>12. t \in cleared \/ FileFields(t)' = FileFields(t) \cup {f}
  BY <1>3, <1>7, <1>9 DEF FileFields
<1>13. TablesAreListed'
  BY <1>1, <1>6 DEF FieldInv, TablesAreListed, Loads, Listed, IsMaking
<1>14. FieldInMemoryIsOnDisk'
  BY <1>1, <1>11, <1>12 DEF FieldInv, FieldInMemoryIsOnDisk
<1>15. StoresWhatIsThere'
  <2> SUFFICES ASSUME NEW v \in Workers
               PROVE  /\ task'[v].pc # "store"
                      /\ task'[v].pc = "add" =>
                           task[v].table \in cleared \/ task[v].field \in FileFields(task[v].table)'
    BY <1>1, <1>4 DEF StoresWhatIsThere
  <2>1. CASE v = w  BY <1>0, <1>4, <1>12, <2>1
  <2>2. CASE v # w
    BY <1>4, <1>5, <1>11, <1>12, <2>2 DEF FieldInv, StoresWhatIsThere
  <2> QED  BY <2>1, <2>2
<1>16. FileFieldIsInMemory'
  <2> SUFFICES ASSUME NEW u \in Tables, Loads(u), u \notin cleared, NEW g \in FileFields(u)'
               PROVE  \/ g \in FieldsInMemory(u)
                      \/ \E v \in Workers : Doing(v, "add", u)' /\ task[v].field = g
    BY <1>1, <1>4 DEF FileFieldIsInMemory, Loads, FieldsInMemory
  <2>1. CASE g \in FileFields(u)
    BY <1>1, <1>4, <2>1 DEF FieldInv, FileFieldIsInMemory, Doing
  <2>2. CASE g \notin FileFields(u)
    <3>1. u = t /\ g = f  BY <1>11, <1>12, <2>2
    <3> QED  BY <1>0, <1>4, <3>1 DEF Doing
  <2> QED  BY <2>1, <2>2
<1>17. \A u \in Tables, g \in Fields : Adding(u, g)' = Adding(u, g)
  BY <1>1, <1>4 DEF Adding
<1>18. TwoHaveRaced'  BY <1>1, <1>17 DEF FieldInv, TwoHaveRaced
<1>19. StoredFieldIsNew'
  <2> SUFFICES ASSUME NEW v \in Workers, task'[v].pc \in {"record", "store"},
                      task[v].table \notin cleared, <<task[v].table, task[v].field>> \notin raced
               PROVE  task[v].field \notin FileFields(task[v].table)'
    BY <1>1, <1>4 DEF StoredFieldIsNew
  <2>1. v # w /\ task[v].pc \in {"record", "store"}  BY <1>4
  <2>2. task[v].field \notin FileFields(task[v].table)
    BY <2>1 DEF FieldInv, StoredFieldIsNew
  <2>3. CASE task[v].table = t /\ task[v].field = f
    <3>1. v \in Adding(t, f) /\ w \in Adding(t, f)
      BY <1>0, <1>1, <2>1, <2>3 DEF Adding
    <3> QED  BY <1>2, <2>1, <2>3, <3>1 DEF FieldInv, TwoHaveRaced
  <2>4. CASE ~(task[v].table = t /\ task[v].field = f)
    <3>1. task'[v].table = task[v].table  BY <1>4
    <3>2. PICK u : u = task[v].table  OBVIOUS
    <3>3. FileFields(task[v].table)' = FileFields(u)'  BY <3>1, <3>2
    <3> QED  BY <1>11, <1>12, <2>1, <2>2, <2>4, <3>2, <3>3
  <2> QED  BY <2>3, <2>4
<1>20. DuplicateOnlyByRace'
  <2> SUFFICES ASSUME NEW u \in DOMAIN sysfile, u \notin cleared,
                      NEW i \in DOMAIN sysfile'[u], NEW j \in DOMAIN sysfile'[u], i # j,
                      sysfile'[u][i] = sysfile'[u][j]
               PROVE  <<u, sysfile'[u][i]>> \in raced
    BY <1>1, <1>7 DEF DuplicateOnlyByRace
  <2>1. CASE u # t
    BY <1>7, <2>1 DEF FieldInv, DuplicateOnlyByRace
  <2>2. CASE u = t
    <3>1. sysfile[t] \in Seq(Fields) /\ sysfile'[t] = Append(sysfile[t], f)
      BY <1>7, <1>8, <2>2
    <3> DEFINE n == Len(sysfile[t])
    <3>2. /\ DOMAIN sysfile'[t] = 1..(n + 1) /\ sysfile'[t][n + 1] = f
          /\ \A k \in 1..n : sysfile'[t][k] = sysfile[t][k]
          /\ DOMAIN sysfile[t] = 1..n /\ n \in Nat
      BY <1>2, <3>1
    <3> HIDE DEF n
    <3>3. CASE i # n + 1 /\ j # n + 1
      BY <1>3, <2>2, <3>2, <3>3 DEF FieldInv, DuplicateOnlyByRace
    <3>4. CASE i = n + 1 \/ j = n + 1
      <4>1. f \in FileFields(t)
        BY <1>3, <2>2, <3>2, <3>4 DEF FileFields, ToSet
      <4> QED  BY <1>10, <2>2, <3>2, <3>4, <4>1
    <3> QED  BY <3>3, <3>4
  <2> QED  BY <2>1, <2>2
<1> QED
  BY <1>13, <1>14, <1>15, <1>16, <1>18, <1>19, <1>20 DEF FieldInv

\* Memory gets the field the file has.
LEMMA FieldAdded ==
  ASSUME CatalogInv, FieldInv, NEW w \in Workers, AddField(w)
  PROVE  FieldInv'
<1>1. /\ task[w].pc = "add" /\ Goto(w, "write")
      /\ m_mea_fields' = Put(m_mea_fields, task[w].table,
                             FieldsInMemory(task[w].table) \cup {task[w].field})
      /\ UNCHANGED <<lines, m_tables, sysfile, cleared, raced, m_meta_mutex, main>>
  BY DEF AddField, At, disk, plan, history, FieldsInMemory
<1>2. PICK t \in Tables, f \in Fields : t = task[w].table /\ f = task[w].field
  BY <1>1, TaskFacts
<1>3. t \in m_tables /\ Loads(t) /\ task[w] \in Busy  BY <1>1, <1>2, TaskFacts
<1>4. \A v \in Workers :
        /\ task'[v].table = task[v].table /\ task'[v].field = task[v].field
        /\ task'[v].seen = task[v].seen
        /\ task'[v].pc = IF v = w THEN "write" ELSE task[v].pc
  BY <1>1, Moved
<1>5. \A v \in Workers : task'[v] # NoTask => task'[v].table \in m_tables
  BY <1>1, <1>2, <1>3, <1>4 DEF Goto, CatalogInv, Types, TaskTypes, FieldInv, TablesAreListed
<1>6. /\ DOMAIN m_mea_fields' = DOMAIN m_mea_fields \cup {t}
      /\ m_mea_fields'[t] = FieldsInMemory(t) \cup {f}
      /\ \A u \in DOMAIN m_mea_fields : u # t => m_mea_fields'[u] = m_mea_fields[u]
  BY <1>1, <1>2 DEF Put
<1>7. \A u \in Tables : Loads(u)' <=> Loads(u)  BY <1>1, <1>3, <1>6 DEF Loads
<1>8. \A u : FieldsInMemory(u)' = IF u = t THEN FieldsInMemory(u) \cup {f} ELSE FieldsInMemory(u)
  BY <1>6 DEF FieldsInMemory
<1>9. \A u : FileFields(u)' = FileFields(u)  BY <1>1 DEF FileFields
<1>10. TablesAreListed'
  BY <1>1, <1>5, <1>6, <1>7 DEF FieldInv, TablesAreListed, Listed, IsMaking
<1>11. FieldInMemoryIsOnDisk'
  <2>1. t \in cleared \/ f \in FileFields(t)
    BY <1>1, <1>2 DEF FieldInv, StoresWhatIsThere
  <2>2. t \in cleared \/ FieldsInMemory(t) \subseteq FileFields(t)
    BY DEF FieldsInMemory, FieldInv, FieldInMemoryIsOnDisk
  <2> QED
    BY <1>1, <1>6, <1>9, <2>1, <2>2 DEF FieldInv, FieldInMemoryIsOnDisk
<1>12. StoresWhatIsThere'
  BY <1>1, <1>4, <1>9 DEF FieldInv, StoresWhatIsThere, FileFields
<1>13. FileFieldIsInMemory'
  <2> SUFFICES ASSUME NEW u \in Tables, Loads(u), u \notin cleared, NEW g \in FileFields(u)
               PROVE  \/ g \in FieldsInMemory(u)'
                      \/ \E v \in Workers : Doing(v, "add", u)' /\ task[v].field = g
    BY <1>1, <1>4, <1>7, <1>9 DEF FileFieldIsInMemory
  <2>1. CASE g \in FieldsInMemory(u)  BY <1>8, <2>1
  <2>2. CASE g \notin FieldsInMemory(u)
    <3>1. PICK v \in Workers : Doing(v, "add", u) /\ task[v].field = g
      BY <2>2 DEF FieldInv, FileFieldIsInMemory
    <3>2. CASE v = w
      BY <1>2, <1>8, <3>1, <3>2 DEF Doing
    <3>3. CASE v # w
      BY <1>4, <3>1, <3>3 DEF Doing
    <3> QED  BY <3>2, <3>3
  <2> QED  BY <2>1, <2>2
<1>14. StoredFieldIsNew'
  BY <1>1, <1>4 DEF FieldInv, StoredFieldIsNew, FileFields
<1>15. \A u \in Tables, g \in Fields : Adding(u, g)' \subseteq Adding(u, g)
  BY <1>1, <1>4 DEF Adding
<1>16. TwoHaveRaced' /\ DuplicateOnlyByRace'
  BY <1>1, <1>15 DEF FieldInv, TwoHaveRaced, DuplicateOnlyByRace
<1> QED
  BY <1>10, <1>11, <1>12, <1>13, <1>14, <1>16 DEF FieldInv

\* The writer of a table is made: the fields of the table are read again.
LEMMA FieldResolved ==
  ASSUME CatalogInv, FieldInv, NEW w \in Workers, NEW t \in Tables, NEW f \in Fields,
         Resolve(w, t, f)
  PROVE  FieldInv'
<1> DEFINE new == [pc |-> "check", table |-> t, field |-> f, valid |-> TRUE, seen |-> <<>>]
<1>1. /\ task[w] = NoTask /\ t \in m_tables
      /\ UNCHANGED <<lines, m_tables, sysfile, cleared, raced, m_meta_mutex, main>>
  BY DEF Resolve, disk, plan
<1>2. task \in [Workers -> Busy \cup {NoTask}]  BY DEF CatalogInv, Types, TaskTypes
<1>3. /\ task'[w] = new
      /\ \A v \in Workers \ {w} : task'[v] = task[v] \/
           (task[v] # NoTask /\ task'[v] = [task[v] EXCEPT !.valid = FALSE])
  BY <1>2 DEF Resolve
<1>4. m_mea_fields' = m_mea_fields \/ m_mea_fields' = FieldsLoaded(t)
  BY DEF Resolve
<1>5. task'[w].pc = "check" /\ task'[w].table = t  BY <1>3
<1> HIDE DEF new
<1>6. \A v \in Workers \ {w} :
        /\ task'[v].table = task[v].table /\ task'[v].field = task[v].field
        /\ task'[v].seen = task[v].seen /\ task'[v].pc = task[v].pc
        /\ task'[v] # NoTask => task[v] # NoTask
  BY <1>2, <1>3 DEF Busy
<1>7. task[w].pc = "idle"  BY <1>1 DEF NoTask
<1>8. \A v \in Workers : task'[v] # NoTask => task'[v].table \in m_tables
  BY <1>1, <1>5, <1>6 DEF FieldInv, TablesAreListed
<1>9. \A u : FileFields(u)' = FileFields(u)  BY <1>1 DEF FileFields
<1>10. /\ DOMAIN m_mea_fields' \subseteq DOMAIN m_mea_fields \cup {t}
       /\ DOMAIN m_mea_fields \subseteq DOMAIN m_mea_fields'
       /\ \A u \in DOMAIN m_mea_fields' :
            \/ u \in DOMAIN m_mea_fields /\ m_mea_fields'[u] = m_mea_fields[u]
            \/ m_mea_fields'[u] = FileFields(u)
  BY <1>4 DEF FieldsLoaded, Put
<1>11. \A u \in Tables : Loads(u)' <=> Loads(u)  BY <1>1, <1>10 DEF Loads
<1>12. \A u : FieldsInMemory(u)' \in {FieldsInMemory(u), FileFields(u)}
  BY <1>10 DEF FieldsInMemory
<1>13. TablesAreListed'
  BY <1>1, <1>8, <1>10, <1>11 DEF FieldInv, TablesAreListed, Listed, IsMaking
<1>14. FieldInMemoryIsOnDisk'
  BY <1>1, <1>9, <1>10 DEF FieldInv, FieldInMemoryIsOnDisk
<1>15. StoresWhatIsThere'
  BY <1>1, <1>5, <1>6, <1>9 DEF FieldInv, StoresWhatIsThere, FileFields
<1>16. FileFieldIsInMemory'
  <2> SUFFICES ASSUME NEW u \in Tables, Loads(u), u \notin cleared, NEW g \in FileFields(u)
               PROVE  \/ g \in FieldsInMemory(u)'
                      \/ \E v \in Workers : (Doing(v, "add", u) /\ task[v].field = g)'
    BY <1>1, <1>9, <1>11 DEF FileFieldIsInMemory
  <2>1. CASE g \in FieldsInMemory(u)  BY <1>12, <2>1
  <2>2. CASE g \notin FieldsInMemory(u)
    <3>1. PICK v \in Workers : Doing(v, "add", u) /\ task[v].field = g
      BY <2>2 DEF FieldInv, FileFieldIsInMemory
    <3>2. v # w  BY <1>7, <3>1 DEF Doing
    <3> QED  BY <1>6, <3>1, <3>2 DEF Doing
  <2> QED  BY <2>1, <2>2
<1>17. StoredFieldIsNew'
  BY <1>1, <1>5, <1>6 DEF FieldInv, StoredFieldIsNew, FileFields
<1>18. \A u \in Tables, g \in Fields : Adding(u, g)' \subseteq Adding(u, g)
  BY <1>1, <1>5, <1>6 DEF Adding
<1>19. TwoHaveRaced' /\ DuplicateOnlyByRace'
  BY <1>1, <1>18 DEF FieldInv, TwoHaveRaced, DuplicateOnlyByRace
<1> QED
  BY <1>13, <1>14, <1>15, <1>16, <1>17, <1>19 DEF FieldInv

LEMMA FieldInsert ==
  ASSUME CatalogInv, FieldInv, InsertStep
  PROVE  FieldInv'
<1>1. PICK w \in Workers :
        \/ \E t \in Tables, f \in Fields : Resolve(w, t, f)
        \/ CheckField(w) \/ ReadFields(w) \/ StoreField(w) \/ AddField(w)
        \/ WritePoint(w) \/ WriteGone(w)
  BY DEF InsertStep
<1>2. CASE ReadFields(w)
  <2>1. CASE task[w].table \in DOMAIN sysfile  BY <1>2, <2>1, FieldRead
  <2>2. CASE task[w].table \notin DOMAIN sysfile
    BY <1>2, <2>2, FieldEnds DEF ReadFields, Dies, disk
  <2> QED  BY <2>1, <2>2
<1>3. CASE WritePoint(w) \/ WriteGone(w)
  <2>1. CASE Ended /\ UNCHANGED disk
    BY <2>1, FieldEnds DEF disk
  <2>2. CASE task' = [task EXCEPT ![w] = NoTask] /\ ~(Ended /\ UNCHANGED disk)
    <3>1. UNCHANGED <<lines, m_tables, m_mea_fields, sysfile, cleared, raced, m_meta_mutex, main>>
      BY <1>3, <2>2 DEF WritePoint, WriteGone, DiesOfWriter, disk, plan, history
    <3>2. task'[w] = NoTask /\ \A v \in Workers : v # w => task'[v] = task[v]
      BY <2>2 DEF CatalogInv, Types, TaskTypes
    <3>3. task[w].pc = "write" /\ task'[w].pc = "idle"
      BY <1>3, <3>2 DEF WritePoint, WriteGone, At, NoTask
    <3> QED  BY <3>1, <3>2, <3>3, FieldMoves
  <2> QED  BY <1>3, <2>1, <2>2 DEF WritePoint, WriteGone, DiesOfWriter
<1> QED
  BY <1>1, <1>2, <1>3, FieldCheck, FieldStored, FieldAdded, FieldResolved

-----------------------------------------------------------------------------
(* statements *)

\* The tables of a database come with the fields their files have.
LEMMA FieldLoaded ==
  ASSUME CatalogInv, LinesInv, FieldInv, LoadDatabase
  PROVE  FieldInv'
<1>1. PICK db : db = main.db  OBVIOUS
<1> DEFINE S == ToSet(lines[db])
<1>2. /\ main.op = "use" /\ main' = Idle
      /\ m_mea_fields' = [t \in DOMAIN m_mea_fields \cup S |->
           IF t \in DOMAIN m_mea_fields THEN m_mea_fields[t] ELSE FileFields(t)]
      /\ m_tables' \in {m_tables, m_tables \cup S}
      /\ UNCHANGED <<lines, sysfile, cleared, raced, task, m_meta_mutex>>
  BY <1>1 DEF LoadDatabase, disk, history
<1>3. db \in DOMAIN lines  BY <1>1, <1>2 DEF LinesInv, MainFits
<1>4. \A t \in S : t \in Tables /\ Listed(t)
  <2>1. S \subseteq TablesOf(db)  BY <1>3 DEF LinesInv, LineTypes, ToSet
  <2> QED  BY <1>3, <2>1 DEF Listed, TablesOf
<1> HIDE DEF S
<1>5. \A t \in Tables : Loads(t)' => Loads(t) \/ t \in S  BY <1>2 DEF Loads
<1>6. TablesAreListed'
  BY <1>2, <1>4, <1>5 DEF FieldInv, TablesAreListed, Listed, IsMaking, Idle
<1>7. FieldInMemoryIsOnDisk'
  BY <1>2 DEF FieldInv, FieldInMemoryIsOnDisk, FileFields
<1>8. StoresWhatIsThere' /\ StoredFieldIsNew'
  BY <1>2 DEF FieldInv, StoresWhatIsThere, StoredFieldIsNew, FileFields
<1>9. \A t : FileFields(t)' = FileFields(t)  BY <1>2 DEF FileFields
<1>10. FileFieldIsInMemory'
  <2> SUFFICES ASSUME NEW t \in Tables, Loads(t)', t \notin cleared, NEW f \in FileFields(t)
               PROVE  \/ f \in FieldsInMemory(t)'
                      \/ \E w \in Workers : Doing(w, "add", t) /\ task[w].field = f
    BY <1>2, <1>9 DEF FileFieldIsInMemory, Doing
  <2>1. CASE t \in DOMAIN m_mea_fields
    <3>1. FieldsInMemory(t)' = FieldsInMemory(t)  BY <1>2, <2>1 DEF FieldsInMemory
    <3> QED  BY <2>1, <3>1 DEF FieldInv, FileFieldIsInMemory, Loads
  <2>2. CASE t \notin DOMAIN m_mea_fields /\ t \in S
    BY <1>2, <2>2 DEF FieldsInMemory
  <2>3. CASE t \notin DOMAIN m_mea_fields /\ t \notin S
    <3>1. FieldsInMemory(t)' = FieldsInMemory(t)  BY <1>2, <2>3 DEF FieldsInMemory
    <3> QED  BY <1>5, <2>3, <3>1 DEF FieldInv, FileFieldIsInMemory
  <2> QED  BY <2>1, <2>2, <2>3
<1>11. TwoHaveRaced' /\ DuplicateOnlyByRace'
  BY <1>2 DEF FieldInv, TwoHaveRaced, DuplicateOnlyByRace, Adding
<1> QED  BY <1>6, <1>7, <1>8, <1>10, <1>11 DEF FieldInv

\* A sys- file that changes, to no fields: of a table nobody knows yet, or of one that
\* is cleared.
LEMMA FieldEmptied ==
  ASSUME CatalogInv, FieldInv, NEW t \in Tables,
         DOMAIN sysfile' \subseteq Tables, DOMAIN sysfile \subseteq DOMAIN sysfile',
         sysfile'[t] = <<>>,
         \A u \in DOMAIN sysfile' : u # t => (u \in DOMAIN sysfile /\ sysfile'[u] = sysfile[u]),
         (~Loads(t) /\ cleared' = cleared) \/ cleared' = cleared \cup {t},
         m_tables' \in {m_tables, m_tables \cup {t}}, main'.op # "table", Listed(t),
         UNCHANGED <<lines, m_mea_fields, raced, task, m_meta_mutex>>
  PROVE  FieldInv'
<1>1. \A u : u # t => FileFields(u)' = FileFields(u)  BY DEF FileFields
<1>2. FileFields(t)' = {}  BY DEF FileFields, ToSet
<1>3. \A w \in Workers : task[w].pc # "idle" /\ task[w].table = t => t \in cleared'
  BY TaskFacts
<1>4. cleared \subseteq cleared'  OBVIOUS
<1>5. \A u \in Tables : Loads(u)' => Loads(u) \/ u = t  BY DEF Loads
<1>6. TablesAreListed'
  BY <1>5 DEF FieldInv, TablesAreListed, Listed, IsMaking
<1>7. FieldInMemoryIsOnDisk'
  BY <1>1, <1>4 DEF FieldInv, FieldInMemoryIsOnDisk, Loads
<1>8. StoresWhatIsThere'
  <2> SUFFICES ASSUME NEW w \in Workers, task[w].pc \in {"store", "add"}
               PROVE  /\ task[w].pc = "store" =>
                           /\ m_meta_mutex = w /\ task[w].table \in DOMAIN sysfile'
                           /\ \/ task[w].table \in cleared'
                              \/ task[w].seen = sysfile'[task[w].table]
                      /\ task[w].pc = "add" =>
                           task[w].table \in cleared' \/ task[w].field \in FileFields(task[w].table)'
    BY DEF StoresWhatIsThere
  <2>1. PICK u : u = task[w].table  OBVIOUS
  <2>2. CASE u = t  BY <1>3, <2>1, <2>2 DEF FieldInv, StoresWhatIsThere
  <2>3. CASE u # t
    <3>1. FileFields(u)' = FileFields(u)  BY <1>1, <2>3
    <3>2. FileFields(task[w].table)' = FileFields(u)'  BY <2>1
    <3> QED
      BY <1>4, <2>1, <2>3, <3>1, <3>2 DEF FieldInv, StoresWhatIsThere
  <2> QED  BY <2>2, <2>3
<1>9. FileFieldIsInMemory'
  <2> SUFFICES ASSUME NEW u \in Tables, Loads(u)', u \notin cleared', NEW f \in FileFields(u)'
               PROVE  \/ f \in FieldsInMemory(u)
                      \/ \E w \in Workers : Doing(w, "add", u) /\ task[w].field = f
    BY DEF FileFieldIsInMemory, Doing, FieldsInMemory
  <2>1. u # t  BY <1>2
  <2> QED  BY <1>1, <1>4, <1>5, <2>1 DEF FieldInv, FileFieldIsInMemory
<1>10. StoredFieldIsNew'
  <2> SUFFICES ASSUME NEW w \in Workers, task[w].pc \in {"record", "store"},
                      task[w].table \notin cleared', <<task[w].table, task[w].field>> \notin raced
               PROVE  task[w].field \notin FileFields(task[w].table)'
    BY DEF StoredFieldIsNew
  <2>1. PICK u : u = task[w].table  OBVIOUS
  <2>2. u # t  BY <1>3, <2>1
  <2>3. FileFields(task[w].table)' = FileFields(u)'  BY <2>1
  <2> QED  BY <1>1, <1>4, <2>1, <2>2, <2>3 DEF FieldInv, StoredFieldIsNew
<1>11. TwoHaveRaced'
  BY DEF FieldInv, TwoHaveRaced, Adding
<1>12. DuplicateOnlyByRace'
  BY <1>4 DEF FieldInv, DuplicateOnlyByRace
<1> QED  BY <1>6, <1>7, <1>8, <1>9, <1>10, <1>11, <1>12 DEF FieldInv

LEMMA FieldStatement ==
  ASSUME CatalogInv, LinesInv, FieldInv, Statement
  PROVE  FieldInv'
<1>1. CASE CreateTableFile
  <2>1. PICK t : t = main.table  OBVIOUS
  <2>2. /\ main.op = "table" /\ main' = Idle
        /\ UNCHANGED <<lines, m_mea_fields, raced, task, m_meta_mutex, cleared>>
    BY <1>1 DEF CreateTableFile, history
  <2>3. t \in Tables /\ Listed(t)
    BY <2>1, <2>2 DEF CatalogInv, Types, FileTypes, LinesInv, MainFits
  <2>4. ~Loads(t)
    BY <2>1, <2>2, <2>3 DEF FieldInv, TablesAreListed, IsMaking
  <2>5. CASE UNCHANGED <<sysfile, m_tables>>
    BY <2>2, <2>5, FieldFrame DEF FieldVars, Listed, IsMaking, Idle
  <2>6. CASE sysfile' = Put(sysfile, t, <<>>) /\ m_tables' = m_tables \cup {t}
    <3>1. /\ DOMAIN sysfile' = DOMAIN sysfile \cup {t} /\ sysfile'[t] = <<>>
          /\ \A u \in DOMAIN sysfile : u # t => sysfile'[u] = sysfile[u]
      BY <2>6 DEF Put
    <3>2. DOMAIN sysfile' \subseteq Tables
      BY <2>3, <3>1 DEF CatalogInv, Types, FileTypes
    <3>3. main'.op # "table"  BY <2>2 DEF Idle
    <3> QED  BY <2>2, <2>3, <2>4, <2>6, <3>1, <3>2, <3>3, FieldEmptied
  <2> QED  BY <1>1, <2>1, <2>5, <2>6 DEF CreateTableFile
<1>2. ASSUME NEW t \in Tables, ClearSystemFile(t) PROVE FieldInv'
  <2>1. CASE t \in DOMAIN sysfile
    <3>1. /\ sysfile' = [sysfile EXCEPT ![t] = <<>>] /\ cleared' = cleared \cup {t}
          /\ UNCHANGED <<lines, m_tables, m_mea_fields, raced, task, m_meta_mutex>>
          /\ main.op = "idle" /\ UNCHANGED main /\ t \in m_tables
      BY <1>2, <2>1 DEF ClearSystemFile, memory, plan, Ready, Idle
    <3>2. /\ DOMAIN sysfile' = DOMAIN sysfile /\ sysfile'[t] = <<>>
          /\ \A u \in DOMAIN sysfile : u # t => sysfile'[u] = sysfile[u]
      BY <2>1, <3>1
    <3>3. DOMAIN sysfile' \subseteq Tables  BY <3>2 DEF CatalogInv, Types, FileTypes
    <3>4. Listed(t)  BY <3>1 DEF FieldInv, TablesAreListed, Loads
    <3> QED  BY <1>2, <3>1, <3>2, <3>3, <3>4, FieldEmptied
  <2>2. CASE t \notin DOMAIN sysfile
    BY <1>2, <2>2, FieldEnds DEF ClearSystemFile, Dies
  <2> QED  BY <2>1, <2>2
<1>3. ASSUME NEW t \in Tables, CreateTable(t) PROVE FieldInv'
  <2>1. t[1] \in DOMAIN lines /\ t \notin ToSet(lines[t[1]])
    BY <1>3, NewIsNotListed DEF CreateTable
  <2>2. /\ lines' = Put(lines, t[1], Append(lines[t[1]], t))
        /\ main' = [op |-> "table", table |-> t] /\ UNCHANGED FieldVars
    BY <1>3, <2>1 DEF CreateTable, FieldVars, history
  <2>3. lines[t[1]] \in Seq(TablesOf(t[1])) /\ t \in TablesOf(t[1])
    BY <2>1 DEF LinesInv, LineTypes, TablesOf
  <2>4. ToSet(lines[t[1]]) \subseteq ToSet(Append(lines[t[1]], t))
    BY <2>3, ToSetAppend
  <2>5. \A u \in Tables : Listed(u) => Listed(u)'
    BY <2>1, <2>2, <2>4 DEF Listed, Put
  <2>6. ~Loads(t)  BY <2>1 DEF FieldInv, TablesAreListed, Listed
  <2>7. \A u \in Tables : IsMaking(u)' => u = t  BY <2>2 DEF IsMaking
  <2> QED  BY <2>2, <2>5, <2>6, <2>7, FieldFrame
<1>4. CASE CreateDatabaseFile
  <2>1. /\ main.db \notin DOMAIN lines /\ lines' = Put(lines, main.db, <<>>) /\ main' = Idle
        /\ UNCHANGED FieldVars
    BY <1>4 DEF CreateDatabaseFile, LinesInv, MainFits, FieldVars, history
  <2>2. \A u \in Tables : Listed(u) => Listed(u)'  BY <2>1 DEF Listed, Put
  <2> QED  BY <2>1, <2>2, FieldFrame DEF IsMaking, Idle
<1>5. ASSUME \/ \E db \in Databases : \/ CreateDatabase(db) \/ Use(db) \/ ReadMissing(db)
                                      \/ ShowElsewhere(db)
             \/ \E t \in Tables : CreateTableAgain(t)
             \/ ShowTables
      PROVE  FieldInv'
  <2>1. CASE Ended /\ UNCHANGED disk
    BY <2>1, FieldEnds DEF disk
  <2>2. CASE ~(Ended /\ UNCHANGED disk)
    <3>1. UNCHANGED lines /\ UNCHANGED FieldVars
      BY <1>5, <2>2 DEF CreateDatabase, Use, ReadMissing, ShowElsewhere, CreateTableAgain,
                        ShowTables, Dies, disk, history, FieldVars
    <3>2. main'.op = "table" => main' = main
      BY <1>5, <2>2 DEF CreateDatabase, Use, ReadMissing, ShowElsewhere, CreateTableAgain,
                        ShowTables, Dies, Idle
    <3> QED  BY <3>1, <3>2, FieldFrame DEF Listed, IsMaking
  <2> QED  BY <2>1, <2>2
<1> QED
  BY <1>1, <1>2, <1>3, <1>4, <1>5, FieldLoaded DEF Statement

LEMMA FieldStep ==
  ASSUME CatalogInv, LinesInv, FieldInv, [Next]_vars
  PROVE  FieldInv'
<1>1. CASE Crash
  BY <1>1, FieldEnds DEF Crash, Dies, disk
<1>2. CASE FlushStep
  <2>1. CASE Ended /\ UNCHANGED <<lines, sysfile>>
    BY <2>1, FieldEnds
  <2>2. CASE ~(Ended /\ UNCHANGED <<lines, sysfile>>)
    <3>1. UNCHANGED lines /\ UNCHANGED main /\ UNCHANGED FieldVars
      BY <1>2, <2>2 DEF FlushStep, ShardsDue, BeginMeta, EndMeta, DiskWrite, RecordShards,
                        DiesOfWriter, disk, plan, history, FieldVars
    <3> QED  BY <3>1, FieldFrame DEF Listed, IsMaking
  <2> QED  BY <2>1, <2>2
<1>3. CASE Restart \/ UNCHANGED vars
  <2>1. UNCHANGED lines /\ UNCHANGED main /\ UNCHANGED FieldVars
    BY <1>3 DEF Restart, vars, disk, memory, plan, history, FieldVars
  <2> QED  BY <2>1, FieldFrame DEF Listed, IsMaking
<1> QED
  BY <1>1, <1>2, <1>3, FieldStatement, FieldInsert DEF Next

-----------------------------------------------------------------------------

LEMMA FieldInvariant == Spec => []FieldInv
<1>1. CatalogInv /\ LinesInv /\ FieldInv /\ [Next]_vars => FieldInv'
  BY FieldStep
<1>2. LinesInv /\ [Next]_vars => LinesInv'
  BY LinesStep
<1> QED  BY FieldInit, LinesInit, CatalogInvariant, <1>1, <1>2, PTL DEF Spec

\* TableEngineManager has all the lines of a database or none, no line twice, and
\* m_db_mea_map has no field that its sys- file lacks, unless that file was cleared.
THEOREM MemoryFollowsFiles == Spec => []MemoryAgreesWithFiles
<1>1. LinesInv /\ [Next]_vars => LinesInv'
  BY LinesStep
<1>2. LinesInv /\ FieldInv => MemoryAgreesWithFiles
  BY LinesAgree DEF FieldInv, MemoryAgreesWithFiles
<1> QED  BY LinesInit, FieldInvariant, <1>1, <1>2, PTL DEF Spec

\* insert_thread tests for a field and adds it in separate critical sections: only two
\* first inserts that meet between them record a field twice.
THEOREM FieldsDuplicateByRace == Spec => []DuplicateOnlyByRace
<1>1. FieldInv => DuplicateOnlyByRace  BY DEF FieldInv
<1> QED  BY FieldInvariant, <1>1, PTL

=============================================================================
