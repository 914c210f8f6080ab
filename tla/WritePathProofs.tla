---------------------------- MODULE WritePathProofs ----------------------------
(***************************************************************************)
(* Proofs about WritePath for any number of workers, fields, lists and     *)
(* points, and for any limits: its invariants, and that it implements      *)
(* PointPipeline.                                                          *)
(***************************************************************************)
EXTENDS WritePath, FiniteSetTheorems, TLAPS

-----------------------------------------------------------------------------
(* types *)

ClientTypes ==
  /\ unsent \subseteq Points
  /\ jobs \in Seq(Jobs)
  /\ at \in [Workers -> {"idle", "lock", "register", "put", "push",
                         "notifyTable", "notifyField", "clear", "unregister"}]
  /\ job \in [Workers -> Jobs \cup {NoJob}]
  /\ \A w \in Workers : (at[w] = "idle") <=> (job[w] = NoJob)

ListTypes ==
  /\ m_sl \in [Lists -> SUBSET Points]
  /\ m_need_reset \in [Lists -> BOOLEAN]
  /\ expired \in [Lists -> BOOLEAN]

StateTypes ==
  /\ skip_state \in [Fields -> Lists \cup {NoList, Bare}]
  /\ index_state \in [Fields -> BOOLEAN]
  /\ table_state \in BOOLEAN

DequeTypes == m_data_deque \in Seq(Blocks)

IndexTypes ==
  /\ m_index_map \in [Fields -> SUBSET SUBSET Points]
  /\ m_shard_id \in [Fields -> Shards \cup {NoShard}]
  /\ index_expired \in [Fields -> BOOLEAN]
  /\ m_create_meta \in [Fields -> BOOLEAN]
  /\ m_index_task_queue \in Seq(Fields)

FlushTypes ==
  /\ flush_jobs \in Nat
  /\ flush \in {"idle", "task", "data", "register", "account"}
  /\ in_hand \in Fields \cup {NoField}
  /\ flush \in {"register", "account"} => in_hand \in Fields
  /\ undefined \in BOOLEAN

FileTypes ==
  /\ on_disk \subseteq Points
  /\ indexed \subseteq Points
  /\ overwritten \subseteq Points
  /\ file_index \in [Shards -> SUBSET SUBSET Points]

MonitorTypes ==
  /\ monitor \in {"lists", "checkList", "removeList", "checkIndex",
                  "pushTask", "removeIndex", "removeTable"}
  /\ todo \subseteq Fields \X (Lists \cup {NoList, Bare})
  /\ visiting \in Fields \cup {NoField}
  /\ monitor \in {"removeList", "pushTask", "removeIndex"} => visiting \in Fields

\* The type invariant, one part per group of variables.
LEMMA TypeParts ==
  TypeOK <=> /\ ClientTypes /\ ListTypes /\ StateTypes /\ DequeTypes
             /\ IndexTypes /\ FlushTypes /\ FileTypes /\ MonitorTypes
BY DEF TypeOK, ClientTypes, ListTypes, StateTypes, DequeTypes, IndexTypes,
       FlushTypes, FileTypes, MonitorTypes

LEMMA TypePartsNext ==
  TypeOK' <=> /\ ClientTypes' /\ ListTypes' /\ StateTypes' /\ DequeTypes'
              /\ IndexTypes' /\ FlushTypes' /\ FileTypes' /\ MonitorTypes'
BY DEF TypeOK, ClientTypes, ListTypes, StateTypes, DequeTypes, IndexTypes,
       FlushTypes, FileTypes, MonitorTypes

\* A group of variables that does not change keeps its types.
LEMMA Unchanged ==
  /\ ClientTypes /\ UNCHANGED clientVars => ClientTypes'
  /\ ListTypes /\ UNCHANGED listVars => ListTypes'
  /\ StateTypes /\ UNCHANGED stateVars => StateTypes'
  /\ DequeTypes /\ UNCHANGED m_data_deque => DequeTypes'
  /\ IndexTypes /\ UNCHANGED indexVars => IndexTypes'
  /\ FlushTypes /\ UNCHANGED flushVars => FlushTypes'
  /\ FileTypes /\ UNCHANGED fileVars => FileTypes'
  /\ MonitorTypes /\ UNCHANGED monitorVars => MonitorTypes'
BY DEF ClientTypes, ListTypes, StateTypes, DequeTypes, IndexTypes, FlushTypes,
       FileTypes, MonitorTypes, clientVars, listVars, stateVars, indexVars,
       flushVars, fileVars, monitorVars

\* What a queue of S keeps when an element is added or taken.
LEMMA QueueTypes ==
  ASSUME NEW S, NEW q \in Seq(S)
  PROVE  /\ \A x \in S : Append(q, x) \in Seq(S)
         /\ q # <<>> => Head(q) \in S /\ Tail(q) \in Seq(S)
OBVIOUS

\* push_task keeps the queue a queue of fields.
LEMMA PushTaskType ==
  ASSUME NEW q \in Seq(Fields), NEW f \in Fields
  PROVE  PushTask(q, f) \in Seq(Fields)
BY QueueTypes DEF PushTask

LEMMA TypeInit == Init => TypeOK
<1> SUFFICES ASSUME Init
             PROVE  TypeOK
  OBVIOUS
<1> USE DEF Init
<1>1. jobs \in Seq(Jobs) /\ m_data_deque \in Seq(Blocks) /\ m_index_task_queue \in Seq(Fields)
  OBVIOUS
<1>2. ClientTypes
  BY <1>1, JobAssumption DEF ClientTypes
<1>3. ListTypes /\ StateTypes
  BY DEF ListTypes, StateTypes
<1>4. DequeTypes /\ IndexTypes
  BY <1>1 DEF DequeTypes, IndexTypes
<1>5. FlushTypes /\ FileTypes /\ MonitorTypes
  BY DEF FlushTypes, FileTypes, MonitorTypes
<1>6. QED
  BY <1>2, <1>3, <1>4, <1>5, TypeParts

\* A worker between the lock and the end of Field::write has a job.
LEMMA WorkerHasJob ==
  ASSUME TypeOK, NEW w \in Workers, at[w] # "idle"
  PROVE  /\ job[w] \in Jobs
         /\ job[w].list \in Lists
         /\ FieldOf[job[w].list] \in Fields
         /\ job[w].point \in Points \cup {NoPoint}
<1>1. job[w] \in Jobs
  BY DEF TypeOK
<1>2. job[w].list \in Lists /\ job[w].point \in Points \cup {NoPoint}
  BY <1>1 DEF Jobs
<1>3. QED
  BY <1>1, <1>2, PathAssumption

\* The steps of a worker keep the types.
LEMMA WorkerTypes ==
  ASSUME TypeOK, NEW w \in Workers, WorkerStep(w)
  PROVE  TypeOK'
<1> USE TypeParts, TypePartsNext
<1>1. CASE Take(w)
  <2>1. Head(jobs) \in Jobs /\ Tail(jobs) \in Seq(Jobs)
    BY <1>1, QueueTypes DEF Take, ClientTypes
  <2>2. ClientTypes'
    BY <1>1, <2>1, JobAssumption DEF Take, Goto, ClientTypes
  <2>3. QED
    BY <1>1, <2>2, Unchanged DEF Take
<1>2. CASE Lock(w)
  <2>1. ClientTypes'
    BY <1>2 DEF Lock, Goto, ClientTypes
  <2>2. ListTypes'
    BY <1>2, WorkerHasJob DEF Lock, Goto, ListTypes
  <2>3. QED
    BY <1>2, <2>1, <2>2, Unchanged DEF Lock
<1>3. CASE Register(w)
  <2>1. ClientTypes'
    BY <1>3 DEF Register, Goto, ClientTypes
  <2>2. StateTypes'
    BY <1>3, WorkerHasJob DEF Register, Goto, CheckAndRegister, StateTypes
  <2>3. QED
    BY <1>3, <2>1, <2>2, Unchanged DEF Register
<1>4. CASE Put(w)
  <2>1. ClientTypes'
    BY <1>4, WorkerHasJob, JobAssumption DEF Put, Goto, ClientTypes
  <2>2. ListTypes'
    BY <1>4, WorkerHasJob DEF Put, Goto, ListTypes
  <2>3. QED
    BY <1>4, <2>1, <2>2, Unchanged DEF Put
<1>5. CASE Push(w)
  <2>1. ClientTypes'
    BY <1>5 DEF Push, Goto, ClientTypes
  <2>2. [list |-> job[w].list, points |-> m_sl[job[w].list]] \in Blocks
    BY <1>5, WorkerHasJob DEF Push, Goto, ListTypes, Blocks
  <2>3. DequeTypes'
    BY <1>5, <2>2, QueueTypes DEF Push, DequeTypes
  <2>4. QED
    BY <1>5, <2>1, <2>3, Unchanged DEF Push
<1>6. CASE NotifyTable(w)
  <2>1. ClientTypes'
    BY <1>6 DEF NotifyTable, Goto, ClientTypes
  <2>2. StateTypes'
    BY <1>6 DEF NotifyTable, StateTypes
  <2>3. QED
    BY <1>6, <2>1, <2>2, Unchanged DEF NotifyTable
<1>7. CASE NotifyField(w)
  <2>1. ClientTypes'
    BY <1>7 DEF NotifyField, Goto, ClientTypes
  <2>2. StateTypes'
    BY <1>7, WorkerHasJob DEF NotifyField, Goto, CheckAndRegister, StateTypes
  <2>3. QED
    BY <1>7, <2>1, <2>2, Unchanged DEF NotifyField
<1>8. CASE Clear(w)
  <2>1. ClientTypes'
    BY <1>8 DEF Clear, Goto, ClientTypes
  <2>2. ListTypes'
    BY <1>8, WorkerHasJob DEF Clear, Goto, ListTypes
  <2>3. QED
    BY <1>8, <2>1, <2>2, Unchanged DEF Clear
<1>9. CASE Unregister(w)
  <2>1. ClientTypes'
    BY <1>9, WorkerHasJob, JobAssumption DEF Unregister, Goto, ClientTypes
  <2>2. ListTypes'
    BY <1>9, WorkerHasJob DEF Unregister, Goto, ListTypes
  <2>3. StateTypes'
    BY <1>9, WorkerHasJob DEF Unregister, Goto, RemoveStatus, StateTypes
  <2>4. QED
    BY <1>9, <2>1, <2>2, <2>3, Unchanged DEF Unregister
<1>10. QED
  BY <1>1, <1>2, <1>3, <1>4, <1>5, <1>6, <1>7, <1>8, <1>9 DEF WorkerStep

\* The block at the front of the deque.
LEMMA FrontBlock ==
  ASSUME TypeOK, m_data_deque # <<>>
  PROVE  /\ Head(m_data_deque).points \subseteq Points
         /\ FieldOf[Head(m_data_deque).list] \in Fields
         /\ ShardOf[Head(m_data_deque).list] \in Shards
         /\ Tail(m_data_deque) \in Seq(Blocks)
<1>1. Head(m_data_deque) \in Blocks /\ Tail(m_data_deque) \in Seq(Blocks)
  BY QueueTypes DEF TypeOK
<1>2. Head(m_data_deque).points \subseteq Points /\ Head(m_data_deque).list \in Lists
  BY <1>1 DEF Blocks
<1>3. QED
  BY <1>1, <1>2, PathAssumption

\* What is written over at a file change was in the file's index or in memory.
LEMMA GoneAreEntries ==
  ASSUME NEW s \in Shards, NEW hit \in SUBSET file_index[s], NEW spoilt \in SUBSET Left
  PROVE  (UNION hit) \cup (UNION {Pending(g) : g \in spoilt})
           \subseteq (UNION file_index[s]) \cup AllPending
<1>1. UNION hit \subseteq UNION file_index[s]
  OBVIOUS
<1>2. UNION {Pending(g) : g \in spoilt} \subseteq AllPending
  BY DEF AllPending, Left
<1>3. QED
  BY <1>1, <1>2

\* A file change keeps the types of what is known about the files.
LEMMA LeaveFileTypes ==
  ASSUME TypeOK, NEW s \in Shards, LeaveFile(s)
  PROVE  /\ indexed' \subseteq Points /\ overwritten' \subseteq Points
         /\ file_index' \in [Shards -> SUBSET SUBSET Points]
<1>1. PICK hit \in SUBSET file_index[s], spoilt \in SUBSET Left :
        LET gone == (UNION hit) \cup (UNION {Pending(g) : g \in spoilt}) IN
        /\ indexed' = (indexed \cup AllPending) \ gone
        /\ overwritten' = overwritten \cup gone
        /\ file_index' = [file_index EXCEPT ![s] = {}]
  BY DEF LeaveFile
<1> DEFINE gone == (UNION hit) \cup (UNION {Pending(g) : g \in spoilt})
<1>2. /\ indexed' = (indexed \cup AllPending) \ gone
      /\ overwritten' = overwritten \cup gone
      /\ file_index' = [file_index EXCEPT ![s] = {}]
  BY <1>1
<1>3. gone \subseteq (UNION file_index[s]) \cup AllPending
  BY GoneAreEntries
<1> HIDE DEF gone
<1>4. AllPending \subseteq Points
  BY DEF AllPending, Pending, TypeOK
<1>5. UNION file_index[s] \subseteq Points
  BY DEF TypeOK
<1>6. file_index' \in [Shards -> SUBSET SUBSET Points]
  BY <1>2 DEF TypeOK
<1>7. indexed \subseteq Points /\ overwritten \subseteq Points
  BY DEF TypeOK
<1>8. indexed' \subseteq Points /\ overwritten' \subseteq Points
  BY <1>2, <1>3, <1>4, <1>5, <1>7
<1>9. QED
  BY <1>6, <1>8

\* The steps of the flush thread keep the types.
LEMMA FlushStepTypes ==
  ASSUME TypeOK, FlushStep
  PROVE  TypeOK'
<1> USE TypeParts, TypePartsNext
<1>1. CASE StartFlush
  <2>1. FlushTypes'
    BY <1>1 DEF StartFlush, FlushTypes
  <2>2. QED
    BY <1>1, <2>1, Unchanged DEF StartFlush
<1>2. CASE NoTask
  <2>1. FlushTypes'
    BY <1>2 DEF NoTask, FlushTypes
  <2>2. QED
    BY <1>2, <2>1, Unchanged DEF NoTask
<1>3. CASE WriteIndex
  <2> DEFINE f == Head(m_index_task_queue)
  <2>1. f \in Fields /\ Tail(m_index_task_queue) \in Seq(Fields)
    BY <1>3, QueueTypes DEF WriteIndex, IndexTypes
  <2>2. IndexTypes'
    BY <1>3, <2>1 DEF WriteIndex, IndexTypes
  <2>3. Pending(f) \subseteq Points
    BY <2>1 DEF IndexTypes, Pending
  <2>4. FileTypes'
    <3>1. /\ indexed' = indexed \cup Pending(f)
          /\ file_index' = [file_index EXCEPT ![m_shard_id[f]] = @ \cup {Pending(f)}]
          /\ on_disk' = on_disk /\ overwritten' = overwritten
      BY <1>3 DEF WriteIndex
    <3> HIDE DEF f
    <3>2. file_index' \in [Shards -> SUBSET SUBSET Points]
      BY <2>3, <3>1 DEF FileTypes
    <3>3. QED
      BY <2>3, <3>1, <3>2 DEF FileTypes
  <2>5. FlushTypes'
    BY <1>3 DEF WriteIndex, FlushTypes
  <2>6. QED
    BY <1>3, <2>2, <2>4, <2>5, Unchanged DEF WriteIndex
<1>4. CASE StaleTask
  <2>1. IndexTypes'
    BY <1>4, QueueTypes DEF StaleTask, IndexTypes
  <2>2. FlushTypes'
    BY <1>4 DEF StaleTask, FlushTypes
  <2>3. QED
    BY <1>4, <2>1, <2>2, Unchanged DEF StaleTask
<1>5. CASE EndFlush
  <2>1. FlushTypes'
    BY <1>5 DEF EndFlush, FlushTypes
  <2>2. QED
    BY <1>5, <2>1, Unchanged DEF EndFlush
<1>6. ASSUME NEW full \in BOOLEAN, WriteBlock(full)
      PROVE  TypeOK'
  <2> DEFINE b == Head(m_data_deque)
             f == FieldOf[b.list]
             s == ShardOf[b.list]
             kept == IF full THEN [g \in Fields |-> {}] ELSE m_index_map
  <2>1. /\ b.points \subseteq Points /\ f \in Fields /\ s \in Shards
        /\ Tail(m_data_deque) \in Seq(Blocks)
    BY <1>6, FrontBlock DEF WriteBlock
  <2>2. kept \in [Fields -> SUBSET SUBSET Points]
    BY DEF IndexTypes
  <2>3. /\ m_index_map' = [kept EXCEPT ![f] = @ \cup {b.points}]
        /\ m_shard_id' = [g \in Fields |-> IF kept[g] # {} THEN m_shard_id[g]
                                           ELSE IF g = f THEN s ELSE NoShard]
        /\ index_expired' = [g \in Fields |-> kept[g] = {} \/ index_expired[g]]
        /\ UNCHANGED <<m_create_meta, m_index_task_queue>>
    BY <1>6 DEF WriteBlock
  <2>4. index_expired' \in [Fields -> BOOLEAN]
    <3>1. \A g \in Fields : (kept[g] = {} \/ index_expired[g]) \in BOOLEAN
      OBVIOUS
    <3>2. QED
      BY <2>3, <3>1
  <2>5. m_index_map' \in [Fields -> SUBSET SUBSET Points]
    BY <2>1, <2>2, <2>3
  <2>6. IndexTypes'
    <3>1. m_shard_id' \in [Fields -> Shards \cup {NoShard}]
      <4> HIDE DEF s, f, kept
      <4>1. QED
        BY <2>1, <2>3 DEF IndexTypes
    <3>2. QED
      BY <2>3, <2>4, <2>5, <3>1 DEF IndexTypes
  <2>7. /\ indexed' \subseteq Points /\ overwritten' \subseteq Points
        /\ file_index' \in [Shards -> SUBSET SUBSET Points]
    <3>1. CASE UNCHANGED <<indexed, overwritten, file_index>>
      BY <3>1 DEF FileTypes
    <3>2. CASE LeaveFile(s)
      BY <2>1, <3>2, LeaveFileTypes
    <3>3. QED
      BY <1>6, <3>1, <3>2 DEF WriteBlock
  <2>8. FileTypes'
    <3>1. on_disk' = on_disk \cup b.points
      BY <1>6 DEF WriteBlock
    <3>2. QED
      BY <2>1, <2>7, <3>1 DEF FileTypes
  <2>9. DequeTypes'
    BY <1>6, <2>1 DEF WriteBlock, DequeTypes
  <2>10. FlushTypes'
    BY <1>6, <2>1 DEF WriteBlock, FlushTypes
  <2>11. QED
    BY <1>6, <2>6, <2>8, <2>9, <2>10, Unchanged DEF WriteBlock
<1>7. CASE RegisterIndex
  <2>1. StateTypes'
    BY <1>7 DEF RegisterIndex, StateTypes
  <2>2. FlushTypes'
    BY <1>7 DEF RegisterIndex, FlushTypes
  <2>3. QED
    BY <1>7, <2>1, <2>2, Unchanged DEF RegisterIndex
<1>8. CASE Account
  <2>1. in_hand \in Fields
    BY <1>8 DEF Account, FlushTypes
  <2>2. m_index_task_queue' \in Seq(Fields)
    BY <1>8, <2>1, PushTaskType DEF Account, IndexTypes
  <2>3. (m_create_meta[in_hand] /\ index_expired[in_hand]) \in BOOLEAN
    OBVIOUS
  <2>4. IndexTypes'
    BY <1>8, <2>1, <2>2, <2>3 DEF Account, IndexTypes
  <2>5. FlushTypes'
    BY <1>8 DEF Account, FlushTypes
  <2>6. QED
    BY <1>8, <2>4, <2>5, Unchanged DEF Account
<1>9. QED
  BY <1>1, <1>2, <1>3, <1>4, <1>5, <1>6, <1>7, <1>8 DEF FlushStep

\* The steps of the monitor keep the types.
LEMMA MonitorStepTypes ==
  ASSUME TypeOK, MonitorStep
  PROVE  TypeOK'
<1> USE TypeParts, TypePartsNext
<1>1. CASE ScanLists
  <2>1. MonitorTypes'
    BY <1>1 DEF ScanLists, MonitorTypes, StateTypes
  <2>2. QED
    BY <1>1, <2>1, Unchanged DEF ScanLists
<1>2. ASSUME NEW x \in todo, CheckList(x)
      PROVE  TypeOK'
  <2>1. x[1] \in Fields
    BY DEF MonitorTypes
  <2>2. MonitorTypes'
    BY <1>2, <2>1 DEF CheckList, MonitorTypes
  <2>3. ClientTypes'
    <3>1. CASE ListIsDue(x[2]) /\ jobs' = Append(jobs, [list |-> x[2], point |-> NoPoint])
      <4>1. [list |-> x[2], point |-> NoPoint] \in Jobs
        BY <3>1 DEF ListIsDue, Jobs
      <4>2. QED
        BY <1>2, <3>1, <4>1, QueueTypes DEF CheckList, ClientTypes
    <3>2. CASE UNCHANGED jobs
      BY <1>2, <3>2 DEF CheckList, ClientTypes
    <3>3. QED
      BY <1>2, <3>1, <3>2 DEF CheckList
  <2>4. QED
    BY <1>2, <2>2, <2>3, Unchanged DEF CheckList
<1>3. CASE RemoveList
  <2>1. MonitorTypes' /\ StateTypes'
    BY <1>3 DEF RemoveList, RemoveStatus, MonitorTypes, StateTypes
  <2>2. QED
    BY <1>3, <2>1, Unchanged DEF RemoveList
<1>4. CASE ScanIndexes
  <2>1. MonitorTypes'
    BY <1>4 DEF ScanIndexes, MonitorTypes
  <2>2. QED
    BY <1>4, <2>1, Unchanged DEF ScanIndexes
<1>5. ASSUME NEW x \in todo, CheckIndex(x)
      PROVE  TypeOK'
  <2>1. x[1] \in Fields
    BY DEF MonitorTypes
  <2>2. MonitorTypes'
    BY <1>5, <2>1 DEF CheckIndex, MonitorTypes
  <2>3. QED
    BY <1>5, <2>2, Unchanged DEF CheckIndex
<1>6. CASE QueueIndex
  <2>1. m_index_task_queue' \in Seq(Fields)
    BY <1>6, PushTaskType DEF QueueIndex, IndexTypes, MonitorTypes
  <2>2. IndexTypes' /\ FlushTypes' /\ MonitorTypes'
    BY <1>6, <2>1 DEF QueueIndex, IndexTypes, FlushTypes, MonitorTypes
  <2>3. QED
    BY <1>6, <2>2, Unchanged DEF QueueIndex
<1>7. CASE RemoveIndex
  <2>1. MonitorTypes' /\ StateTypes'
    BY <1>7 DEF RemoveIndex, MonitorTypes, StateTypes
  <2>2. QED
    BY <1>7, <2>1, Unchanged DEF RemoveIndex
<1>8. CASE CheckTable
  <2>1. MonitorTypes' /\ FlushTypes'
    BY <1>8 DEF CheckTable, MonitorTypes, FlushTypes
  <2>2. QED
    BY <1>8, <2>1, Unchanged DEF CheckTable
<1>9. CASE RemoveTable
  <2>1. MonitorTypes' /\ StateTypes'
    BY <1>9 DEF RemoveTable, MonitorTypes, StateTypes
  <2>2. QED
    BY <1>9, <2>1, Unchanged DEF RemoveTable
<1>10. QED
  BY <1>1, <1>2, <1>3, <1>4, <1>5, <1>6, <1>7, <1>8, <1>9 DEF MonitorStep

\* Every step keeps the types.
LEMMA TypeStep == TypeOK /\ [Next]_vars => TypeOK'
<1> SUFFICES ASSUME TypeOK, [Next]_vars
             PROVE  TypeOK'
  OBVIOUS
<1> USE TypeParts, TypePartsNext
<1>1. ASSUME NEW p \in Points, Insert(p)
      PROVE  TypeOK'
  <2>1. [list |-> ListOf[p], point |-> p] \in Jobs
    BY PathAssumption DEF Jobs
  <2>2. ClientTypes'
    BY <1>1, <2>1, QueueTypes DEF Insert, ClientTypes
  <2>3. QED
    BY <1>1, <2>2, Unchanged DEF Insert
<1>2. ASSUME NEW l \in Lists, ListExpires(l)
      PROVE  TypeOK'
  <2>1. ListTypes'
    BY <1>2 DEF ListExpires, ListTypes
  <2>2. QED
    BY <1>2, <2>1, Unchanged DEF ListExpires
<1>3. ASSUME NEW f \in Fields, IndexExpires(f)
      PROVE  TypeOK'
  <2>1. IndexTypes'
    BY <1>3 DEF IndexExpires, IndexTypes
  <2>2. QED
    BY <1>3, <2>1, Unchanged DEF IndexExpires
<1>4. CASE UNCHANGED vars
  BY <1>4, Unchanged DEF vars
<1>5. QED
  BY <1>1, <1>2, <1>3, <1>4, WorkerTypes, FlushStepTypes, MonitorStepTypes DEF Next

-----------------------------------------------------------------------------
(* the lock of a list *)

LockInv == ListLock /\ ListProgress /\ ResetMeansEmpty

\* Only these four variables matter to the lock.
LEMMA LockFrame ==
  ASSUME LockInv, UNCHANGED <<at, job, m_sl, m_need_reset>>
  PROVE  LockInv'
BY DEF LockInv, ListLock, ListProgress, ResetMeansEmpty, InField, Unlocked

\* A list that is flushed has points.
LEMMA FlushedIsNotEmpty ==
  ASSUME NEW points, NEW late, ShouldFlushData(points, late)
  PROVE  points # {}
BY FS_EmptySet, PathAssumption DEF ShouldFlushData

LEMMA LockInit == Init => LockInv
BY DEF Init, LockInv, ListLock, ListProgress, ResetMeansEmpty, InField

\* The steps of a worker keep the lock: it passes Lock only if nobody is in the
\* list, and the list it changes afterwards is nobody else's.
LEMMA LockWorker ==
  ASSUME TypeOK, LockInv, NEW w \in Workers, WorkerStep(w)
  PROVE  LockInv'
<1> DEFINE l == job[w].list
<1> USE DEF LockInv
<1>1. CASE Take(w)
  <2>1. /\ ~InField(w) /\ ~InField(w)'
        /\ \A v \in Workers \ {w} : at'[v] = at[v] /\ job'[v] = job[v]
        /\ at'[w] = "lock"
        /\ UNCHANGED <<m_sl, m_need_reset>>
    BY <1>1 DEF Take, Goto, InField, TypeOK, listVars
  <2>2. \A v \in Workers : InField(v)' => InField(v) /\ v # w
    BY <2>1 DEF InField
  <2>3. ListLock'
    BY <2>1, <2>2 DEF ListLock
  <2>4. ListProgress'
    BY <2>1 DEF ListProgress
  <2>5. \A k \in Lists : Unlocked(k)' => Unlocked(k)
    BY <2>1 DEF Unlocked, InField
  <2>6. ResetMeansEmpty'
    BY <2>1, <2>5 DEF ResetMeansEmpty
  <2>7. QED
    BY <2>3, <2>4, <2>6
<1>2. CASE Lock(w)
  <2>1. /\ ~InField(w) /\ at'[w] \in {"register", "put"}
        /\ \A v \in Workers \ {w} : at'[v] = at[v]
        /\ \A v \in Workers : InField(v) => job[v].list # l
        /\ UNCHANGED <<job, m_sl, m_need_reset>>
        /\ l \in Lists
    BY <1>2, WorkerHasJob DEF Lock, Goto, InField, TypeOK
  <2>2. ListLock'
    BY <2>1 DEF ListLock, InField
  <2>3. m_need_reset[l] <=> m_sl[l] = {}
    BY <2>1 DEF ResetMeansEmpty, Unlocked
  <2>4. ListProgress'
    BY <2>1, <2>3 DEF ListProgress
  <2>5. \A k \in Lists : Unlocked(k)' => Unlocked(k)
    BY <2>1 DEF Unlocked, InField
  <2>6. ResetMeansEmpty'
    BY <2>1, <2>5 DEF ResetMeansEmpty
  <2>7. QED
    BY <2>2, <2>4, <2>6
<1>3. CASE Register(w) \/ Push(w) \/ NotifyTable(w) \/ NotifyField(w)
  <2>1. /\ \/ at[w] = "register" /\ at'[w] = "put"
           \/ at[w] = "push" /\ at'[w] = "notifyTable"
           \/ at[w] = "notifyTable" /\ at'[w] = "notifyField"
           \/ at[w] = "notifyField" /\ at'[w] = "clear"
        /\ \A v \in Workers \ {w} : at'[v] = at[v]
        /\ UNCHANGED <<job, m_sl, m_need_reset>>
    BY <1>3 DEF Register, Push, NotifyTable, NotifyField, Goto, TypeOK, listVars
  <2>2. \A v \in Workers : InField(v)' <=> InField(v)
    BY <2>1 DEF InField
  <2>3. ListLock'
    BY <2>1, <2>2 DEF ListLock
  <2>4. ListProgress'
    BY <2>1 DEF ListProgress
  <2>5. \A k \in Lists : Unlocked(k)' => Unlocked(k)
    BY <2>1, <2>2 DEF Unlocked
  <2>6. ResetMeansEmpty'
    BY <2>1, <2>5 DEF ResetMeansEmpty
  <2>7. QED
    BY <2>3, <2>4, <2>6
<1>4. CASE Put(w)
  <2> DEFINE p == job[w].point
             points == IF p = NoPoint \/ \E q \in m_sl[l] : TimeOf[q] = TimeOf[p]
                       THEN m_sl[l] ELSE m_sl[l] \cup {p}
             full == ShouldFlushData(points, expired[l])
  <2>1. /\ InField(w) /\ at[w] = "put" /\ l \in Lists
        /\ at'[w] = IF full THEN "push" ELSE "idle"
        /\ \A v \in Workers \ {w} : at'[v] = at[v] /\ job'[v] = job[v]
        /\ full => job'[w] = job[w]
        /\ m_sl'[l] = points
        /\ \A k \in Lists \ {l} : m_sl'[k] = m_sl[k] /\ m_need_reset'[k] = m_need_reset[k]
        /\ m_need_reset'[l] = (m_need_reset[l] /\ p = NoPoint)
    BY <1>4, WorkerHasJob DEF Put, Goto, InField, TypeOK
  <2>2. \A v \in Workers \ {w} : InField(v) => job[v].list # l
    BY <2>1 DEF ListLock
  <2>3. \A v \in Workers : InField(v)' => InField(v) /\ job'[v] = job[v]
    BY <2>1 DEF InField
  <2>4. ListLock'
    BY <2>3 DEF ListLock
  <2>5. m_need_reset[l] <=> m_sl[l] = {}
    BY <2>1 DEF ListProgress
  <2>6. m_need_reset'[l] <=> m_sl'[l] = {}
    BY <2>1, <2>5
  <2>7. full => points # {}
    <3> HIDE DEF points
    <3>1. QED
      BY FlushedIsNotEmpty
  <2>8. ListProgress'
    <3> SUFFICES ASSUME NEW v \in Workers
                 PROVE  /\ at'[v] \in {"register", "put"} =>
                             (m_need_reset'[job'[v].list] <=> m_sl'[job'[v].list] = {})
                        /\ at'[v] \in {"push", "notifyTable", "notifyField", "clear"} =>
                             m_sl'[job'[v].list] # {}
                        /\ at'[v] = "unregister" => m_sl'[job'[v].list] = {}
      BY DEF ListProgress
    <3>1. CASE v = w
      BY <2>1, <2>7, <3>1
    <3>2. CASE v # w /\ InField(v)
      <4>1. job[v].list \in Lists \ {l}
        BY <2>2, <3>2, WorkerHasJob DEF InField
      <4>2. QED
        BY <2>1, <3>2, <4>1 DEF ListProgress
    <3>3. CASE v # w /\ ~InField(v)
      BY <2>1, <3>3 DEF InField
    <3>4. QED
      BY <3>1, <3>2, <3>3
  <2>9. \A k \in Lists \ {l} : Unlocked(k)' => Unlocked(k)
    BY <2>1 DEF Unlocked, InField
  <2>10. ResetMeansEmpty'
    BY <2>1, <2>6, <2>9 DEF ResetMeansEmpty
  <2>11. QED
    BY <2>4, <2>8, <2>10
<1>5. CASE Clear(w)
  <2>1. /\ InField(w) /\ InField(w)' /\ at'[w] = "unregister" /\ l \in Lists
        /\ \A v \in Workers \ {w} : at'[v] = at[v]
        /\ m_sl'[l] = {}
        /\ \A k \in Lists \ {l} : m_sl'[k] = m_sl[k]
        /\ UNCHANGED <<job, m_need_reset>>
    BY <1>5, WorkerHasJob DEF Clear, Goto, InField, TypeOK
  <2>2. \A v \in Workers \ {w} : InField(v) => job[v].list # l
    BY <2>1 DEF ListLock
  <2>3. \A v \in Workers : InField(v)' <=> InField(v)
    BY <2>1 DEF InField
  <2>4. ListLock'
    BY <2>1, <2>3 DEF ListLock
  <2>5. \A v \in Workers \ {w} : InField(v) => job[v].list \in Lists \ {l}
    BY <2>2, WorkerHasJob DEF InField
  <2>6. ListProgress'
    BY <2>1, <2>5 DEF ListProgress, InField
  <2>7. \A k \in Lists : Unlocked(k)' => Unlocked(k) /\ k # l
    BY <2>1, <2>3 DEF Unlocked
  <2>8. ResetMeansEmpty'
    BY <2>1, <2>7 DEF ResetMeansEmpty
  <2>9. QED
    BY <2>4, <2>6, <2>8
<1>6. CASE Unregister(w)
  <2>1. /\ InField(w) /\ ~InField(w)' /\ at[w] = "unregister" /\ l \in Lists
        /\ at'[w] = "idle"
        /\ \A v \in Workers \ {w} : at'[v] = at[v] /\ job'[v] = job[v]
        /\ m_need_reset'[l] = TRUE
        /\ \A k \in Lists \ {l} : m_need_reset'[k] = m_need_reset[k]
        /\ UNCHANGED m_sl
    BY <1>6, WorkerHasJob DEF Unregister, Goto, InField, TypeOK
  <2>2. \A v \in Workers \ {w} : InField(v) => job[v].list \in Lists \ {l}
    BY <2>1, WorkerHasJob DEF ListLock, InField
  <2>3. \A v \in Workers : InField(v)' => v # w /\ InField(v)
    BY <2>1 DEF InField
  <2>4. ListLock'
    BY <2>1, <2>3 DEF ListLock
  <2>5. ListProgress'
    BY <2>1, <2>2 DEF ListProgress, InField
  <2>6. m_sl[l] = {}
    BY <2>1 DEF ListProgress
  <2>7. \A k \in Lists \ {l} : Unlocked(k)' => Unlocked(k)
    BY <2>1, <2>3 DEF Unlocked, InField
  <2>8. ResetMeansEmpty'
    BY <2>1, <2>6, <2>7 DEF ResetMeansEmpty
  <2>9. QED
    BY <2>4, <2>5, <2>8
<1>7. QED
  BY <1>1, <1>2, <1>3, <1>4, <1>5, <1>6 DEF WorkerStep

\* The flush thread and the monitor leave the lists to the workers.
LEMMA OthersLeaveLists ==
  ASSUME FlushStep \/ MonitorStep \/ (\E p \in Points : Insert(p))
           \/ (\E l \in Lists : ListExpires(l)) \/ (\E f \in Fields : IndexExpires(f))
           \/ UNCHANGED vars
  PROVE  UNCHANGED <<at, job, m_sl, m_need_reset>>
<1>1. CASE FlushStep
  BY <1>1 DEF FlushStep, StartFlush, NoTask, WriteIndex, StaleTask, EndFlush,
              WriteBlock, RegisterIndex, Account, clientVars, listVars
<1>2. CASE MonitorStep
  BY <1>2 DEF MonitorStep, ScanLists, CheckList, RemoveList, ScanIndexes,
              CheckIndex, QueueIndex, RemoveIndex, CheckTable, RemoveTable,
              clientVars, listVars
<1>3. ASSUME NEW p \in Points, Insert(p)
      PROVE  UNCHANGED <<at, job, m_sl, m_need_reset>>
  BY <1>3 DEF Insert, listVars
<1>4. ASSUME NEW l \in Lists, ListExpires(l)
      PROVE  UNCHANGED <<at, job, m_sl, m_need_reset>>
  BY <1>4 DEF ListExpires, clientVars
<1>5. ASSUME NEW f \in Fields, IndexExpires(f)
      PROVE  UNCHANGED <<at, job, m_sl, m_need_reset>>
  BY <1>5 DEF IndexExpires, clientVars, listVars
<1>6. CASE UNCHANGED vars
  BY <1>6 DEF vars, clientVars, listVars
<1>7. QED
  BY <1>1, <1>2, <1>3, <1>4, <1>5, <1>6

LEMMA LockStep == TypeOK /\ LockInv /\ [Next]_vars => LockInv'
<1> SUFFICES ASSUME TypeOK, LockInv, [Next]_vars
             PROVE  LockInv'
  OBVIOUS
<1>1. ASSUME NEW w \in Workers, WorkerStep(w)
      PROVE  LockInv'
  BY <1>1, LockWorker
<1>2. CASE UNCHANGED <<at, job, m_sl, m_need_reset>>
  BY <1>2, LockFrame
<1>3. QED
  BY <1>1, <1>2, OthersLeaveLists DEF Next

-----------------------------------------------------------------------------
(* the place of a point *)

PlaceInv == PutOnce /\ ListsAreDisjoint /\ PointInOnePlace

\* Adding at the end and taking from the front, position by position.
LEMMA QueuePositions ==
  ASSUME NEW S, NEW q \in Seq(S)
  PROVE  /\ Len(q) \in Nat
         /\ \A x \in S : /\ Len(Append(q, x)) = Len(q) + 1
                         /\ \A i \in 1..Len(q) : Append(q, x)[i] = q[i]
                         /\ Append(q, x)[Len(q) + 1] = x
         /\ q # <<>> => /\ Len(q) >= 1
                        /\ Head(q) = q[1]
                        /\ Len(Tail(q)) = Len(q) - 1
                        /\ \A i \in 1..(Len(q) - 1) : Tail(q)[i] = q[i + 1]
OBVIOUS

\* The points of a deque with one block more.
LEMMA PointsOfAppend ==
  ASSUME NEW q \in Seq(Blocks), NEW b \in Blocks
  PROVE  PointsOf(Append(q, b)) = PointsOf(q) \cup b.points
<1> DEFINE n == Len(q)
           r == Append(q, b)
<1>1. /\ n \in Nat /\ Len(r) = n + 1 /\ r[n + 1] = b
      /\ \A i \in 1..n : r[i] = q[i]
  BY QueuePositions
<1>2. 1..(n + 1) = (1..n) \cup {n + 1}
  BY <1>1
<1> HIDE DEF n, r
<1>3. QED
  BY <1>1, <1>2 DEF PointsOf, n, r

\* The points of a deque are those of its front and of the rest.
LEMMA PointsOfTail ==
  ASSUME NEW q \in Seq(Blocks), q # <<>>
  PROVE  PointsOf(q) = Head(q).points \cup PointsOf(Tail(q))
<1> DEFINE n == Len(q)
           r == Tail(q)
<1>1. /\ n \in Nat /\ n >= 1 /\ Len(r) = n - 1 /\ Head(q) = q[1]
      /\ \A i \in 1..(n - 1) : r[i] = q[i + 1]
  BY QueuePositions
<1> HIDE DEF n, r
<1>2. PointsOf(q) \subseteq Head(q).points \cup PointsOf(r)
  <2> SUFFICES ASSUME NEW i \in 1..n, NEW x \in q[i].points
               PROVE  x \in Head(q).points \cup PointsOf(r)
    BY DEF PointsOf, n
  <2>1. CASE i = 1
    BY <1>1, <2>1
  <2>2. CASE i # 1
    <3>1. i - 1 \in 1..(n - 1) /\ r[i - 1] = q[i]
      BY <1>1, <2>2
    <3>2. QED
      BY <1>1, <3>1 DEF PointsOf
  <2>3. QED
    BY <2>1, <2>2
<1>3. Head(q).points \cup PointsOf(r) \subseteq PointsOf(q)
  <2>1. Head(q).points \subseteq PointsOf(q)
    BY <1>1 DEF PointsOf, n
  <2>2. ASSUME NEW i \in 1..(n - 1), NEW x \in r[i].points
        PROVE  x \in PointsOf(q)
    <3>1. i + 1 \in 1..n /\ r[i] = q[i + 1]
      BY <1>1
    <3>2. QED
      BY <3>1, <2>2 DEF PointsOf, n
  <2>3. QED
    BY <1>1, <2>1, <2>2 DEF PointsOf
<1>4. QED
  BY <1>2, <1>3 DEF r

\* A request in the queue is for a point or empty.
LEMMA JobTypes ==
  ASSUME TypeOK
  PROVE  \A i \in 1..Len(jobs) : jobs[i].point \in Points \cup {NoPoint}
<1> SUFFICES ASSUME NEW i \in 1..Len(jobs)
             PROVE  jobs[i].point \in Points \cup {NoPoint}
  OBVIOUS
<1>1. jobs[i] \in Jobs
  BY DEF TypeOK
<1>2. QED
  BY <1>1 DEF Jobs

\* A step that moves no point keeps the places: it hands no request to another
\* worker and clears no list.
LEMMA PlaceFrame ==
  ASSUME TypeOK, PlaceInv, UNCHANGED <<unsent, jobs, m_sl, m_data_deque, on_disk>>,
         \A w \in Workers, p \in Points : Carries(w, p)' => Carries(w, p),
         \A l \in Lists : Pushed(l) => Pushed(l)'
  PROVE  PlaceInv'
<1> USE DEF PlaceInv
<1>1. InDeque' = InDeque
  BY DEF InDeque, PointsOf
<1>2. \A p \in Points : (Queued(p)' => Queued(p)) /\ (Stored(p)' <=> Stored(p))
  BY <1>1 DEF Queued, Stored
<1>3. \A i \in 1..Len(jobs) : jobs[i].point # NoPoint => jobs[i].point \in Points
  BY JobTypes
<1>4. PutOnce'
  BY <1>2, <1>3 DEF PutOnce, TypeOK
<1>5. ListsAreDisjoint'
  BY DEF ListsAreDisjoint
<1>6. \A l \in Lists : InMemory(l)' \subseteq InMemory(l)
  BY DEF InMemory
<1>7. PointInOnePlace'
  BY <1>1, <1>6 DEF PointInOnePlace
<1>8. QED
  BY <1>4, <1>5, <1>7

LEMMA PlaceInit == Init => PlaceInv
<1> SUFFICES ASSUME Init
             PROVE  PlaceInv
  OBVIOUS
<1>1. InDeque = {} /\ on_disk = {} /\ Len(jobs) = 0 /\ Len(m_data_deque) = 0
  BY DEF Init, InDeque, PointsOf
<1>2. \A w \in Workers, p \in Points : ~Carries(w, p)
  BY DEF Init, Carries
<1>3. PutOnce
  BY <1>1, <1>2 DEF Init, PutOnce, Queued, Stored
<1>4. ListsAreDisjoint /\ PointInOnePlace
  BY <1>1 DEF Init, ListsAreDisjoint, PointInOnePlace, InMemory
<1>5. QED
  BY <1>3, <1>4 DEF PlaceInv

\* Inserting a point moves it from the client to the end of the queue.
LEMMA PlaceInsert ==
  ASSUME TypeOK, PlaceInv, NEW p \in Points, Insert(p)
  PROVE  PlaceInv'
<1> DEFINE n == Len(jobs)
<1> USE DEF PlaceInv
<1>1. [list |-> ListOf[p], point |-> p] \in Jobs
  BY PathAssumption DEF Jobs
<1>2. /\ n \in Nat /\ Len(jobs') = n + 1
      /\ \A i \in 1..n : jobs'[i] = jobs[i]
      /\ jobs'[n + 1].point = p
  BY <1>1, QueuePositions DEF Insert, TypeOK
<1>3. /\ p \in unsent /\ unsent' = unsent \ {p} /\ p # NoPoint
      /\ UNCHANGED <<at, job, m_sl, m_data_deque, on_disk>>
  BY PathAssumption DEF Insert, listVars, fileVars
<1>4. \A w \in Workers, q \in Points : Carries(w, q)' <=> Carries(w, q)
  BY <1>3 DEF Carries
<1>5. ~Queued(p) /\ ~Stored(p)
  BY <1>3 DEF PutOnce
<1>6. \A i \in 1..(n + 1) : i \in 1..n \/ i = n + 1
  BY <1>2
<1>7. \A q \in Points : Queued(q)' => Queued(q) \/ q = p
  BY <1>2, <1>4, <1>6 DEF Queued
<1>8. InDeque' = InDeque
  BY <1>3 DEF InDeque, PointsOf
<1>9. \A q \in Points : Stored(q)' <=> Stored(q)
  BY <1>3, <1>8 DEF Stored
<1>10. \A i \in 1..n : jobs[i].point # p
  BY <1>5 DEF Queued
<1>11. \A w \in Workers : ~Carries(w, p)
  BY <1>5 DEF Queued
<1>12. PutOnce'
  <2> HIDE DEF n
  <2>1. \A q \in Points : q \in unsent' \/ Queued(q)' => ~Stored(q)'
    BY <1>3, <1>5, <1>7, <1>9 DEF PutOnce
  <2>2. \A q \in unsent' : ~Queued(q)'
    BY <1>3, <1>7 DEF PutOnce, TypeOK
  <2>3. \A i, j \in 1..(n + 1) :
          jobs'[i].point = jobs'[j].point /\ jobs'[i].point # NoPoint => i = j
    BY <1>2, <1>6, <1>10 DEF PutOnce, n
  <2>4. \A i \in 1..(n + 1), w \in Workers :
          jobs'[i].point # NoPoint => ~Carries(w, jobs[i].point)'
    <3> SUFFICES ASSUME NEW i \in 1..(n + 1), NEW w \in Workers, jobs'[i].point # NoPoint
                 PROVE  ~Carries(w, jobs[i].point)'
      OBVIOUS
    <3>1. CASE i = n + 1
      BY <1>2, <1>4, <1>11, <3>1
    <3>2. CASE i \in 1..n
      BY <1>2, <1>3, <3>2 DEF PutOnce, Carries, n
    <3>3. QED
      BY <1>6, <3>1, <3>2
  <2>5. \A v, w \in Workers, q \in Points : Carries(v, q)' /\ Carries(w, q)' => v = w
    BY <1>4 DEF PutOnce
  <2>6. QED
    BY <1>2, <2>1, <2>2, <2>3, <2>4, <2>5 DEF PutOnce
<1>13. ListsAreDisjoint'
  BY <1>3 DEF ListsAreDisjoint
<1>14. PointInOnePlace'
  BY <1>3, <1>8 DEF PointInOnePlace, InMemory, Pushed
<1>15. QED
  BY <1>12, <1>13, <1>14

\* Taking a job moves its point from the front of the queue to the worker.
LEMMA PlaceTake ==
  ASSUME TypeOK, PlaceInv, NEW w \in Workers, Take(w)
  PROVE  PlaceInv'
<1> DEFINE n == Len(jobs)
<1> USE DEF PlaceInv
<1>1. /\ n \in Nat /\ n >= 1 /\ Len(jobs') = n - 1
      /\ \A i \in 1..(n - 1) : jobs'[i] = jobs[i + 1]
      /\ job'[w] = jobs[1]
  BY QueuePositions DEF Take, TypeOK
<1>2. /\ at[w] = "idle" /\ at'[w] = "lock"
      /\ \A v \in Workers \ {w} : at'[v] = at[v] /\ job'[v] = job[v]
      /\ UNCHANGED <<unsent, m_sl, m_data_deque, on_disk>>
  BY DEF Take, Goto, TypeOK, listVars, fileVars
<1> HIDE DEF n
<1>3. /\ \A q \in Points : Carries(w, q)' <=> jobs[1].point = q
      /\ \A v \in Workers \ {w}, q \in Points : Carries(v, q)' <=> Carries(v, q)
  BY <1>1, <1>2 DEF Carries
<1>4. 1 \in 1..n /\ \A i \in 1..(n - 1) : i + 1 \in 1..n /\ i + 1 # 1
  BY <1>1
<1>5. \A q \in Points : Queued(q)' => Queued(q)
  BY <1>1, <1>3, <1>4 DEF Queued, n
<1>6. InDeque' = InDeque
  BY <1>2 DEF InDeque, PointsOf
<1>7. \A q \in Points : Stored(q)' <=> Stored(q)
  BY <1>2, <1>6 DEF Stored
<1>8. \A i \in 1..n : jobs[i].point \in Points \cup {NoPoint}
  BY JobTypes DEF n
<1>9. PutOnce'
  <2>1. \A q \in Points : q \in unsent' \/ Queued(q)' => ~Stored(q)'
    BY <1>2, <1>5, <1>7 DEF PutOnce
  <2>2. \A q \in unsent' : ~Queued(q)'
    BY <1>2, <1>5 DEF PutOnce, TypeOK
  <2>3. \A i, j \in 1..(n - 1) :
          jobs'[i].point = jobs'[j].point /\ jobs'[i].point # NoPoint => i = j
    <3> SUFFICES ASSUME NEW i \in 1..(n - 1), NEW j \in 1..(n - 1),
                        jobs'[i].point = jobs'[j].point, jobs'[i].point # NoPoint
                 PROVE  i = j
      OBVIOUS
    <3>1. i + 1 = j + 1
      BY <1>1, <1>4 DEF PutOnce, n
    <3>2. QED
      BY <1>1, <3>1
  <2>4. \A i \in 1..(n - 1), v \in Workers :
          jobs'[i].point # NoPoint => ~Carries(v, jobs[i].point)'
    <3> SUFFICES ASSUME NEW i \in 1..(n - 1), NEW v \in Workers, jobs'[i].point # NoPoint
                 PROVE  ~Carries(v, jobs[i].point)'
      OBVIOUS
    <3>1. i + 1 \in 1..n /\ i + 1 # 1 /\ jobs'[i] = jobs[i + 1] /\ jobs'[i].point \in Points
      BY <1>1, <1>4, <1>8
    <3>2. jobs[i + 1].point # jobs[1].point
      BY <1>4, <3>1 DEF PutOnce, n
    <3>3. ~Carries(v, jobs[i + 1].point)
      BY <3>1 DEF PutOnce, n
    <3>4. CASE v = w
      BY <1>1, <1>2, <3>1, <3>2, <3>4 DEF Carries
    <3>5. CASE v # w
      BY <1>2, <3>1, <3>3, <3>5 DEF Carries
    <3>6. QED
      BY <3>4, <3>5
  <2>5. \A u, v \in Workers, q \in Points : Carries(u, q)' /\ Carries(v, q)' => u = v
    <3>1. \A v \in Workers, q \in Points : q = jobs[1].point => ~Carries(v, q)
      BY <1>4, PathAssumption DEF PutOnce, n
    <3>2. QED
      BY <1>3, <3>1 DEF PutOnce
  <2>6. QED
    BY <1>1, <2>1, <2>2, <2>3, <2>4, <2>5 DEF PutOnce
<1>10. ListsAreDisjoint'
  BY <1>2 DEF ListsAreDisjoint
<1>11. \A l \in Lists : Pushed(l) => Pushed(l)'
  BY <1>2 DEF Pushed
<1>12. PointInOnePlace'
  BY <1>2, <1>6, <1>11 DEF PointInOnePlace, InMemory
<1>13. QED
  BY <1>9, <1>10, <1>12

\* Put moves the worker's point into its list, or drops it.
LEMMA PlacePut ==
  ASSUME TypeOK, LockInv, PlaceInv, NEW w \in Workers, Put(w)
  PROVE  PlaceInv'
<1> DEFINE l == job[w].list
           p == job[w].point
<1> USE DEF PlaceInv
<1>1. /\ at[w] = "put" /\ l \in Lists
      /\ p \in Points \cup {NoPoint}
      /\ at'[w] \in {"push", "idle"}
      /\ \A v \in Workers \ {w} : at'[v] = at[v] /\ job'[v] = job[v]
      /\ m_sl[l] \subseteq m_sl'[l]
      /\ m_sl'[l] \subseteq m_sl[l] \cup ({p} \cap Points)
      /\ \A k \in Lists \ {l} : m_sl'[k] = m_sl[k]
      /\ UNCHANGED <<unsent, jobs, m_data_deque, on_disk>>
  BY WorkerHasJob DEF Put, Goto, TypeOK, fileVars
<1> HIDE DEF l, p
<1>2. /\ \A q \in Points : ~Carries(w, q)'
      /\ \A v \in Workers \ {w}, q \in Points : Carries(v, q)' <=> Carries(v, q)
  BY <1>1 DEF Carries
<1>3. p \in Points => Carries(w, p) /\ ~Stored(p) /\ p \notin unsent
  BY <1>1 DEF Carries, PutOnce, Queued, p
<1>4. \A q \in Points : Queued(q)' => Queued(q) /\ q # p
  <2> SUFFICES ASSUME NEW q \in Points, Queued(q)'
               PROVE  Queued(q) /\ q # p
    OBVIOUS
  <2>1. CASE \E i \in 1..Len(jobs) : jobs[i].point = q
    BY <1>3, <2>1, PathAssumption DEF Queued, PutOnce
  <2>2. CASE \E v \in Workers : Carries(v, q)'
    BY <1>2, <1>3, <2>2 DEF Queued, PutOnce
  <2>3. QED
    BY <1>1, <2>1, <2>2 DEF Queued
<1>5. InDeque' = InDeque
  BY <1>1 DEF InDeque, PointsOf
<1>6. \A q \in Points : Stored(q)' => Stored(q) \/ q = p
  BY <1>1, <1>5 DEF Stored
<1>7. PutOnce'
  <2>1. \A q \in Points : q \in unsent' \/ Queued(q)' => ~Stored(q)'
    BY <1>1, <1>3, <1>4, <1>6 DEF PutOnce
  <2>2. \A q \in unsent' : ~Queued(q)'
    BY <1>1, <1>4 DEF PutOnce, TypeOK
  <2>3. \A i \in 1..Len(jobs), v \in Workers :
          jobs[i].point # NoPoint => ~Carries(v, jobs[i].point)'
    BY <1>1, <1>2, JobTypes DEF PutOnce
  <2>4. QED
    BY <1>1, <1>2, <2>1, <2>2, <2>3 DEF PutOnce
<1>8. \A k \in Lists \ {l} : p \in Points => p \notin m_sl[k]
  BY <1>3 DEF Stored
<1>9. ListsAreDisjoint'
  BY <1>1, <1>8 DEF ListsAreDisjoint
<1>10. \A k \in Lists : Pushed(k)' <=> Pushed(k)
  BY <1>1 DEF Pushed
<1>11. \A k \in Lists : InMemory(k)' \subseteq InMemory(k) \cup ({p} \cap Points)
  BY <1>1, <1>10 DEF InMemory
<1>12. p \in Points => p \notin InDeque \cup on_disk
  BY <1>3 DEF Stored
<1>13. PointInOnePlace'
  BY <1>1, <1>5, <1>11, <1>12 DEF PointInOnePlace
<1>14. QED
  BY <1>7, <1>9, <1>13

\* Push copies the points of the list, which nobody else may touch, to the deque.
LEMMA PlacePush ==
  ASSUME TypeOK, LockInv, PlaceInv, NEW w \in Workers, Push(w)
  PROVE  PlaceInv'
<1> DEFINE l == job[w].list
           n == Len(m_data_deque)
           b == [list |-> l, points |-> m_sl[l]]
<1> USE DEF PlaceInv
<1>1. /\ at[w] = "push" /\ at'[w] = "notifyTable" /\ l \in Lists
      /\ \A v \in Workers \ {w} : at'[v] = at[v]
      /\ UNCHANGED <<unsent, jobs, job, m_sl, on_disk>>
      /\ m_data_deque' = Append(m_data_deque, b)
  BY WorkerHasJob DEF Push, Goto, TypeOK, listVars, fileVars
<1>2. b \in Blocks
  BY <1>1 DEF Blocks, TypeOK
<1>3. /\ n \in Nat /\ Len(m_data_deque') = n + 1
      /\ \A i \in 1..n : m_data_deque'[i] = m_data_deque[i]
      /\ m_data_deque'[n + 1].points = m_sl[l]
  BY <1>1, <1>2, QueuePositions DEF TypeOK
<1>4. InDeque' = InDeque \cup m_sl[l]
  BY <1>1, <1>2, PointsOfAppend DEF InDeque, TypeOK
<1> HIDE DEF l, n, b
<1>5. ~Pushed(l) /\ Pushed(l)'
  BY <1>1 DEF LockInv, ListLock, InField, Pushed, l
<1>6. m_sl[l] \cap (InDeque \cup on_disk) = {}
  BY <1>1, <1>5 DEF PointInOnePlace, InMemory
<1>7. \A k \in Lists : InMemory(k)' \subseteq InMemory(k)
  BY <1>1 DEF InMemory, Pushed
<1>8. \A k \in Lists : k = l => InMemory(k)' = {}
  BY <1>1 DEF InMemory, Pushed, l
<1>9. \A k \in Lists \ {l} : InMemory(k) \cap m_sl[l] = {}
  BY <1>1 DEF InMemory, ListsAreDisjoint
<1>10. \A k \in Lists : InMemory(k)' \cap (InDeque' \cup on_disk') = {}
  <2> SUFFICES ASSUME NEW k \in Lists, k # l
               PROVE  InMemory(k)' \cap (InDeque' \cup on_disk') = {}
    BY <1>8
  <2>1. InMemory(k) \cap (InDeque \cup on_disk) = {}
    BY DEF PointInOnePlace
  <2>2. InMemory(k)' \subseteq InMemory(k) /\ InMemory(k) \cap m_sl[l] = {}
    BY <1>7, <1>9
  <2>3. on_disk' = on_disk
    BY <1>1
  <2>4. QED
    BY <1>4, <2>1, <2>2, <2>3
<1>11. \A i \in 1..n : m_data_deque[i].points \subseteq InDeque
  BY DEF InDeque, PointsOf, n
<1>12. \A i, j \in 1..(n + 1) :
         i # j => m_data_deque'[i].points \cap m_data_deque'[j].points = {}
  <2> SUFFICES ASSUME NEW i \in 1..(n + 1), NEW j \in 1..(n + 1), i # j
               PROVE  m_data_deque'[i].points \cap m_data_deque'[j].points = {}
    OBVIOUS
  <2>1. CASE i \in 1..n /\ j \in 1..n
    BY <1>3, <2>1 DEF PointInOnePlace, n
  <2>2. CASE i = n + 1 /\ j \in 1..n
    BY <1>3, <1>6, <1>11, <2>2
  <2>3. CASE j = n + 1 /\ i \in 1..n
    BY <1>3, <1>6, <1>11, <2>3
  <2>4. QED
    BY <1>3, <2>1, <2>2, <2>3
<1>13. PointInOnePlace'
  BY <1>1, <1>3, <1>4, <1>6, <1>10, <1>12 DEF PointInOnePlace
<1>14. \A v \in Workers, q \in Points : Carries(v, q)' => Carries(v, q)
  BY <1>1 DEF Carries
<1>15. \A q \in Points : (Queued(q)' => Queued(q)) /\ (Stored(q)' => Stored(q))
  BY <1>1, <1>4, <1>14 DEF Queued, Stored
<1>16. PutOnce'
  BY <1>1, <1>14, <1>15, JobTypes DEF PutOnce, TypeOK
<1>17. ListsAreDisjoint'
  BY <1>1 DEF ListsAreDisjoint
<1>18. QED
  BY <1>13, <1>16, <1>17

\* Clear removes from the list what is in the deque or on disk already.
LEMMA PlaceClear ==
  ASSUME TypeOK, PlaceInv, NEW w \in Workers, Clear(w)
  PROVE  PlaceInv'
<1> DEFINE l == job[w].list
<1> USE DEF PlaceInv
<1>1. /\ at[w] = "clear" /\ at'[w] = "unregister" /\ l \in Lists
      /\ \A v \in Workers \ {w} : at'[v] = at[v]
      /\ m_sl'[l] = {}
      /\ \A k \in Lists \ {l} : m_sl'[k] = m_sl[k]
      /\ UNCHANGED <<unsent, jobs, job, m_data_deque, on_disk>>
  BY WorkerHasJob DEF Clear, Goto, TypeOK, fileVars
<1>2. InDeque' = InDeque
  BY <1>1 DEF InDeque, PointsOf
<1>3. \A k \in Lists \ {l} : Pushed(k) => Pushed(k)'
  BY <1>1 DEF Pushed
<1>4. \A k \in Lists : InMemory(k)' \subseteq InMemory(k)
  BY <1>1, <1>3 DEF InMemory
<1>5. \A v \in Workers, q \in Points : Carries(v, q)' => Carries(v, q)
  BY <1>1 DEF Carries
<1>6. \A q \in Points : (Queued(q)' => Queued(q)) /\ (Stored(q)' => Stored(q))
  BY <1>1, <1>2, <1>5 DEF Queued, Stored
<1>7. PutOnce'
  BY <1>1, <1>5, <1>6, JobTypes DEF PutOnce, TypeOK
<1>8. ListsAreDisjoint'
  BY <1>1 DEF ListsAreDisjoint
<1>9. PointInOnePlace'
  BY <1>1, <1>2, <1>4 DEF PointInOnePlace
<1>10. QED
  BY <1>7, <1>8, <1>9

\* WriteBlock moves the points of the front block from the deque to the disk.
LEMMA PlaceWriteBlock ==
  ASSUME TypeOK, PlaceInv, NEW full \in BOOLEAN, WriteBlock(full)
  PROVE  PlaceInv'
<1> DEFINE n == Len(m_data_deque)
           b == Head(m_data_deque)
<1> USE DEF PlaceInv
<1>1. /\ m_data_deque # <<>> /\ m_data_deque' = Tail(m_data_deque)
      /\ on_disk' = on_disk \cup b.points
      /\ UNCHANGED <<unsent, jobs, at, job, m_sl>>
  BY DEF WriteBlock, clientVars, listVars
<1>2. /\ n \in Nat /\ n >= 1 /\ Len(m_data_deque') = n - 1 /\ b = m_data_deque[1]
      /\ \A i \in 1..(n - 1) : m_data_deque'[i] = m_data_deque[i + 1]
  BY <1>1, QueuePositions DEF TypeOK
<1>3. InDeque = b.points \cup InDeque'
  BY <1>1, PointsOfTail DEF InDeque, TypeOK
<1> HIDE DEF n, b
<1>4. 1 \in 1..n /\ \A i \in 1..(n - 1) : i + 1 \in 1..n /\ i + 1 # 1
  BY <1>2
<1>5. b.points \cap InDeque' = {}
  <2> SUFFICES ASSUME NEW i \in 1..(n - 1)
               PROVE  b.points \cap m_data_deque'[i].points = {}
    BY <1>2 DEF InDeque, PointsOf
  <2>1. QED
    BY <1>2, <1>4 DEF PointInOnePlace, n
<1>6. \A i, j \in 1..(n - 1) :
        i # j => m_data_deque'[i].points \cap m_data_deque'[j].points = {}
  <2> SUFFICES ASSUME NEW i \in 1..(n - 1), NEW j \in 1..(n - 1), i # j
               PROVE  m_data_deque'[i].points \cap m_data_deque'[j].points = {}
    OBVIOUS
  <2>1. i + 1 # j + 1
    BY <1>2
  <2>2. QED
    BY <1>2, <1>4, <2>1 DEF PointInOnePlace, n
<1>7. \A k \in Lists : InMemory(k)' = InMemory(k)
  BY <1>1 DEF InMemory, Pushed
<1>8. PointInOnePlace'
  BY <1>1, <1>2, <1>3, <1>5, <1>6, <1>7 DEF PointInOnePlace
<1>9. \A w \in Workers, q \in Points : Carries(w, q)' <=> Carries(w, q)
  BY <1>1 DEF Carries
<1>10. \A q \in Points : (Queued(q)' => Queued(q)) /\ (Stored(q)' => Stored(q))
  BY <1>1, <1>3, <1>9 DEF Queued, Stored
<1>11. PutOnce'
  BY <1>1, <1>9, <1>10, JobTypes DEF PutOnce, TypeOK
<1>12. ListsAreDisjoint'
  BY <1>1 DEF ListsAreDisjoint
<1>13. QED
  BY <1>8, <1>11, <1>12

\* An empty write in the queue is for no point.
LEMMA PlaceCheckList ==
  ASSUME TypeOK, PlaceInv, NEW x \in todo, CheckList(x)
  PROVE  PlaceInv'
<1> DEFINE n == Len(jobs)
           e == [list |-> x[2], point |-> NoPoint]
<1> USE DEF PlaceInv
<1>1. UNCHANGED <<unsent, at, job, m_sl, m_data_deque, on_disk>>
  BY DEF CheckList, listVars, fileVars
<1>2. CASE UNCHANGED jobs
  BY <1>1, <1>2, PlaceFrame DEF Carries, Pushed
<1>3. CASE ListIsDue(x[2]) /\ jobs' = Append(jobs, e)
  <2>1. e \in Jobs
    BY <1>3 DEF ListIsDue, Jobs
  <2>2. /\ n \in Nat /\ Len(jobs') = n + 1
        /\ \A i \in 1..n : jobs'[i] = jobs[i]
        /\ jobs'[n + 1].point = NoPoint
    BY <1>3, <2>1, QueuePositions DEF TypeOK
  <2> HIDE DEF n, e
  <2>3. \A i \in 1..(n + 1) : jobs'[i].point # NoPoint => i \in 1..n
    BY <2>2
  <2>4. \A w \in Workers, q \in Points : Carries(w, q)' <=> Carries(w, q)
    BY <1>1 DEF Carries
  <2>5. \A q \in Points : Queued(q)' => Queued(q)
    BY <2>2, <2>3, <2>4, PathAssumption DEF Queued, n
  <2>6. InDeque' = InDeque
    BY <1>1 DEF InDeque, PointsOf
  <2>7. \A q \in Points : Stored(q)' <=> Stored(q)
    BY <1>1, <2>6 DEF Stored
  <2>8. PutOnce'
    <3>1. /\ \A q \in Points : q \in unsent' \/ Queued(q)' => ~Stored(q)'
          /\ \A q \in unsent' : ~Queued(q)'
      BY <1>1, <2>5, <2>7 DEF PutOnce, TypeOK
    <3>2. \A i, j \in 1..(n + 1) :
            jobs'[i].point = jobs'[j].point /\ jobs'[i].point # NoPoint => i = j
      BY <2>2, <2>3 DEF PutOnce, n
    <3>3. \A i \in 1..(n + 1), w \in Workers :
            jobs'[i].point # NoPoint => ~Carries(w, jobs[i].point)'
      <4> SUFFICES ASSUME NEW i \in 1..(n + 1), NEW w \in Workers, jobs'[i].point # NoPoint
                   PROVE  ~Carries(w, jobs[i].point)'
        OBVIOUS
      <4>1. i \in 1..n /\ jobs'[i] = jobs[i] /\ ~Carries(w, jobs[i].point)
        BY <2>2, <2>3 DEF PutOnce, n
      <4>2. QED
        BY <1>1, <4>1 DEF Carries
    <3>4. QED
      BY <2>2, <2>4, <3>1, <3>2, <3>3 DEF PutOnce
  <2>9. ListsAreDisjoint'
    BY <1>1 DEF ListsAreDisjoint
  <2>10. PointInOnePlace'
    BY <1>1, <2>6 DEF PointInOnePlace, InMemory, Pushed
  <2>11. QED
    BY <2>8, <2>9, <2>10
<1>4. QED
  BY <1>2, <1>3 DEF CheckList

\* Every step keeps the places.
LEMMA PlaceStep ==
  TypeOK /\ LockInv /\ PlaceInv /\ [Next]_vars => PlaceInv'
<1> SUFFICES ASSUME TypeOK, LockInv, PlaceInv, [Next]_vars
             PROVE  PlaceInv'
  OBVIOUS
<1>1. ASSUME NEW w \in Workers,
             Lock(w) \/ Register(w) \/ NotifyTable(w) \/ NotifyField(w) \/ Unregister(w)
      PROVE  PlaceInv'
  <2>1. UNCHANGED <<unsent, jobs, m_sl, m_data_deque, on_disk>>
    BY <1>1 DEF Lock, Register, NotifyTable, NotifyField, Unregister, listVars, fileVars
  <2>2. /\ \/ at[w] = "lock" /\ at'[w] \in {"register", "put"} /\ job'[w] = job[w]
           \/ at[w] = "register" /\ at'[w] = "put" /\ job'[w] = job[w]
           \/ at[w] = "notifyTable" /\ at'[w] = "notifyField" /\ job'[w] = job[w]
           \/ at[w] = "notifyField" /\ at'[w] = "clear" /\ job'[w] = job[w]
           \/ at[w] = "unregister" /\ at'[w] = "idle"
        /\ \A v \in Workers \ {w} : at'[v] = at[v] /\ job'[v] = job[v]
    BY <1>1 DEF Lock, Register, NotifyTable, NotifyField, Unregister, Goto, TypeOK
  <2>3. \A v \in Workers, p \in Points : Carries(v, p)' => Carries(v, p)
    BY <2>2 DEF Carries
  <2>4. \A l \in Lists : Pushed(l) => Pushed(l)'
    <3> SUFFICES ASSUME NEW l \in Lists, NEW v \in Workers, job[v].list = l,
                        at[v] \in {"notifyTable", "notifyField", "clear"}
                 PROVE  at'[v] \in {"notifyTable", "notifyField", "clear"} /\ job'[v] = job[v]
      BY DEF Pushed
    <3>1. QED
      BY <2>2
  <2>5. QED
    BY <2>1, <2>3, <2>4, PlaceFrame
<1>2. ASSUME NEW w \in Workers, WorkerStep(w)
      PROVE  PlaceInv'
  BY <1>1, <1>2, PlaceTake, PlacePut, PlacePush, PlaceClear DEF WorkerStep
<1>3. CASE UNCHANGED <<unsent, jobs, at, job, m_sl, m_data_deque, on_disk>>
  BY <1>3, PlaceFrame DEF Carries, Pushed
<1>4. CASE FlushStep
  <2>1. \/ \E full \in BOOLEAN : WriteBlock(full)
        \/ UNCHANGED <<unsent, jobs, at, job, m_sl, m_data_deque, on_disk>>
    BY <1>4 DEF FlushStep, StartFlush, NoTask, WriteIndex, StaleTask, EndFlush,
                RegisterIndex, Account, clientVars, listVars, fileVars
  <2>2. QED
    BY <1>3, <2>1, PlaceWriteBlock
<1>5. CASE MonitorStep
  <2>1. \/ \E x \in todo : CheckList(x)
        \/ UNCHANGED <<unsent, jobs, at, job, m_sl, m_data_deque, on_disk>>
    BY <1>5 DEF MonitorStep, ScanLists, RemoveList, ScanIndexes, CheckIndex, QueueIndex,
                RemoveIndex, CheckTable, RemoveTable, clientVars, listVars, fileVars
  <2>2. QED
    BY <1>3, <2>1, PlaceCheckList
<1>6. ASSUME NEW l \in Lists, ListExpires(l)
      PROVE  PlaceInv'
  BY <1>3, <1>6 DEF ListExpires, clientVars, fileVars
<1>7. ASSUME NEW f \in Fields, IndexExpires(f)
      PROVE  PlaceInv'
  BY <1>3, <1>7 DEF IndexExpires, clientVars, listVars, fileVars
<1>8. CASE UNCHANGED vars
  BY <1>3, <1>8 DEF vars, clientVars, listVars, fileVars
<1>9. QED
  BY <1>2, <1>4, <1>5, <1>6, <1>7, <1>8, PlaceInsert DEF Next

-----------------------------------------------------------------------------

\* The inductive invariant of the write path: types, the lock of each list and
\* what its holder has done (Field::write), and the place of every point.
THEOREM PathInvariant == Spec => []PathInv
<1>1. Init => PathInv
  BY TypeInit, LockInit, PlaceInit DEF PathInv, LockInv, PlaceInv
<1>2. PathInv /\ [Next]_vars => PathInv'
  BY TypeStep, LockStep, PlaceStep DEF PathInv, LockInv, PlaceInv
<1>3. QED
  BY <1>1, <1>2, PTL DEF Spec

\* Type correctness of the write path.
THEOREM PathTypes == Spec => []TypeOK
<1>1. PathInv => TypeOK
  BY DEF PathInv
<1>2. QED
  BY <1>1, PathInvariant, PTL

\* However many workers, lists and points there are, the race of Field::write with
\* the flush thread and the monitor neither duplicates nor misplaces a point.
THEOREM PointsStayInOnePlace == Spec => []PointInOnePlace
<1>1. PathInv => PointInOnePlace
  BY DEF PathInv
<1>2. QED
  BY <1>1, PathInvariant, PTL

\* m_need_reset tells the truth about every list whose lock is free.
THEOREM ResetTellsTheTruth == Spec => []ResetMeansEmpty
<1>1. PathInv => ResetMeansEmpty
  BY DEF PathInv
<1>2. QED
  BY <1>1, PathInvariant, PTL

-----------------------------------------------------------------------------
(* index entries *)

\* The entries in memory are kept per field, and no point has one under two fields.
FieldsApart == \A f, g \in Fields : f # g => Pending(f) \cap Pending(g) = {}

\* The index blocks of two current files have no point in common.
FilesApart ==
  \A s, t \in Shards :
    s # t => (UNION file_index[s]) \cap (UNION file_index[t]) = {}

EntryInv == EntryForEveryBlock /\ FieldsApart /\ FilesApart

\* What EntryInv is about.
entryVars == <<on_disk, indexed, overwritten, file_index, m_index_map>>

\* Nothing but the blocks on disk and the entries decides about EntryInv.
LEMMA EntryFrame ==
  ASSUME EntryInv, UNCHANGED entryVars
  PROVE  EntryInv'
<1>1. AllPending' = AllPending /\ \A f \in Fields : Pending(f)' = Pending(f)
  BY DEF AllPending, Pending, entryVars
<1>2. QED
  BY <1>1 DEF EntryInv, EntryForEveryBlock, FieldsApart, FilesApart, entryVars

LEMMA EntryInit == Init => EntryInv
<1> SUFFICES ASSUME Init
             PROVE  EntryInv
  OBVIOUS
<1>1. \A f \in Fields : Pending(f) = {}
  BY DEF Init, Pending
<1>2. AllPending = {}
  BY <1>1 DEF AllPending
<1>3. \A s \in Shards : UNION file_index[s] = {}
  BY DEF Init
<1>4. QED
  BY <1>1, <1>2, <1>3 DEF Init, EntryInv, EntryForEveryBlock, FieldsApart, FilesApart

\* An index block moves the entries of one field, and no other's, to the file.
LEMMA EntryWriteIndex ==
  ASSUME TypeOK, EntryInv, WriteIndex
  PROVE  EntryInv'
<1>1. PICK f \in Fields :
        /\ indexed' = indexed \cup Pending(f)
        /\ m_index_map' = [m_index_map EXCEPT ![f] = {}]
        /\ file_index' = [file_index EXCEPT ![m_shard_id[f]] = @ \cup {Pending(f)}]
        /\ UNCHANGED <<on_disk, overwritten>>
  BY QueueTypes DEF WriteIndex, TypeOK
<1>2. m_index_map'[f] = {} /\ \A g \in Fields \ {f} : m_index_map'[g] = m_index_map[g]
  BY <1>1 DEF TypeOK
<1>3. Pending(f)' = {} /\ \A g \in Fields \ {f} : Pending(g)' = Pending(g)
  BY <1>2 DEF Pending
<1>4. AllPending = Pending(f) \cup AllPending'
  BY <1>1, <1>3 DEF AllPending
<1>5. Pending(f) \cap AllPending' = {}
  BY <1>1, <1>3 DEF AllPending, FieldsApart, EntryInv
<1>6. \A s \in Shards :
        /\ s # m_shard_id[f] => file_index'[s] = file_index[s]
        /\ s = m_shard_id[f] => file_index'[s] = file_index[s] \cup {Pending(f)}
  BY <1>1 DEF TypeOK
<1>7. \A s \in Shards :
        /\ s # m_shard_id[f] => UNION file_index'[s] = UNION file_index[s]
        /\ s = m_shard_id[f] =>
             UNION file_index'[s] = (UNION file_index[s]) \cup Pending(f)
  BY <1>6
<1>8. Pending(f) \cap indexed = {} /\ \A s \in Shards : UNION file_index[s] \subseteq indexed
  BY <1>4 DEF EntryForEveryBlock, EntryInv
<1>9. \A s \in Shards : UNION file_index'[s] \subseteq indexed'
  BY <1>1, <1>7, <1>8
<1>10. EntryForEveryBlock'
  BY <1>1, <1>4, <1>5, <1>9 DEF EntryForEveryBlock, EntryInv
<1>11. FieldsApart'
  BY <1>3 DEF FieldsApart, EntryInv
<1>12. FilesApart'
  BY <1>7, <1>8 DEF FilesApart, EntryInv
<1>13. QED
  BY <1>10, <1>11, <1>12 DEF EntryInv

\* What a file change makes of the entries that are in memory and of those in
\* the file: some are written over, the others are in the file that is left.
LEMMA EntriesLeft ==
  ASSUME TypeOK, EntryInv, NEW s \in Shards, LeaveFile(s)
  PROVE  \E gone \in SUBSET (indexed \cup AllPending) :
           /\ gone # {} => AllPending # {} \/ \E f \in Fields : {} \in m_index_map[f]
           /\ indexed' = (indexed \cup AllPending) \ gone
           /\ overwritten' = overwritten \cup gone
           /\ \A t \in Shards : UNION file_index'[t] \subseteq indexed'
           /\ FilesApart'
<1>1. PICK hit \in SUBSET file_index[s], spoilt \in SUBSET Left :
        /\ GoesOver(s, hit, spoilt)
        /\ LET gone == (UNION hit) \cup (UNION {Pending(g) : g \in spoilt}) IN
           /\ indexed' = (indexed \cup AllPending) \ gone
           /\ overwritten' = overwritten \cup gone
           /\ file_index' = [file_index EXCEPT ![s] = {}]
  BY DEF LeaveFile
<1> DEFINE gone == (UNION hit) \cup (UNION {Pending(g) : g \in spoilt})
<1>2. /\ indexed' = (indexed \cup AllPending) \ gone
      /\ overwritten' = overwritten \cup gone
      /\ file_index' = [file_index EXCEPT ![s] = {}]
  BY <1>1
<1>3. gone \subseteq (UNION file_index[s]) \cup AllPending
  BY GoneAreEntries
<1>4. UNION file_index[s] \subseteq indexed
  BY DEF EntryInv, EntryForEveryBlock
<1>5. gone # {} => Left # {}
  <2>1. Left = {} => hit = {} /\ spoilt = {}
    BY <1>1 DEF GoesOver
  <2>2. Left = {} => gone = {}
    BY <2>1
  <2>3. QED
    BY <2>2
<1>6. gone # {} => AllPending # {} \/ \E f \in Fields : {} \in m_index_map[f]
  <2>1. ASSUME NEW f \in Fields, m_index_map[f] # {}, {} \notin m_index_map[f]
        PROVE  AllPending # {}
    <3>1. PICK b \in m_index_map[f] : b # {}
      BY <2>1
    <3>2. b \subseteq AllPending
      BY DEF AllPending, Pending
    <3>3. QED
      BY <3>1, <3>2
  <2>2. QED
    BY <1>5, <2>1 DEF Left
<1> HIDE DEF gone
<1>7. file_index'[s] = {} /\ \A t \in Shards \ {s} : file_index'[t] = file_index[t]
  BY <1>2 DEF TypeOK
<1>8. \A t \in Shards \ {s} : (UNION file_index[t]) \cap gone = {}
  BY <1>3 DEF EntryInv, EntryForEveryBlock, FilesApart
<1>9. \A t \in Shards \ {s} : UNION file_index[t] \subseteq indexed'
  BY <1>2, <1>8 DEF EntryInv, EntryForEveryBlock
<1>10. \A t \in Shards : UNION file_index'[t] \subseteq indexed'
  BY <1>7, <1>9
<1>11. UNION file_index'[s] = {}
  BY <1>7
<1>12. FilesApart'
  BY <1>7, <1>11 DEF EntryInv, FilesApart
<1>13. QED
  BY <1>2, <1>3, <1>4, <1>6, <1>10, <1>12

\* A data block enters with one entry, under its field.  PointInOnePlace says that no
\* block on disk has its points.
LEMMA EntryWriteBlock ==
  ASSUME TypeOK, PointInOnePlace, EntryInv, NEW full \in BOOLEAN, WriteBlock(full)
  PROVE  EntryInv'
<1>1. PICK b \in Blocks, h \in Fields, s \in Shards :
        /\ b.points \cap on_disk = {}
        /\ on_disk' = on_disk \cup b.points
        /\ \/ full /\ LeaveFile(s)
           \/ ~full /\ UNCHANGED <<indexed, overwritten, file_index>>
        /\ m_index_map' = [(IF full THEN [g \in Fields |-> {}] ELSE m_index_map)
                             EXCEPT ![h] = @ \cup {b.points}]
  <2> DEFINE front == Head(m_data_deque)
  <2>1. front = m_data_deque[1] /\ 1 \in 1..Len(m_data_deque) /\ front \in Blocks
    BY QueuePositions DEF TypeOK, WriteBlock
  <2>2. FieldOf[front.list] \in Fields /\ ShardOf[front.list] \in Shards
    BY <2>1, PathAssumption DEF Blocks
  <2>3. front.points \cap on_disk = {}
    BY <2>1 DEF PointInOnePlace, InDeque, PointsOf
  <2>4. QED
    BY <2>1, <2>2, <2>3 DEF WriteBlock
<1>2. CASE full
  <2>1. m_index_map' = [[g \in Fields |-> {}] EXCEPT ![h] = @ \cup {b.points}]
    BY <1>1, <1>2
  <2>2. m_index_map'[h] = {b.points} /\ \A g \in Fields \ {h} : m_index_map'[g] = {}
    BY <2>1
  <2>3. Pending(h)' = b.points /\ \A g \in Fields \ {h} : Pending(g)' = {}
    BY <2>2 DEF Pending
  <2>4. AllPending' = b.points
    BY <2>3 DEF AllPending
  <2>5. PICK gone \in SUBSET (indexed \cup AllPending) :
           /\ indexed' = (indexed \cup AllPending) \ gone
           /\ overwritten' = overwritten \cup gone
           /\ \A t \in Shards : UNION file_index'[t] \subseteq indexed'
           /\ FilesApart'
    BY <1>1, <1>2, EntriesLeft
  <2>6. EntryForEveryBlock'
    BY <1>1, <2>4, <2>5 DEF EntryForEveryBlock, EntryInv
  <2>7. FieldsApart'
    BY <2>3 DEF FieldsApart
  <2>8. QED
    BY <2>5, <2>6, <2>7 DEF EntryInv
<1>3. CASE ~full
  <2>1. /\ UNCHANGED <<indexed, overwritten, file_index>>
        /\ m_index_map' = [m_index_map EXCEPT ![h] = @ \cup {b.points}]
    BY <1>1, <1>3
  <2>2. /\ m_index_map'[h] = m_index_map[h] \cup {b.points}
        /\ \A g \in Fields \ {h} : m_index_map'[g] = m_index_map[g]
    BY <2>1 DEF TypeOK
  <2>3. /\ Pending(h)' = Pending(h) \cup b.points
        /\ \A g \in Fields \ {h} : Pending(g)' = Pending(g)
    BY <2>2 DEF Pending
  <2>4. AllPending' = AllPending \cup b.points
    BY <2>3 DEF AllPending
  <2>5. EntryForEveryBlock'
    BY <1>1, <2>1, <2>4 DEF EntryForEveryBlock, EntryInv
  <2>6. \A g \in Fields : Pending(g) \cap b.points = {}
    BY <1>1 DEF EntryForEveryBlock, EntryInv, AllPending
  <2>7. FieldsApart'
    BY <2>3, <2>6 DEF FieldsApart, EntryInv
  <2>8. FilesApart'
    BY <2>1 DEF FilesApart, EntryInv
  <2>9. QED
    BY <2>5, <2>7, <2>8 DEF EntryInv
<1>4. QED
  BY <1>2, <1>3

\* Every step keeps the entries.
LEMMA EntryStep ==
  TypeOK /\ PointInOnePlace /\ EntryInv /\ [Next]_vars => EntryInv'
<1> SUFFICES ASSUME TypeOK, PointInOnePlace, EntryInv, [Next]_vars
             PROVE  EntryInv'
  OBVIOUS
<1>1. CASE UNCHANGED entryVars
  BY <1>1, EntryFrame
<1>2. ASSUME NEW w \in Workers, WorkerStep(w)
      PROVE  EntryInv'
  BY <1>1, <1>2 DEF WorkerStep, Take, Lock, Register, Put, Push, NotifyTable, NotifyField,
                    Clear, Unregister, entryVars, indexVars, fileVars
<1>3. CASE FlushStep
  <2>1. \/ WriteIndex
        \/ \E full \in BOOLEAN : WriteBlock(full)
        \/ UNCHANGED entryVars
    BY <1>3 DEF FlushStep, StartFlush, NoTask, StaleTask, EndFlush, RegisterIndex, Account,
                entryVars, indexVars, fileVars
  <2>2. QED
    BY <1>1, <2>1, EntryWriteIndex, EntryWriteBlock
<1>4. CASE MonitorStep
  BY <1>1, <1>4 DEF MonitorStep, ScanLists, RemoveList, ScanIndexes, QueueIndex, RemoveIndex,
                    CheckTable, RemoveTable, CheckList, CheckIndex, entryVars, indexVars, fileVars
<1>5. ASSUME NEW p \in Points, Insert(p)
      PROVE  EntryInv'
  BY <1>1, <1>5 DEF Insert, entryVars, indexVars, fileVars
<1>6. ASSUME NEW l \in Lists, ListExpires(l)
      PROVE  EntryInv'
  BY <1>1, <1>6 DEF ListExpires, entryVars, indexVars, fileVars
<1>7. ASSUME NEW f \in Fields, IndexExpires(f)
      PROVE  EntryInv'
  BY <1>1, <1>7 DEF IndexExpires, entryVars, fileVars
<1>8. CASE UNCHANGED vars
  BY <1>1, <1>8 DEF vars, entryVars, indexVars, fileVars
<1>9. QED
  BY <1>2, <1>3, <1>4, <1>5, <1>6, <1>7, <1>8 DEF Next

\* Through index tasks, file changes and tasks without entries, each block on disk has
\* exactly one index entry: in memory, whole in a file, or written over in a file that
\* has been left (Write::queue_flush_disk).  Those of the current files are whole.
THEOREM EntriesMatchBlocks == Spec => []EntryForEveryBlock
<1>1. Init => EntryInv
  BY EntryInit
<1>2. PathInv => TypeOK /\ PointInOnePlace
  BY DEF PathInv
<1>3. PathInv /\ EntryInv /\ [Next]_vars => EntryInv'
  BY <1>2, EntryStep
<1>4. EntryInv => EntryForEveryBlock
  BY DEF EntryInv
<1>5. QED
  BY <1>1, <1>3, <1>4, PathInvariant, PTL DEF Spec

-----------------------------------------------------------------------------
(* what is stranded in the deque *)

\* A step keeps a block from being stranded if it leaves the deque, the registration
\* and the flushes alone, and no worker stops being about to notify the table.
LEMMA NotStranded ==
  ASSUME Stranded', UNCHANGED <<m_data_deque, table_state, flush, flush_jobs>>,
         \A w \in Workers : at[w] = "notifyTable" => at'[w] = "notifyTable"
  PROVE  Stranded
BY DEF Stranded

LEMMA WorkerStrandsNothing ==
  ASSUME TypeOK, Stranded', NEW w \in Workers, WorkerStep(w)
  PROVE  Stranded
<1> USE DEF Goto
<1>1. at \in [Workers -> {"idle", "lock", "register", "put", "push", "notifyTable",
                          "notifyField", "clear", "unregister"}]
  BY DEF TypeOK
<1>2. CASE Push(w)
  <2>1. at'[w] = "notifyTable"
    BY <1>1, <1>2 DEF Push
  <2>2. QED
    BY <2>1 DEF Stranded
<1>3. CASE NotifyTable(w)
  BY <1>3 DEF NotifyTable, Stranded
<1>4. CASE ~Push(w) /\ ~NotifyTable(w)
  <2>1. UNCHANGED <<m_data_deque, table_state, flush, flush_jobs>>
    BY <1>4 DEF WorkerStep, Take, Lock, Register, Put, NotifyField, Clear, Unregister,
                stateVars, flushVars
  <2>2. at[w] # "notifyTable" /\ \E to : at' = [at EXCEPT ![w] = to]
    BY <1>4 DEF WorkerStep, Take, Lock, Register, Put, NotifyField, Clear, Unregister
  <2>3. QED
    BY <1>1, <2>1, <2>2, NotStranded
<1>5. QED
  BY <1>2, <1>3, <1>4

\* A flush that ends has emptied the deque, or met a task without entries.
LEMMA FlushStrandsNothing ==
  ASSUME Stranded', FlushStep, ~undefined'
  PROVE  Stranded
<1>1. flush' = "idle" => EndFlush
  BY DEF FlushStep, StartFlush, NoTask, WriteIndex, StaleTask, WriteBlock, RegisterIndex, Account
<1>2. QED
  BY <1>1 DEF EndFlush, Stranded

LEMMA MonitorStrandsLate ==
  ASSUME TypeOK, Stranded', MonitorStep, monitor # "removeTable"
  PROVE  Stranded
<1>1. flush_jobs \in Nat
  BY DEF TypeOK
<1>2. CASE QueueIndex \/ (CheckTable /\ table_state)
  BY <1>1, <1>2 DEF QueueIndex, CheckTable, Stranded
<1>3. CASE ~QueueIndex /\ ~(CheckTable /\ table_state)
  <2>1. UNCHANGED <<m_data_deque, table_state, flush, flush_jobs, at>>
    BY <1>3 DEF MonitorStep, ScanLists, RemoveList, ScanIndexes, RemoveIndex, CheckTable,
                RemoveTable, CheckList, CheckIndex, stateVars, flushVars, clientVars
  <2>2. QED
    BY <2>1, NotStranded
<1>4. QED
  BY <1>2, <1>3

\* TableState::iterate_map removes the registration after disk_write has queued a flush;
\* apart from a flush that meets a task without entries, only that strands a block.
THEOREM OnlyTheMonitorStrands == Spec => OnlyRemovalStrands
<1>1. ASSUME TypeOK, [Next]_vars, ~Stranded, Stranded', monitor # "removeTable", ~undefined'
      PROVE  FALSE
  <2>1. ASSUME NEW w \in Workers, WorkerStep(w) PROVE FALSE
    BY <1>1, <2>1, WorkerStrandsNothing
  <2>2. CASE FlushStep
    BY <1>1, <2>2, FlushStrandsNothing
  <2>3. CASE MonitorStep
    BY <1>1, <2>3, MonitorStrandsLate
  <2>4. UNCHANGED <<m_data_deque, table_state, flush, flush_jobs, at>>
    BY <1>1, <2>1, <2>2, <2>3
       DEF Next, Insert, ListExpires, IndexExpires, vars, clientVars, stateVars, flushVars
  <2>5. QED
    BY <1>1, <2>4, NotStranded
<1>2. TypeOK /\ [Next]_vars
        => [~Stranded /\ Stranded' => monitor = "removeTable" \/ undefined']_vars
  BY <1>1
<1>3. QED
  BY <1>2, PathTypes, PTL DEF Spec, OnlyRemovalStrands

-----------------------------------------------------------------------------
(***************************************************************************)
(* WritePath implements PointPipeline, for any number of workers, fields,  *)
(* lists and points, and for any limits: no point that was inserted is     *)
(* lost on its way to the index of a file, unless its timestamp is taken.  *)
(***************************************************************************)

(* where points belong *)

\* A point is only ever put into its own list.
PointsAreHome ==
  /\ \A l \in Lists : \A p \in m_sl[l] : ListOf[p] = l
  /\ \A i \in 1..Len(jobs) :
       jobs[i].point # NoPoint => jobs[i].list = ListOf[jobs[i].point]
  /\ \A w \in Workers :
       at[w] # "idle" /\ job[w].point # NoPoint => job[w].list = ListOf[job[w].point]

\* What a worker has still to clear has left the list already.
PushedIsSafe ==
  \A l \in Lists : Pushed(l) => m_sl[l] \subseteq InDeque \cup on_disk

HomeInv == PointsAreHome /\ PushedIsSafe

LEMMA HomeFrame ==
  ASSUME HomeInv, UNCHANGED <<jobs, at, job, m_sl>>,
         InDeque \cup on_disk \subseteq InDeque' \cup on_disk'
  PROVE  HomeInv'
<1>1. \A l \in Lists : Pushed(l)' <=> Pushed(l)
  BY DEF Pushed
<1>2. QED
  BY <1>1 DEF HomeInv, PointsAreHome, PushedIsSafe

LEMMA HomeInit == Init => HomeInv
BY DEF Init, HomeInv, PointsAreHome, PushedIsSafe, Pushed

\* A request is made for a point and the point's list.
LEMMA HomeInsert ==
  ASSUME TypeOK, HomeInv, NEW p \in Points, Insert(p)
  PROVE  HomeInv'
<1> DEFINE n == Len(jobs)
<1>1. [list |-> ListOf[p], point |-> p] \in Jobs
  BY PathAssumption DEF Jobs
<1>2. /\ n \in Nat /\ Len(jobs') = n + 1
      /\ \A i \in 1..n : jobs'[i] = jobs[i]
      /\ jobs'[n + 1] = [list |-> ListOf[p], point |-> p]
  BY <1>1, QueuePositions DEF Insert, TypeOK
<1>3. UNCHANGED <<at, job, m_sl, m_data_deque, on_disk>>
  BY DEF Insert, listVars, fileVars
<1>4. \A i \in 1..(n + 1) : i \in 1..n \/ i = n + 1
  BY <1>2
<1> HIDE DEF n
<1>5. \A i \in 1..(n + 1) : jobs'[i].point # NoPoint => jobs'[i].list = ListOf[jobs'[i].point]
  BY <1>2, <1>4 DEF HomeInv, PointsAreHome, n
<1>6. PointsAreHome'
  BY <1>2, <1>3, <1>5 DEF HomeInv, PointsAreHome
<1>7. PushedIsSafe'
  BY <1>3 DEF HomeInv, PushedIsSafe, Pushed, InDeque, PointsOf
<1>8. QED
  BY <1>6, <1>7 DEF HomeInv

LEMMA HomeTake ==
  ASSUME TypeOK, HomeInv, NEW w \in Workers, Take(w)
  PROVE  HomeInv'
<1> DEFINE n == Len(jobs)
<1>1. /\ n \in Nat /\ n >= 1 /\ Len(jobs') = n - 1
      /\ \A i \in 1..(n - 1) : jobs'[i] = jobs[i + 1]
      /\ job'[w] = jobs[1]
  BY QueuePositions DEF Take, TypeOK
<1>2. /\ at[w] = "idle" /\ at'[w] = "lock"
      /\ \A v \in Workers \ {w} : at'[v] = at[v] /\ job'[v] = job[v]
      /\ UNCHANGED <<m_sl, m_data_deque, on_disk>>
  BY DEF Take, Goto, TypeOK, listVars, fileVars
<1>3. 1 \in 1..n /\ \A i \in 1..(n - 1) : i + 1 \in 1..n
  BY <1>1
<1> HIDE DEF n
<1>4. PointsAreHome'
  BY <1>1, <1>2, <1>3 DEF HomeInv, PointsAreHome, n
<1>5. \A l \in Lists : Pushed(l)' => Pushed(l)
  BY <1>2 DEF Pushed
<1>6. PushedIsSafe'
  BY <1>2, <1>5 DEF HomeInv, PushedIsSafe, InDeque, PointsOf
<1>7. QED
  BY <1>4, <1>6 DEF HomeInv

\* The point goes into the list of its request, which nobody has pushed.
LEMMA HomePut ==
  ASSUME TypeOK, LockInv, HomeInv, NEW w \in Workers, Put(w)
  PROVE  HomeInv'
<1> DEFINE l == job[w].list
           p == job[w].point
<1>1. /\ at[w] = "put" /\ l \in Lists
      /\ at'[w] \in {"push", "idle"}
      /\ at'[w] = "push" => job'[w] = job[w]
      /\ \A v \in Workers \ {w} : at'[v] = at[v] /\ job'[v] = job[v]
      /\ m_sl'[l] \subseteq m_sl[l] \cup ({p} \cap Points)
      /\ \A k \in Lists \ {l} : m_sl'[k] = m_sl[k]
      /\ UNCHANGED <<jobs, m_data_deque, on_disk>>
  BY WorkerHasJob DEF Put, Goto, TypeOK, fileVars
<1>2. p \in Points => ListOf[p] = l
  BY <1>1, PathAssumption DEF HomeInv, PointsAreHome
<1>3. ~Pushed(l)
  BY <1>1 DEF LockInv, ListLock, InField, Pushed
<1>4. \A k \in Lists : Pushed(k)' => Pushed(k)
  BY <1>1 DEF Pushed
<1> HIDE DEF l, p
<1>5. PointsAreHome'
  <2>1. \A k \in Lists : \A q \in m_sl'[k] : ListOf[q] = k
    BY <1>1, <1>2 DEF HomeInv, PointsAreHome
  <2>2. \A v \in Workers :
          at'[v] # "idle" /\ job'[v].point # NoPoint => job'[v].list = ListOf[job'[v].point]
    BY <1>1 DEF HomeInv, PointsAreHome
  <2>3. QED
    BY <1>1, <2>1, <2>2 DEF HomeInv, PointsAreHome
<1>6. PushedIsSafe'
  BY <1>1, <1>3, <1>4 DEF HomeInv, PushedIsSafe, InDeque, PointsOf
<1>7. QED
  BY <1>5, <1>6 DEF HomeInv

\* The block of the list is in the deque before the list counts as pushed.
LEMMA HomePush ==
  ASSUME TypeOK, HomeInv, NEW w \in Workers, Push(w)
  PROVE  HomeInv' /\ InDeque' = InDeque \cup m_sl[job[w].list]
<1> DEFINE l == job[w].list
           b == [list |-> l, points |-> m_sl[l]]
<1>1. /\ at[w] = "push" /\ at'[w] = "notifyTable" /\ l \in Lists
      /\ \A v \in Workers \ {w} : at'[v] = at[v]
      /\ UNCHANGED <<jobs, job, m_sl, on_disk>>
      /\ m_data_deque' = Append(m_data_deque, b)
  BY WorkerHasJob DEF Push, Goto, TypeOK, listVars, fileVars
<1>2. b \in Blocks
  BY <1>1 DEF Blocks, TypeOK
<1>3. InDeque' = InDeque \cup m_sl[l]
  BY <1>1, <1>2, PointsOfAppend DEF InDeque, TypeOK
<1>4. \A k \in Lists : Pushed(k)' => Pushed(k) \/ k = l
  BY <1>1 DEF Pushed
<1> HIDE DEF l, b
<1>5. PushedIsSafe'
  BY <1>1, <1>3, <1>4 DEF HomeInv, PushedIsSafe
<1>6. PointsAreHome'
  BY <1>1 DEF HomeInv, PointsAreHome
<1>7. QED
  BY <1>3, <1>5, <1>6 DEF HomeInv, l

LEMMA HomeClear ==
  ASSUME TypeOK, HomeInv, NEW w \in Workers, Clear(w)
  PROVE  HomeInv'
<1> DEFINE l == job[w].list
<1>1. /\ at[w] = "clear" /\ at'[w] = "unregister" /\ l \in Lists
      /\ \A v \in Workers \ {w} : at'[v] = at[v]
      /\ m_sl'[l] = {} /\ \A k \in Lists \ {l} : m_sl'[k] = m_sl[k]
      /\ UNCHANGED <<jobs, job, m_data_deque, on_disk>>
  BY WorkerHasJob DEF Clear, Goto, TypeOK, fileVars
<1>2. \A k \in Lists : Pushed(k)' => Pushed(k)
  BY <1>1 DEF Pushed
<1> HIDE DEF l
<1>3. PointsAreHome'
  BY <1>1 DEF HomeInv, PointsAreHome
<1>4. PushedIsSafe'
  BY <1>1, <1>2 DEF HomeInv, PushedIsSafe, InDeque, PointsOf
<1>5. QED
  BY <1>3, <1>4 DEF HomeInv

\* The monitor's request is for no point.
LEMMA HomeCheckList ==
  ASSUME TypeOK, HomeInv, NEW x \in todo, CheckList(x)
  PROVE  HomeInv'
<1> DEFINE n == Len(jobs)
           e == [list |-> x[2], point |-> NoPoint]
<1>1. UNCHANGED <<at, job, m_sl, m_data_deque, on_disk>>
  BY DEF CheckList, listVars, fileVars
<1>2. InDeque' = InDeque
  BY <1>1 DEF InDeque, PointsOf
<1>3. CASE UNCHANGED jobs
  BY <1>1, <1>2, <1>3, HomeFrame
<1>4. CASE ListIsDue(x[2]) /\ jobs' = Append(jobs, e)
  <2>1. e \in Jobs
    BY <1>4 DEF ListIsDue, Jobs
  <2>2. /\ n \in Nat /\ Len(jobs') = n + 1
        /\ \A i \in 1..n : jobs'[i] = jobs[i]
        /\ jobs'[n + 1].point = NoPoint
    BY <1>4, <2>1, QueuePositions DEF TypeOK
  <2>3. \A i \in 1..(n + 1) : i \in 1..n \/ i = n + 1
    BY <2>2
  <2> HIDE DEF n, e
  <2>4. PointsAreHome'
    BY <1>1, <2>2, <2>3 DEF HomeInv, PointsAreHome, n
  <2>5. PushedIsSafe'
    BY <1>1, <1>2 DEF HomeInv, PushedIsSafe, Pushed
  <2>6. QED
    BY <2>4, <2>5 DEF HomeInv
<1>5. QED
  BY <1>3, <1>4 DEF CheckList

\* Every step leaves the points where they belong.
LEMMA HomeStep ==
  TypeOK /\ LockInv /\ HomeInv /\ [Next]_vars => HomeInv'
<1> SUFFICES ASSUME TypeOK, LockInv, HomeInv, [Next]_vars
             PROVE  HomeInv'
  OBVIOUS
<1>1. ASSUME NEW w \in Workers,
             Lock(w) \/ Register(w) \/ NotifyTable(w) \/ NotifyField(w) \/ Unregister(w)
      PROVE  HomeInv'
  <2>1. UNCHANGED <<jobs, m_sl, m_data_deque, on_disk>>
    BY <1>1 DEF Lock, Register, NotifyTable, NotifyField, Unregister, listVars, fileVars
  <2>2. /\ \/ at[w] = "lock" /\ at'[w] \in {"register", "put"} /\ job'[w] = job[w]
           \/ at[w] = "register" /\ at'[w] = "put" /\ job'[w] = job[w]
           \/ at[w] = "notifyTable" /\ at'[w] = "notifyField" /\ job'[w] = job[w]
           \/ at[w] = "notifyField" /\ at'[w] = "clear" /\ job'[w] = job[w]
           \/ at[w] = "unregister" /\ at'[w] = "idle"
        /\ \A v \in Workers \ {w} : at'[v] = at[v] /\ job'[v] = job[v]
    BY <1>1 DEF Lock, Register, NotifyTable, NotifyField, Unregister, Goto, TypeOK
  <2>3. \A l \in Lists : Pushed(l)' => Pushed(l)
    BY <2>2 DEF Pushed
  <2>4. PointsAreHome'
    BY <2>1, <2>2 DEF HomeInv, PointsAreHome
  <2>5. PushedIsSafe'
    BY <2>1, <2>3 DEF HomeInv, PushedIsSafe, InDeque, PointsOf
  <2>6. QED
    BY <2>4, <2>5 DEF HomeInv
<1>2. ASSUME NEW w \in Workers, WorkerStep(w)
      PROVE  HomeInv'
  BY <1>1, <1>2, HomeTake, HomePut, HomePush, HomeClear DEF WorkerStep
<1>3. CASE UNCHANGED <<jobs, at, job, m_sl, m_data_deque, on_disk>>
  BY <1>3, HomeFrame DEF InDeque, PointsOf
<1>4. ASSUME NEW full \in BOOLEAN, WriteBlock(full)
      PROVE  HomeInv'
  <2>1. /\ m_data_deque # <<>> /\ m_data_deque' = Tail(m_data_deque)
        /\ on_disk' = on_disk \cup Head(m_data_deque).points
        /\ UNCHANGED <<jobs, at, job, m_sl>>
    BY <1>4 DEF WriteBlock, clientVars, listVars
  <2>2. InDeque = Head(m_data_deque).points \cup InDeque'
    BY <2>1, PointsOfTail DEF InDeque, TypeOK
  <2>3. QED
    BY <2>1, <2>2, HomeFrame
<1>5. CASE FlushStep
  <2>1. \/ \E full \in BOOLEAN : WriteBlock(full)
        \/ UNCHANGED <<jobs, at, job, m_sl, m_data_deque, on_disk>>
    BY <1>5 DEF FlushStep, StartFlush, NoTask, WriteIndex, StaleTask, EndFlush,
                RegisterIndex, Account, clientVars, listVars, fileVars
  <2>2. QED
    BY <1>3, <1>4, <2>1
<1>6. CASE MonitorStep
  <2>1. \/ \E x \in todo : CheckList(x)
        \/ UNCHANGED <<jobs, at, job, m_sl, m_data_deque, on_disk>>
    BY <1>6 DEF MonitorStep, ScanLists, RemoveList, ScanIndexes, CheckIndex, QueueIndex,
                RemoveIndex, CheckTable, RemoveTable, clientVars, listVars, fileVars
  <2>2. QED
    BY <1>3, <2>1, HomeCheckList
<1>7. ASSUME NEW l \in Lists, ListExpires(l)
      PROVE  HomeInv'
  BY <1>3, <1>7 DEF ListExpires, clientVars, fileVars
<1>8. ASSUME NEW f \in Fields, IndexExpires(f)
      PROVE  HomeInv'
  BY <1>3, <1>8 DEF IndexExpires, clientVars, listVars, fileVars
<1>9. CASE UNCHANGED vars
  BY <1>3, <1>9 DEF vars, clientVars, listVars, fileVars
<1>10. QED
  BY <1>2, <1>5, <1>6, <1>7, <1>8, <1>9, HomeInsert DEF Next

-----------------------------------------------------------------------------
(* stations *)

\* What PointPipeline allows one point to do in a step.
Advances(p) ==
  \/ StationOf(p)' = StationOf(p)
  \/ /\ <<StationOf(p), StationOf(p)'>> \in Pipeline!Route
     /\ StationOf(p)' = "shadowed" =>
          \E q \in Points : StationOf(q) = "memory" /\ Pipeline!SameSlot(p, q)
     /\ StationOf(p)' = "lost" =>
          /\ \E q \in Points : StationOf(q) = "block" /\ StationOf(q)' = "file"
          /\ \E q \in Points : StationOf(q) = "file"

\* The facts a station is made of, and how they exclude each other.
LEMMA Stations ==
  ASSUME TypeOK, PlaceInv, EntryInv, NEW p \in Points
  PROVE  /\ p \in unsent => ~Queued(p)
         /\ p \in unsent \/ Queued(p) => ~Stored(p)
         /\ p \in indexed \cup AllPending \cup overwritten <=> p \in on_disk
         /\ p \in overwritten => p \notin indexed /\ p \notin AllPending
         /\ p \in AllPending => p \notin indexed
         /\ p \in InDeque => p \notin on_disk
BY DEF PlaceInv, PutOnce, PointInOnePlace, EntryInv, EntryForEveryBlock, TypeOK

\* A step that changes none of the facts leaves the point at its station.
LEMMA StationFrame ==
  ASSUME NEW p \in Points,
         p \in unsent' <=> p \in unsent,
         Queued(p)' <=> Queued(p),
         p \in indexed' <=> p \in indexed,
         p \in overwritten' <=> p \in overwritten,
         p \in on_disk' <=> p \in on_disk,
         p \in InDeque' <=> p \in InDeque,
         p \in m_sl'[ListOf[p]] <=> p \in m_sl[ListOf[p]]
  PROVE  Advances(p)
BY DEF Advances, StationOf

\* client to queue
LEMMA StationInsert ==
  ASSUME TypeOK, PlaceInv, NEW p \in Points, Insert(p), NEW q \in Points
  PROVE  Advances(q)
<1> DEFINE n == Len(jobs)
<1>1. [list |-> ListOf[p], point |-> p] \in Jobs
  BY PathAssumption DEF Jobs
<1>2. /\ n \in Nat /\ Len(jobs') = n + 1
      /\ \A i \in 1..n : jobs'[i] = jobs[i]
      /\ jobs'[n + 1].point = p
  BY <1>1, QueuePositions DEF Insert, TypeOK
<1>3. /\ p \in unsent /\ unsent' = unsent \ {p}
      /\ UNCHANGED <<at, job, m_sl, m_data_deque, on_disk, indexed, overwritten>>
  BY DEF Insert, listVars, fileVars
<1>4. 1..(n + 1) = (1..n) \cup {n + 1}
  BY <1>2
<1> HIDE DEF n
<1>5. \A w \in Workers : Carries(w, q)' <=> Carries(w, q)
  BY <1>3 DEF Carries
<1>6. Queued(q)' <=> Queued(q) \/ q = p
  BY <1>2, <1>4, <1>5 DEF Queued, n
<1>7. InDeque' = InDeque
  BY <1>3 DEF InDeque, PointsOf
<1>8. CASE q # p
  BY <1>3, <1>6, <1>7, <1>8, StationFrame
<1>9. CASE q = p
  <2>1. q \in unsent /\ q \notin unsent' /\ Queued(q)'
    BY <1>3, <1>6, <1>9
  <2>2. StationOf(q) = "client" /\ StationOf(q)' = "queue"
    BY <2>1 DEF StationOf
  <2>3. QED
    BY <2>2 DEF Advances, Pipeline!Route
<1>10. QED
  BY <1>8, <1>9

LEMMA StationTake ==
  ASSUME TypeOK, NEW w \in Workers, Take(w), NEW q \in Points
  PROVE  Advances(q)
<1> DEFINE n == Len(jobs)
<1>1. /\ n \in Nat /\ n >= 1 /\ Len(jobs') = n - 1
      /\ \A i \in 1..(n - 1) : jobs'[i] = jobs[i + 1]
      /\ job'[w] = jobs[1]
  BY QueuePositions DEF Take, TypeOK
<1>2. /\ at[w] = "idle" /\ at'[w] = "lock"
      /\ \A v \in Workers \ {w} : at'[v] = at[v] /\ job'[v] = job[v]
      /\ UNCHANGED <<unsent, m_sl, m_data_deque, on_disk, indexed, overwritten>>
  BY DEF Take, Goto, TypeOK, listVars, fileVars
<1> HIDE DEF n
<1>3. /\ ~Carries(w, q)
      /\ Carries(w, q)' <=> jobs[1].point = q
      /\ \A v \in Workers \ {w} : Carries(v, q)' <=> Carries(v, q)
  BY <1>1, <1>2 DEF Carries
<1>4. (\E i \in 1..n : jobs[i].point = q)
        <=> jobs[1].point = q \/ \E i \in 1..(n - 1) : jobs'[i].point = q
  <2>1. 1 \in 1..n /\ \A i \in 1..(n - 1) : i + 1 \in 1..n
    BY <1>1
  <2>2. ASSUME NEW i \in 1..n, jobs[i].point = q, i # 1
        PROVE  \E j \in 1..(n - 1) : jobs'[j].point = q
    <3>1. i - 1 \in 1..(n - 1) /\ jobs'[i - 1] = jobs[i]
      BY <1>1, <2>2
    <3>2. QED
      BY <2>2, <3>1
  <2>3. QED
    BY <1>1, <2>1, <2>2
<1>5. Queued(q)' <=> Queued(q)
  BY <1>1, <1>3, <1>4 DEF Queued, n
<1>6. InDeque' = InDeque
  BY <1>2 DEF InDeque, PointsOf
<1>7. QED
  BY <1>2, <1>5, <1>6, StationFrame

\* queue to memory; or left behind, next to the point that has its timestamp
LEMMA StationPut ==
  ASSUME TypeOK, LockInv, PlaceInv, EntryInv, HomeInv, NEW w \in Workers, Put(w),
         NEW q \in Points
  PROVE  Advances(q)
<1> DEFINE l == job[w].list
           p == job[w].point
<1>1. /\ at[w] = "put" /\ l \in Lists
      /\ at'[w] \in {"push", "idle"}
      /\ \A v \in Workers \ {w} : at'[v] = at[v] /\ job'[v] = job[v]
      /\ UNCHANGED <<unsent, jobs, m_data_deque, on_disk, indexed, overwritten>>
      /\ m_sl' = [m_sl EXCEPT ![l] = IF p = NoPoint \/ \E r \in m_sl[l] : TimeOf[r] = TimeOf[p]
                                     THEN m_sl[l] ELSE m_sl[l] \cup {p}]
  BY WorkerHasJob DEF Put, Goto, TypeOK, fileVars
<1>2. q = p => l = ListOf[q]
  BY <1>1, PathAssumption DEF HomeInv, PointsAreHome
<1>3. ~Pushed(l)
  BY <1>1 DEF LockInv, ListLock, InField, Pushed
<1>4. /\ Carries(w, q) <=> q = p
      /\ ~Carries(w, q)'
      /\ \A v \in Workers \ {w} : Carries(v, q)' <=> Carries(v, q)
  BY <1>1 DEF Carries
<1> HIDE DEF l, p
<1>5. InDeque' = InDeque
  BY <1>1 DEF InDeque, PointsOf
<1>6. CASE q # p
  <2>1. Queued(q)' <=> Queued(q)
    BY <1>1, <1>4, <1>6 DEF Queued
  <2>2. q \in m_sl'[ListOf[q]] <=> q \in m_sl[ListOf[q]]
    BY <1>1, <1>6, PathAssumption DEF TypeOK
  <2>3. QED
    BY <1>1, <1>5, <2>1, <2>2, StationFrame
<1>7. CASE q = p
  <2>1. Queued(q) /\ q \notin unsent /\ ~Stored(q)
    BY <1>4, <1>7, Stations DEF Queued
  <2>2. ~Queued(q)'
    <3>1. \A i \in 1..Len(jobs) : jobs[i].point # q
      BY <1>4, <1>7, PathAssumption DEF PlaceInv, PutOnce
    <3>2. \A v \in Workers \ {w} : ~Carries(v, q)
      BY <1>4, <1>7 DEF PlaceInv, PutOnce
    <3>3. QED
      BY <1>1, <1>4, <3>1, <3>2 DEF Queued
  <2>3. /\ q \notin unsent' /\ q \notin indexed' /\ q \notin overwritten'
        /\ q \notin on_disk' /\ q \notin InDeque'
    BY <1>1, <1>5, <2>1, Stations DEF Stored
  <2>4. StationOf(q) = "queue"
    BY <2>1 DEF StationOf
  <2>5. CASE q \in m_sl'[ListOf[q]]
    <3>1. StationOf(q)' = "memory"
      BY <2>2, <2>3, <2>5 DEF StationOf
    <3>2. QED
      BY <2>4, <3>1 DEF Advances, Pipeline!Route
  <2>6. CASE q \notin m_sl'[ListOf[q]]
    <3>1. PICK r \in m_sl[l] : TimeOf[r] = TimeOf[q]
      BY <1>1, <1>2, <1>7, <2>6, PathAssumption DEF TypeOK
    <3>2. r \in Points /\ ListOf[r] = l
      BY <1>1 DEF TypeOK, HomeInv, PointsAreHome
    <3>3. r \notin unsent /\ ~Queued(r)
      BY <1>1, <3>2, Stations DEF Stored
    <3>4. r \notin InDeque /\ r \notin on_disk /\ r \notin indexed /\ r \notin overwritten
      BY <1>1, <1>3, <3>2, Stations DEF PlaceInv, PointInOnePlace, InMemory
    <3>5. StationOf(r) = "memory"
      BY <3>2, <3>3, <3>4 DEF StationOf
    <3>6. Pipeline!SameSlot(q, r)
      BY <1>2, <1>7, <3>1, <3>2 DEF Pipeline!SameSlot
    <3>7. StationOf(q)' = "shadowed"
      BY <2>2, <2>3, <2>6 DEF StationOf
    <3>8. QED
      BY <2>4, <3>2, <3>5, <3>6, <3>7 DEF Advances, Pipeline!Route
  <2>7. QED
    BY <2>5, <2>6
<1>8. QED
  BY <1>6, <1>7

\* memory to block
LEMMA StationPush ==
  ASSUME TypeOK, LockInv, PlaceInv, EntryInv, HomeInv, NEW w \in Workers, Push(w),
         NEW q \in Points
  PROVE  Advances(q)
<1> DEFINE l == job[w].list
<1>1. /\ at[w] = "push" /\ at'[w] = "notifyTable" /\ l \in Lists
      /\ \A v \in Workers \ {w} : at'[v] = at[v]
      /\ UNCHANGED <<unsent, jobs, job, m_sl, on_disk, indexed, overwritten>>
  BY WorkerHasJob DEF Push, Goto, TypeOK, listVars, fileVars
<1>2. InDeque' = InDeque \cup m_sl[l]
  BY HomePush
<1>3. ~Pushed(l)
  BY <1>1 DEF LockInv, ListLock, InField, Pushed
<1>4. Queued(q)' <=> Queued(q)
  BY <1>1 DEF Queued, Carries
<1> HIDE DEF l
<1>5. CASE q \notin m_sl[l]
  BY <1>1, <1>2, <1>4, <1>5, StationFrame
<1>6. CASE q \in m_sl[l]
  <2>1. /\ q \notin unsent /\ ~Queued(q)
    BY <1>1, <1>6, Stations DEF Stored
  <2>2. q \notin InDeque /\ q \notin on_disk /\ q \notin indexed /\ q \notin overwritten
    BY <1>1, <1>3, <1>6, Stations DEF PlaceInv, PointInOnePlace, InMemory
  <2>3. ListOf[q] = l
    BY <1>1, <1>6 DEF HomeInv, PointsAreHome
  <2>4. StationOf(q) = "memory"
    BY <1>6, <2>1, <2>2, <2>3 DEF StationOf
  <2>5. /\ q \notin unsent' /\ ~Queued(q)' /\ q \notin indexed' /\ q \notin overwritten'
        /\ q \notin on_disk' /\ q \in InDeque'
    BY <1>1, <1>2, <1>4, <1>6, <2>1, <2>2
  <2>6. StationOf(q)' = "block"
    BY <2>5 DEF StationOf
  <2>7. QED
    BY <2>4, <2>6 DEF Advances, Pipeline!Route
<1>7. QED
  BY <1>5, <1>6

\* The list that is cleared holds only points that have gone on.
LEMMA StationClear ==
  ASSUME TypeOK, HomeInv, NEW w \in Workers, Clear(w), NEW q \in Points
  PROVE  Advances(q)
<1> DEFINE l == job[w].list
<1>1. /\ at[w] = "clear" /\ at'[w] = "unregister" /\ l \in Lists
      /\ \A v \in Workers \ {w} : at'[v] = at[v]
      /\ \A k \in Lists \ {l} : m_sl'[k] = m_sl[k]
      /\ UNCHANGED <<unsent, jobs, job, m_data_deque, on_disk, indexed, overwritten>>
  BY WorkerHasJob DEF Clear, Goto, TypeOK, fileVars
<1>2. InDeque' = InDeque
  BY <1>1 DEF InDeque, PointsOf
<1>3. Queued(q)' <=> Queued(q)
  BY <1>1 DEF Queued, Carries
<1>4. m_sl[l] \subseteq InDeque \cup on_disk
  BY <1>1 DEF HomeInv, PushedIsSafe, Pushed
<1> HIDE DEF l
<1>5. CASE ListOf[q] # l
  BY <1>1, <1>2, <1>3, <1>5, PathAssumption, StationFrame
<1>6. CASE q \in InDeque \/ q \in on_disk
  <2>1. StationOf(q)' = StationOf(q)
    BY <1>1, <1>2, <1>3, <1>6 DEF StationOf
  <2>2. QED
    BY <2>1 DEF Advances
<1>7. CASE ListOf[q] = l /\ q \notin m_sl[l]
  BY <1>1, <1>2, <1>3, <1>7, StationFrame DEF Clear, TypeOK, l
<1>8. QED
  BY <1>4, <1>5, <1>6, <1>7

\* A point whose entry is in memory is at the station "file".
LEMMA PendingStation ==
  ASSUME TypeOK, PlaceInv, EntryInv, NEW q \in AllPending
  PROVE  q \in Points /\ StationOf(q) = "file"
<1>1. q \in Points
  BY DEF AllPending, Pending, TypeOK
<1>2. q \in on_disk /\ q \notin indexed /\ q \notin overwritten
  BY <1>1, Stations
<1>3. q \notin unsent /\ ~Queued(q)
  BY <1>1, <1>2, Stations DEF Stored
<1>4. QED
  BY <1>1, <1>2, <1>3 DEF StationOf

\* file to indexed
LEMMA StationWriteIndex ==
  ASSUME TypeOK, PlaceInv, EntryInv, WriteIndex, NEW q \in Points
  PROVE  Advances(q)
<1>1. /\ UNCHANGED <<unsent, jobs, at, job, m_sl, m_data_deque, on_disk, overwritten>>
      /\ indexed \subseteq indexed' /\ indexed' \subseteq indexed \cup AllPending
  <2>1. Head(m_index_task_queue) \in Fields
    BY QueueTypes DEF WriteIndex, TypeOK
  <2>2. QED
    BY <2>1 DEF WriteIndex, clientVars, listVars, AllPending
<1>2. InDeque' = InDeque /\ (Queued(q)' <=> Queued(q))
  BY <1>1 DEF InDeque, PointsOf, Queued, Carries
<1>3. CASE q \in indexed' <=> q \in indexed
  BY <1>1, <1>2, <1>3, StationFrame
<1>4. CASE q \in indexed' /\ q \notin indexed
  <2>1. q \in AllPending
    BY <1>1, <1>4
  <2>2. q \in on_disk /\ q \notin overwritten /\ StationOf(q) = "file"
    BY <2>1, Stations, PendingStation
  <2>3. q \notin unsent' /\ ~Queued(q)'
    BY <1>1, <1>2, <2>2, Stations DEF Stored
  <2>4. StationOf(q)' = "indexed"
    BY <1>1, <1>4, <2>2, <2>3 DEF StationOf
  <2>5. QED
    BY <2>2, <2>4 DEF Advances, Pipeline!Route
<1>5. QED
  BY <1>1, <1>3, <1>4

\* No block in the deque and none whose entry is in memory is without points: only
\* a list with points in it is cut.
BlocksHavePoints ==
  /\ \A i \in 1..Len(m_data_deque) : m_data_deque[i].points # {}
  /\ \A f \in Fields : {} \notin m_index_map[f]

\* Every step keeps it.
LEMMA BlocksHavePointsStep ==
  ASSUME TypeOK, ListProgress, BlocksHavePoints, [Next]_vars
  PROVE  BlocksHavePoints'
<1> DEFINE n == Len(m_data_deque)
<1>1. CASE UNCHANGED <<m_data_deque, m_index_map>>
  BY <1>1 DEF BlocksHavePoints
<1>2. ASSUME NEW w \in Workers, WorkerStep(w)
      PROVE  BlocksHavePoints'
  <2>1. CASE Push(w)
    <3> DEFINE b == [list |-> job[w].list, points |-> m_sl[job[w].list]]
    <3>1. /\ m_data_deque' = Append(m_data_deque, b) /\ m_index_map' = m_index_map
          /\ at[w] = "push"
      BY <2>1 DEF Push, Goto, indexVars
    <3>2. b \in Blocks /\ b.points # {}
      BY <3>1, WorkerHasJob DEF TypeOK, ListProgress, Blocks
    <3>3. /\ n \in Nat /\ Len(m_data_deque') = n + 1
          /\ m_data_deque'[n + 1] = b
          /\ \A i \in 1..n : m_data_deque'[i] = m_data_deque[i]
      BY <3>1, <3>2, QueuePositions DEF TypeOK
    <3>4. 1..(n + 1) = (1..n) \cup {n + 1}
      BY <3>3
    <3> HIDE DEF b
    <3>5. QED
      BY <3>1, <3>2, <3>3, <3>4 DEF BlocksHavePoints
  <2>2. CASE ~Push(w)
    BY <1>1, <1>2, <2>2 DEF WorkerStep, Take, Lock, Register, Put, NotifyTable, NotifyField,
                            Clear, Unregister, indexVars
  <2>3. QED
    BY <2>1, <2>2
<1>3. ASSUME NEW full \in BOOLEAN, WriteBlock(full)
      PROVE  BlocksHavePoints'
  <2>1. /\ n \in Nat /\ n >= 1 /\ Len(m_data_deque') = n - 1
        /\ Head(m_data_deque) = m_data_deque[1]
        /\ \A i \in 1..(n - 1) : m_data_deque'[i] = m_data_deque[i + 1]
    BY <1>3, QueuePositions DEF TypeOK, WriteBlock
  <2>2. 1 \in 1..n /\ \A i \in 1..(n - 1) : i + 1 \in 1..n
    BY <2>1
  <2>3. Head(m_data_deque).points # {}
    BY <2>1, <2>2 DEF BlocksHavePoints
  <2>4. PICK h \in Fields :
          m_index_map' = [(IF full THEN [g \in Fields |-> {}] ELSE m_index_map)
                            EXCEPT ![h] = @ \cup {Head(m_data_deque).points}]
    BY <1>3, FrontBlock DEF WriteBlock
  <2>5. \A g \in Fields :
          m_index_map'[g] \subseteq m_index_map[g] \cup {Head(m_data_deque).points}
    <3>1. CASE full
      BY <2>4, <3>1
    <3>2. CASE ~full
      BY <2>4, <3>2 DEF TypeOK
    <3>3. QED
      BY <3>1, <3>2
  <2>6. \A i \in 1..(n - 1) : m_data_deque'[i].points # {}
    BY <2>1, <2>2 DEF BlocksHavePoints
  <2>7. \A g \in Fields : {} \notin m_index_map'[g]
    BY <2>3, <2>5 DEF BlocksHavePoints
  <2>8. QED
    BY <2>1, <2>6, <2>7 DEF BlocksHavePoints
<1>4. CASE FlushStep
  <2>1. CASE WriteIndex
    <3>1. /\ m_data_deque' = m_data_deque
          /\ \A g \in Fields : m_index_map'[g] \subseteq m_index_map[g]
      BY <2>1 DEF WriteIndex, TypeOK
    <3>2. QED
      BY <3>1 DEF BlocksHavePoints
  <2>2. \/ WriteIndex
        \/ \E full \in BOOLEAN : WriteBlock(full)
        \/ UNCHANGED <<m_data_deque, m_index_map>>
    BY <1>4 DEF FlushStep, StartFlush, NoTask, StaleTask, EndFlush, RegisterIndex, Account,
                indexVars
  <2>3. QED
    BY <1>1, <1>3, <2>1, <2>2
<1>5. CASE MonitorStep
  BY <1>1, <1>5 DEF MonitorStep, ScanLists, RemoveList, ScanIndexes, QueueIndex, RemoveIndex,
                    CheckTable, RemoveTable, CheckList, CheckIndex, indexVars
<1>6. ASSUME NEW p \in Points, Insert(p)
      PROVE  BlocksHavePoints'
  BY <1>1, <1>6 DEF Insert, indexVars
<1>7. ASSUME NEW l \in Lists, ListExpires(l)
      PROVE  BlocksHavePoints'
  BY <1>1, <1>7 DEF ListExpires, indexVars
<1>8. ASSUME NEW f \in Fields, IndexExpires(f)
      PROVE  BlocksHavePoints'
  BY <1>1, <1>8 DEF IndexExpires
<1>9. CASE UNCHANGED vars
  BY <1>1, <1>9 DEF vars, indexVars
<1>10. QED
  BY <1>2, <1>4, <1>5, <1>6, <1>7, <1>8, <1>9 DEF Next

\* block to file for the points of the block
LEMMA StationFrontBlock ==
  ASSUME TypeOK, PlaceInv, EntryInv, EntryInv', NEW full \in BOOLEAN, WriteBlock(full),
         NEW q \in Head(m_data_deque).points
  PROVE  q \in Points /\ StationOf(q) = "block" /\ StationOf(q)' = "file"
<1> DEFINE b == Head(m_data_deque)
<1>1. b.points \subseteq Points /\ InDeque = b.points \cup InDeque'
  BY PointsOfTail, FrontBlock DEF WriteBlock, InDeque, TypeOK
<1>2. /\ on_disk' = on_disk \cup b.points
      /\ UNCHANGED <<unsent, jobs, at, job>>
  BY DEF WriteBlock, clientVars
<1>3. q \in InDeque /\ q \notin on_disk /\ q \notin unsent /\ ~Queued(q)
  BY <1>1, Stations DEF Stored
<1>4. q \notin indexed /\ q \notin overwritten
  BY <1>1, <1>3, Stations
<1>5. StationOf(q) = "block"
  BY <1>3, <1>4 DEF StationOf
<1>6. q \in AllPending'
  <2>1. FieldOf[b.list] \in Fields
    BY FrontBlock DEF WriteBlock
  <2>2. b.points \in m_index_map'[FieldOf[b.list]]
    <3>1. CASE full
      BY <2>1, <3>1 DEF WriteBlock, TypeOK
    <3>2. CASE ~full
      BY <2>1, <3>2 DEF WriteBlock, TypeOK
    <3>3. QED
      BY <3>1, <3>2
  <2>3. QED
    BY <2>1, <2>2 DEF AllPending, Pending
<1>7. q \notin indexed' /\ q \notin overwritten'
  BY <1>6 DEF EntryInv, EntryForEveryBlock
<1>8. q \notin unsent' /\ ~Queued(q)' /\ q \in on_disk'
  BY <1>2, <1>3 DEF Queued, Carries
<1>9. StationOf(q)' = "file"
  BY <1>7, <1>8 DEF StationOf
<1>10. QED
  BY <1>1, <1>5, <1>9

\* block to file for the points of the block; for entries of the file that is left
\* file to indexed, file to lost and indexed to lost
LEMMA StationWriteBlock ==
  ASSUME TypeOK, PlaceInv, EntryInv, EntryInv', BlocksHavePoints,
         NEW full \in BOOLEAN, WriteBlock(full), NEW q \in Points
  PROVE  Advances(q)
<1> DEFINE b == Head(m_data_deque)
<1>1. /\ InDeque = b.points \cup InDeque' /\ on_disk' = on_disk \cup b.points
      /\ b.points \subseteq Points /\ b.points # {}
  <2>1. b = m_data_deque[1] /\ 1 \in 1..Len(m_data_deque)
    BY QueuePositions DEF WriteBlock, TypeOK
  <2>2. InDeque = b.points \cup InDeque'
    BY PointsOfTail DEF WriteBlock, InDeque, TypeOK
  <2>3. QED
    BY <2>1, <2>2, FrontBlock DEF WriteBlock, BlocksHavePoints
<1>2. PICK gone \in SUBSET (indexed \cup AllPending) :
        /\ gone # {} => AllPending # {}
        /\ \/ indexed' = (indexed \cup AllPending) \ gone
           \/ indexed' = indexed /\ gone = {}
        /\ overwritten' = overwritten \cup gone
  <2>1. CASE UNCHANGED <<indexed, overwritten, file_index>>
    <3>1. WITNESS {} \in SUBSET (indexed \cup AllPending)
    <3>2. QED
      BY <2>1
  <2>2. CASE ~UNCHANGED <<indexed, overwritten, file_index>>
    <3>1. PICK s \in Shards : LeaveFile(s)
      BY <2>2, FrontBlock DEF WriteBlock
    <3>2. PICK gone \in SUBSET (indexed \cup AllPending) :
           /\ gone # {} => AllPending # {} \/ \E f \in Fields : {} \in m_index_map[f]
           /\ indexed' = (indexed \cup AllPending) \ gone
           /\ overwritten' = overwritten \cup gone
      BY <3>1, EntriesLeft
    <3>3. QED
      BY <3>2 DEF BlocksHavePoints
  <2>3. QED
    BY <2>1, <2>2
<1>3. UNCHANGED <<unsent, jobs, at, job, m_sl>> /\ (Queued(q)' <=> Queued(q))
  BY DEF WriteBlock, clientVars, listVars, Queued, Carries
<1> HIDE DEF b
<1>4. CASE q \in b.points
  BY <1>4, StationFrontBlock DEF Advances, Pipeline!Route, b
<1>5. CASE q \notin b.points /\ q \in gone
  <2>1. q \in on_disk /\ q \notin overwritten
    BY <1>5, Stations
  <2>2. q \notin unsent /\ ~Queued(q)
    BY <2>1, Stations DEF Stored
  <2>3. StationOf(q) \in {"file", "indexed"}
    BY <2>1, <2>2 DEF StationOf
  <2>4. q \in overwritten' /\ q \notin unsent' /\ ~Queued(q)'
    BY <1>2, <1>3, <1>5, <2>2
  <2>5. StationOf(q)' = "lost"
    BY <2>4 DEF StationOf
  <2>6. \E r \in Points : StationOf(r) = "block" /\ StationOf(r)' = "file"
    BY <1>1, StationFrontBlock DEF b
  <2>7. \E r \in Points : StationOf(r) = "file"
    BY <1>2, <1>5, PendingStation
  <2>8. QED
    BY <2>3, <2>5, <2>6, <2>7 DEF Advances, Pipeline!Route
<1>6. CASE q \notin b.points /\ q \notin gone /\ q \in indexed' /\ q \notin indexed
  <2>1. q \in AllPending
    BY <1>2, <1>6
  <2>2. StationOf(q) = "file" /\ q \in on_disk /\ q \notin overwritten
    BY <2>1, PendingStation, Stations
  <2>3. q \notin unsent' /\ ~Queued(q)' /\ q \notin overwritten'
    BY <1>2, <1>3, <1>6, <2>2, Stations DEF Stored
  <2>4. StationOf(q)' = "indexed"
    BY <1>6, <2>3 DEF StationOf
  <2>5. QED
    BY <2>2, <2>4 DEF Advances, Pipeline!Route
<1>7. CASE q \notin b.points /\ q \notin gone /\ (q \in indexed' <=> q \in indexed)
  BY <1>1, <1>2, <1>3, <1>7, StationFrame
<1>8. QED
  BY <1>2, <1>4, <1>5, <1>6, <1>7

\* A request for no point joins the queue.
LEMMA StationCheckList ==
  ASSUME TypeOK, NEW x \in todo, CheckList(x), NEW q \in Points
  PROVE  Advances(q)
<1> DEFINE n == Len(jobs)
           e == [list |-> x[2], point |-> NoPoint]
<1>1. UNCHANGED <<unsent, at, job, m_sl, m_data_deque, on_disk, indexed, overwritten>>
  BY DEF CheckList, listVars, fileVars
<1>2. InDeque' = InDeque /\ \A w \in Workers : Carries(w, q)' <=> Carries(w, q)
  BY <1>1 DEF InDeque, PointsOf, Carries
<1>3. CASE UNCHANGED jobs
  <2>1. Queued(q)' <=> Queued(q)
    BY <1>2, <1>3 DEF Queued
  <2>2. QED
    BY <1>1, <1>2, <2>1, StationFrame
<1>4. CASE ListIsDue(x[2]) /\ jobs' = Append(jobs, e)
  <2>1. e \in Jobs
    BY <1>4 DEF ListIsDue, Jobs
  <2>2. /\ n \in Nat /\ Len(jobs') = n + 1
        /\ \A i \in 1..n : jobs'[i] = jobs[i]
        /\ jobs'[n + 1].point = NoPoint
    BY <1>4, <2>1, QueuePositions DEF TypeOK
  <2>3. 1..(n + 1) = (1..n) \cup {n + 1}
    BY <2>2
  <2> HIDE DEF n, e
  <2>4. Queued(q)' <=> Queued(q)
    BY <1>2, <2>2, <2>3, PathAssumption DEF Queued, n
  <2>5. QED
    BY <1>1, <1>2, <2>4, StationFrame
<1>5. QED
  BY <1>3, <1>4 DEF CheckList

-----------------------------------------------------------------------------
(* refinement *)

RefineInv == PathInv /\ EntryInv /\ HomeInv /\ BlocksHavePoints

\* Every step of WritePath moves every point along the route, or leaves it.
LEMMA PointsAdvance ==
  ASSUME RefineInv, EntryInv', [Next]_vars, NEW q \in Points
  PROVE  Advances(q)
<1> USE DEF RefineInv, PathInv, LockInv, PlaceInv
<1>1. CASE /\ UNCHANGED <<unsent, m_sl, m_data_deque, on_disk, indexed, overwritten>>
           /\ Queued(q)' <=> Queued(q)
  <2>1. InDeque' = InDeque
    BY <1>1 DEF InDeque, PointsOf
  <2>2. QED
    BY <1>1, <2>1, StationFrame
<1>2. ASSUME NEW w \in Workers,
             Lock(w) \/ Register(w) \/ NotifyTable(w) \/ NotifyField(w) \/ Unregister(w)
      PROVE  Advances(q)
  <2>1. UNCHANGED <<unsent, jobs, m_sl, m_data_deque, on_disk, indexed, overwritten>>
    BY <1>2 DEF Lock, Register, NotifyTable, NotifyField, Unregister, listVars, fileVars
  <2>2. /\ \/ at[w] = "lock" /\ at'[w] \in {"register", "put"} /\ job'[w] = job[w]
           \/ at[w] = "register" /\ at'[w] = "put" /\ job'[w] = job[w]
           \/ at[w] = "notifyTable" /\ at'[w] = "notifyField" /\ job'[w] = job[w]
           \/ at[w] = "notifyField" /\ at'[w] = "clear" /\ job'[w] = job[w]
           \/ at[w] = "unregister" /\ at'[w] = "idle"
        /\ \A v \in Workers \ {w} : at'[v] = at[v] /\ job'[v] = job[v]
    BY <1>2 DEF Lock, Register, NotifyTable, NotifyField, Unregister, Goto, TypeOK
  <2>3. \A v \in Workers : Carries(v, q)' <=> Carries(v, q)
    BY <2>2 DEF Carries
  <2>4. QED
    BY <1>1, <2>1, <2>3 DEF Queued
<1>3. ASSUME NEW w \in Workers, WorkerStep(w)
      PROVE  Advances(q)
  BY <1>2, <1>3, StationTake, StationPut, StationPush, StationClear DEF WorkerStep
<1>4. CASE UNCHANGED <<unsent, jobs, at, job, m_sl, m_data_deque, on_disk, indexed, overwritten>>
  BY <1>1, <1>4 DEF Queued, Carries
<1>5. CASE FlushStep
  <2>1. \/ WriteIndex
        \/ \E full \in BOOLEAN : WriteBlock(full)
        \/ UNCHANGED <<unsent, jobs, at, job, m_sl, m_data_deque, on_disk, indexed, overwritten>>
    BY <1>5 DEF FlushStep, StartFlush, NoTask, StaleTask, EndFlush, RegisterIndex, Account,
                clientVars, listVars, fileVars
  <2>2. QED
    BY <1>4, <2>1, StationWriteIndex, StationWriteBlock
<1>6. CASE MonitorStep
  <2>1. \/ \E x \in todo : CheckList(x)
        \/ UNCHANGED <<unsent, jobs, at, job, m_sl, m_data_deque, on_disk, indexed, overwritten>>
    BY <1>6 DEF MonitorStep, ScanLists, RemoveList, ScanIndexes, CheckIndex, QueueIndex,
                RemoveIndex, CheckTable, RemoveTable, clientVars, listVars, fileVars
  <2>2. QED
    BY <1>4, <2>1, StationCheckList
<1>7. ASSUME NEW l \in Lists, ListExpires(l)
      PROVE  Advances(q)
  BY <1>4, <1>7 DEF ListExpires, clientVars, fileVars
<1>8. ASSUME NEW f \in Fields, IndexExpires(f)
      PROVE  Advances(q)
  BY <1>4, <1>8 DEF IndexExpires, clientVars, listVars, fileVars
<1>9. CASE UNCHANGED vars
  BY <1>4, <1>9 DEF vars, clientVars, listVars, fileVars
<1>10. QED
  BY <1>3, <1>5, <1>6, <1>7, <1>8, <1>9, StationInsert DEF Next

\* From Controller::insert to the index of a file no point is moved back or skips a
\* station; only one whose timestamp its list holds is left behind, and only the entries
\* of a file that is left with entries in memory are lost.
THEOREM PathImplementsPipeline == Spec => RefinesPipeline
<1>1. Init => Pipeline!Init
  <2> SUFFICES ASSUME Init
               PROVE  \A p \in Points : StationOf(p) = "client"
    BY DEF Pipeline!Init
  <2>1. QED
    BY DEF Init, StationOf
<1>2. RefineInv /\ EntryInv' /\ [Next]_vars => Pipeline!Next
  <2> SUFFICES ASSUME RefineInv, EntryInv', [Next]_vars, NEW p \in Points
               PROVE  Advances(p)
    BY DEF Pipeline!Next, Pipeline!Moves, Pipeline!BlockOverEntries, Advances
  <2>1. QED
    BY PointsAdvance
<1>3. Init => EntryInv /\ HomeInv /\ BlocksHavePoints
  <2>1. Init => BlocksHavePoints
    BY DEF Init, BlocksHavePoints
  <2>2. QED
    BY <2>1, EntryInit, HomeInit
<1>4. RefineInv /\ [Next]_vars => EntryInv' /\ HomeInv' /\ BlocksHavePoints'
  BY EntryStep, HomeStep, BlocksHavePointsStep DEF PathInv, LockInv, RefineInv
<1>5. QED
  BY <1>1, <1>2, <1>3, <1>4, PathInvariant, PTL
     DEF Spec, RefinesPipeline, Pipeline!Spec, RefineInv

=============================================================================
