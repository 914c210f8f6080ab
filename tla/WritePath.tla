------------------------------- MODULE WritePath -------------------------------
(***************************************************************************)
(* The way of a point through one table of the TSM engine, from the insert *)
(* queue to a data block on disk with its index entry:                     *)
(*                                                                         *)
(*   client -> producer pool -> skip list -> data deque -> file -> index   *)
(*                                                                         *)
(* Three kinds of threads meet here: the workers of the producer pool      *)
(* (Controller::insert_thread, Field::write), the monitor thread, which    *)
(* polls the registrations kept in FieldState and TableState, and the      *)
(* flush thread (Write::queue_flush_disk; its mutex lets one in at a time).*)
(*                                                                         *)
(* A skip list belongs to one (shard, series, field); FieldOf and ShardOf  *)
(* say which.  Registrations are kept per field, not per list.  Clocks are *)
(* flags: "expired" says that the 3 s (5 s) since the last reset are over. *)
(* Offsets, sizes and the labels of index blocks are FlushDisk's subject,  *)
(* the pools are ThreadPool's.                                             *)
(***************************************************************************)
EXTENDS Naturals, Sequences, FiniteSets

CONSTANTS
  Workers,     \* threads of the producer pool
  Fields,
  Lists,       \* skip lists, one per (shard, series, field)
  FieldOf,     \* the field of each list
  Shards,
  ShardOf,     \* the shard of each list
  Points,      \* the calls of insert
  ListOf,      \* the list each point belongs to
  TimeOf,      \* the timestamp of each point
  BlockLimit,  \* points that make a block full (100 in the code)
  IndexLimit,  \* index entries that make an index block due (10 in the code)
  NoPoint,     \* the empty value a monitor job writes
  NoJob,
  NoField,
  NoShard,     \* the empty shard id
  NoList,      \* nothing registered
  Bare         \* a registration (shard, "") that names no skip list

ASSUME PathAssumption ==
  /\ FieldOf \in [Lists -> Fields]
  /\ ShardOf \in [Lists -> Shards]
  /\ ListOf \in [Points -> Lists]
  /\ BlockLimit \in Nat \ {0}
  /\ IndexLimit \in Nat \ {0}
  /\ NoPoint \notin Points
  /\ NoList \notin Lists /\ Bare \notin Lists /\ NoList # Bare

Jobs == [list : Lists, point : Points \cup {NoPoint}]

ASSUME JobAssumption == NoJob \notin Jobs

Blocks == [list : Lists, points : SUBSET Points]

VARIABLES
  \* client and producer pool
  unsent,       \* points not inserted yet
  jobs,         \* the task queue of the producer pool
  at,           \* where each worker is
  job,          \* what each worker is executing
  \* Field, one entry per skip list
  m_sl,         \* the points in the list
  m_need_reset,
  expired,      \* 3 s have passed since m_sl_last_time
  \* registrations
  skip_state,   \* FieldState::m_skip_list_state_map
  index_state,  \* FieldState::m_index_entry_state_map
  table_state,  \* TableState::m_state_map
  \* Write
  m_data_deque,
  m_index_map,        \* per field, the blocks whose index entry is in memory
  m_shard_id,         \* per field, the shard of the first of these blocks
  index_expired,      \* 5 s have passed since IndexEntryInfo::m_last_time
  m_create_meta,
  m_index_task_queue, \* fields whose index block is due, without duplicates
  \* flush thread
  flush_jobs,   \* disk_write_thread tasks queued in the consumer pool
  flush,        \* where queue_flush_disk is
  in_hand,      \* the field of the block being accounted for
  undefined,    \* get_shard has been asked for a shard it does not have
  \* files
  on_disk,      \* points of the data blocks written
  indexed,      \* points of the index entries written and whole
  overwritten,  \* points of the index entries written over
  file_index,   \* per shard, the index blocks of its current file
  \* monitor thread
  monitor,      \* where monitoring_thread is
  todo,         \* the registrations of the snapshot still to visit
  visiting      \* the field whose callback has just returned true

clientVars == <<unsent, jobs, at, job>>
listVars == <<m_sl, m_need_reset, expired>>
stateVars == <<skip_state, index_state, table_state>>
indexVars == <<m_index_map, m_shard_id, index_expired, m_create_meta,
               m_index_task_queue>>
flushVars == <<flush_jobs, flush, in_hand, undefined>>
fileVars == <<on_disk, indexed, overwritten, file_index>>
monitorVars == <<monitor, todo, visiting>>
vars == <<clientVars, listVars, stateVars, m_data_deque, indexVars, flushVars,
          fileVars, monitorVars>>

Init ==
  /\ unsent = Points
  /\ jobs = <<>>
  /\ at = [w \in Workers |-> "idle"]
  /\ job = [w \in Workers |-> NoJob]
  /\ m_sl = [l \in Lists |-> {}]
  /\ m_need_reset = [l \in Lists |-> TRUE]
  /\ expired = [l \in Lists |-> TRUE]
  /\ skip_state = [f \in Fields |-> NoList]
  /\ index_state = [f \in Fields |-> FALSE]
  /\ table_state = FALSE
  /\ m_data_deque = <<>>
  /\ m_index_map = [f \in Fields |-> {}]
  /\ m_shard_id = [f \in Fields |-> NoShard]
  /\ index_expired = [f \in Fields |-> TRUE]
  /\ m_create_meta = [f \in Fields |-> FALSE]
  /\ m_index_task_queue = <<>>
  /\ flush_jobs = 0
  /\ flush = "idle"
  /\ in_hand = NoField
  /\ undefined = FALSE
  /\ on_disk = {}
  /\ indexed = {}
  /\ overwritten = {}
  /\ file_index = [s \in Shards |-> {}]
  /\ monitor = "lists"
  /\ todo = {}
  /\ visiting = NoField

-----------------------------------------------------------------------------
(* helpers *)

\* Field::should_flush_data
ShouldFlushData(points, late) ==
  \/ Cardinality(points) >= BlockLimit
  \/ late /\ points # {}

\* Write::should_flush_index
ShouldFlushIndex(entries, late) ==
  \/ Cardinality(entries) >= IndexLimit
  \/ late /\ entries # {}

\* FieldState::check_and_register on the skip list map: the first registration
\* of a field wins, whatever list it names.
CheckAndRegister(f, l) ==
  skip_state' = [skip_state EXCEPT ![f] = IF @ = NoList THEN l ELSE @]

\* FieldState::remove_status: by field, whatever list is registered.
RemoveStatus(f) ==
  skip_state' = [skip_state EXCEPT ![f] = NoList]

\* Write::push_task, given the queue
PushTask(queue, f) ==
  IF \E i \in 1..Len(queue) : queue[i] = f THEN queue ELSE Append(queue, f)

\* The points of the entries a field has in memory.
Pending(f) == UNION m_index_map[f]

AllPending == UNION {Pending(f) : f \in Fields}

\* The worker is inside Field::write, past the lock of its list.
InField(w) == at[w] \notin {"idle", "lock"}

Goto(w, from, to) ==
  /\ at[w] = from
  /\ at' = [at EXCEPT ![w] = to]

-----------------------------------------------------------------------------
(* the client and the producer pool *)

\* Controller::insert puts an insert_thread on the producer pool.
Insert(p) ==
  /\ p \in unsent
  /\ unsent' = unsent \ {p}
  /\ jobs' = Append(jobs, [list |-> ListOf[p], point |-> p])
  /\ UNCHANGED <<at, job, listVars, stateVars, m_data_deque, indexVars,
                 flushVars, fileVars, monitorVars>>

Take(w) ==
  /\ jobs # <<>>
  /\ Goto(w, "idle", "lock")
  /\ job' = [job EXCEPT ![w] = Head(jobs)]
  /\ jobs' = Tail(jobs)
  /\ UNCHANGED <<unsent, listVars, stateVars, m_data_deque, indexVars,
                 flushVars, fileVars, monitorVars>>

-----------------------------------------------------------------------------
(* Field::write *)

\* Mutant of Lock: does not take the lock of the list.
Lock_Free(w) ==
  LET l == job[w].list IN
  /\ Goto(w, "lock", IF m_need_reset[l] THEN "register" ELSE "put")
  /\ expired' = [expired EXCEPT ![l] = @ /\ ~m_need_reset[l]]
  /\ UNCHANGED <<unsent, jobs, job, m_sl, m_need_reset, stateVars,
                 m_data_deque, indexVars, flushVars, fileVars, monitorVars>>

\* Mutant of Lock: waits for its own lock.
Lock_Twice(w) ==
  LET l == job[w].list IN
  /\ Goto(w, "lock", IF m_need_reset[l] THEN "register" ELSE "put")
  /\ \A v \in Workers : job[v] # NoJob => job[v].list # l
  /\ expired' = [expired EXCEPT ![l] = @ /\ ~m_need_reset[l]]
  /\ UNCHANGED <<unsent, jobs, job, m_sl, m_need_reset, stateVars,
                 m_data_deque, indexVars, flushVars, fileVars, monitorVars>>

\* Takes the lock of the list; a list that was flushed restarts its clock.
Lock(w) ==
  LET l == job[w].list IN
  /\ Goto(w, "lock", IF m_need_reset[l] THEN "register" ELSE "put")
  /\ \A v \in Workers : InField(v) => job[v].list # l
  /\ expired' = [expired EXCEPT ![l] = @ /\ ~m_need_reset[l]]
  /\ UNCHANGED <<unsent, jobs, job, m_sl, m_need_reset, stateVars,
                 m_data_deque, indexVars, flushVars, fileVars, monitorVars>>

Register(w) ==
  /\ Goto(w, "register", "put")
  /\ CheckAndRegister(FieldOf[job[w].list], job[w].list)
  /\ UNCHANGED <<unsent, jobs, job, listVars, index_state, table_state,
                 m_data_deque, indexVars, flushVars, fileVars, monitorVars>>

\* Mutant of Put: the empty write clears m_need_reset too.
Put_ResetsAlways(w) ==
  LET l == job[w].list
      p == job[w].point
      points == IF p = NoPoint \/ \E q \in m_sl[l] : TimeOf[q] = TimeOf[p]
                THEN m_sl[l]
                ELSE m_sl[l] \cup {p}
      full == ShouldFlushData(points, expired[l])
  IN
  /\ Goto(w, "put", IF full THEN "push" ELSE "idle")
  /\ job' = [job EXCEPT ![w] = IF full THEN @ ELSE NoJob]
  /\ m_sl' = [m_sl EXCEPT ![l] = points]
  /\ m_need_reset' = [m_need_reset EXCEPT ![l] = FALSE]
  /\ UNCHANGED <<unsent, jobs, expired, stateVars, m_data_deque, indexVars,
                 flushVars, fileVars, monitorVars>>

\* Mutant of Put: drops the point whatever its timestamp.
Put_DropsAny(w) ==
  LET l == job[w].list
      p == job[w].point
      points == IF p = NoPoint \/ m_sl[l] # {}
                THEN m_sl[l]
                ELSE m_sl[l] \cup {p}
      full == ShouldFlushData(points, expired[l])
  IN
  /\ Goto(w, "put", IF full THEN "push" ELSE "idle")
  /\ job' = [job EXCEPT ![w] = IF full THEN @ ELSE NoJob]
  /\ m_sl' = [m_sl EXCEPT ![l] = points]
  /\ m_need_reset' = [m_need_reset EXCEPT ![l] = @ /\ p = NoPoint]
  /\ UNCHANGED <<unsent, jobs, expired, stateVars, m_data_deque, indexVars,
                 flushVars, fileVars, monitorVars>>

\* SkipList::put keeps the value already stored under the same timestamp.
Put(w) ==
  LET l == job[w].list
      p == job[w].point
      points == IF p = NoPoint \/ \E q \in m_sl[l] : TimeOf[q] = TimeOf[p]
                THEN m_sl[l]
                ELSE m_sl[l] \cup {p}
      full == ShouldFlushData(points, expired[l])
  IN
  /\ Goto(w, "put", IF full THEN "push" ELSE "idle")
  /\ job' = [job EXCEPT ![w] = IF full THEN @ ELSE NoJob]
  /\ m_sl' = [m_sl EXCEPT ![l] = points]
  /\ m_need_reset' = [m_need_reset EXCEPT ![l] = @ /\ p = NoPoint]
  /\ UNCHANGED <<unsent, jobs, expired, stateVars, m_data_deque, indexVars,
                 flushVars, fileVars, monitorVars>>

Push(w) ==
  LET l == job[w].list IN
  /\ Goto(w, "push", "notifyTable")
  /\ m_data_deque' = Append(m_data_deque, [list |-> l, points |-> m_sl[l]])
  /\ UNCHANGED <<unsent, jobs, job, listVars, stateVars, indexVars, flushVars,
                 fileVars, monitorVars>>

\* Field::notify calls its two observers one after the other: TableState ...
NotifyTable(w) ==
  /\ Goto(w, "notifyTable", "notifyField")
  /\ table_state' = TRUE
  /\ UNCHANGED <<unsent, jobs, job, listVars, skip_state, index_state,
                 m_data_deque, indexVars, flushVars, fileVars, monitorVars>>

\* ... and FieldState, which registers the field with an empty series.
NotifyField(w) ==
  /\ Goto(w, "notifyField", "clear")
  /\ CheckAndRegister(FieldOf[job[w].list], Bare)
  /\ UNCHANGED <<unsent, jobs, job, listVars, index_state, table_state,
                 m_data_deque, indexVars, flushVars, fileVars, monitorVars>>

Clear(w) ==
  /\ Goto(w, "clear", "unregister")
  /\ m_sl' = [m_sl EXCEPT ![job[w].list] = {}]
  /\ UNCHANGED <<unsent, jobs, job, m_need_reset, expired, stateVars,
                 m_data_deque, indexVars, flushVars, fileVars, monitorVars>>

\* The last steps and the release of the list's lock.
Unregister(w) ==
  LET l == job[w].list IN
  /\ Goto(w, "unregister", "idle")
  /\ RemoveStatus(FieldOf[l])
  /\ m_need_reset' = [m_need_reset EXCEPT ![l] = TRUE]
  /\ job' = [job EXCEPT ![w] = NoJob]
  /\ UNCHANGED <<unsent, jobs, m_sl, expired, index_state, table_state,
                 m_data_deque, indexVars, flushVars, fileVars, monitorVars>>

-----------------------------------------------------------------------------
(* Write::queue_flush_disk *)

\* A consumer thread enters with m_flush_disk_mutex.
StartFlush ==
  /\ flush = "idle"
  /\ flush_jobs > 0
  /\ flush_jobs' = flush_jobs - 1
  /\ flush' = "task"
  /\ UNCHANGED <<in_hand, undefined, clientVars, listVars, stateVars,
                 m_data_deque, indexVars, fileVars, monitorVars>>

NoTask ==
  /\ flush = "task"
  /\ m_index_task_queue = <<>>
  /\ flush' = "data"
  /\ UNCHANGED <<flush_jobs, in_hand, undefined, clientVars, listVars,
                 stateVars, m_data_deque, indexVars, fileVars, monitorVars>>

\* Module 1: writes the index block of one field below those of the file.
WriteIndex ==
  /\ flush = "task"
  /\ m_index_task_queue # <<>>
  /\ LET f == Head(m_index_task_queue)
         block == Pending(f)
     IN
     /\ m_index_map[f] # {}
     /\ indexed' = indexed \cup block
     /\ file_index' = [file_index EXCEPT ![m_shard_id[f]] = @ \cup {block}]
     /\ m_index_map' = [m_index_map EXCEPT ![f] = {}]
     /\ m_shard_id' = [m_shard_id EXCEPT ![f] = NoShard]
     /\ index_expired' = [index_expired EXCEPT ![f] = TRUE]
     /\ m_create_meta' = [m_create_meta EXCEPT ![f] = FALSE]
  /\ m_index_task_queue' = Tail(m_index_task_queue)
  /\ flush' = "data"
  /\ UNCHANGED <<flush_jobs, in_hand, undefined, clientVars, listVars,
                 stateVars, m_data_deque, on_disk, overwritten, monitorVars>>

\* Module 1 for a field whose entries are gone: m_index_map[f] is created with
\* an empty shard id, get_shard does not find it and returns nothing.  The
\* loop then leaves (a null shard) or starts over (a shard with an empty
\* deque); a third outcome, the crash, is the behaviour ending here.
StaleTask ==
  /\ flush = "task"
  /\ m_index_task_queue # <<>>
  /\ m_index_map[Head(m_index_task_queue)] = {}
  /\ m_index_task_queue' = Tail(m_index_task_queue)
  /\ undefined' = TRUE
  /\ flush' \in {"idle", "task"}
  /\ UNCHANGED <<flush_jobs, in_hand, clientVars, listVars, stateVars,
                 m_data_deque, m_index_map, m_shard_id, index_expired,
                 m_create_meta, fileVars, monitorVars>>

EndFlush ==
  /\ flush = "data"
  /\ m_data_deque = <<>>
  /\ flush' = "idle"
  /\ UNCHANGED <<flush_jobs, in_hand, undefined, clientVars, listVars,
                 stateVars, m_data_deque, indexVars, fileVars, monitorVars>>

\* The fields that have index entries in memory.
Left == {f \in Fields : m_index_map[f] # {}}

\* The index blocks of the fields in Left, written to the full file of shard s,
\* go over its index blocks in hit and over those of the fields in spoilt.  The
\* first is written at the tail as it is, where the lowest block begins, or the
\* footer if there is none; the footer written after it then goes over its end.
\* A later one goes over an earlier one only if it is longer.
GoesOver(s, hit, spoilt) ==
  /\ hit = {} <=> Left = {} \/ file_index[s] = {}
  /\ Left # {} /\ file_index[s] = {} => spoilt # {}
  /\ \A g \in spoilt :
       \/ hit = file_index[s]
       \/ \E h \in Left : Cardinality(m_index_map[h]) > Cardinality(m_index_map[g])

\* Mutant of LeaveFile: m_index_map is cleared without being written.
LeaveFile_DropsIndex(s) ==
  /\ UNCHANGED <<indexed, overwritten>>
  /\ file_index' = [file_index EXCEPT ![s] = {}]

\* A full file gets the entries of all fields before it is left; some of them
\* and some of those it has do not survive this.
LeaveFile(s) ==
  \E hit \in SUBSET file_index[s], spoilt \in SUBSET Left :
    LET gone == (UNION hit) \cup (UNION {Pending(g) : g \in spoilt}) IN
    /\ GoesOver(s, hit, spoilt)
    /\ indexed' = (indexed \cup AllPending) \ gone
    /\ overwritten' = overwritten \cup gone
    /\ file_index' = [file_index EXCEPT ![s] = {}]

\* Module 2 up to push_index_to_deque: writes one data block.  When the current
\* file has no room left it is left for a new one and m_index_map is cleared;
\* m_create_meta and the tasks stay.
WriteBlock(full) ==
  /\ flush = "data"
  /\ m_data_deque # <<>>
  /\ LET b == Head(m_data_deque)
         f == FieldOf[b.list]
         s == ShardOf[b.list]
         kept == IF full THEN [g \in Fields |-> {}] ELSE m_index_map
     IN
     /\ \/ /\ full
           /\ \E p \in on_disk : ShardOf[ListOf[p]] = s
           /\ LeaveFile(s)
        \/ /\ ~full
           /\ UNCHANGED <<indexed, overwritten, file_index>>
     /\ m_index_map' = [kept EXCEPT ![f] = @ \cup {b.points}]
     /\ m_shard_id' = [g \in Fields |-> IF kept[g] # {} THEN m_shard_id[g]
                                        ELSE IF g = f THEN s ELSE NoShard]
     /\ index_expired' = [g \in Fields |-> kept[g] = {} \/ index_expired[g]]
     /\ on_disk' = on_disk \cup b.points
     /\ in_hand' = f
  /\ m_data_deque' = Tail(m_data_deque)
  /\ flush' = "register"
  /\ UNCHANGED <<flush_jobs, undefined, clientVars, listVars, stateVars,
                 m_create_meta, m_index_task_queue, monitorVars>>

RegisterIndex ==
  /\ flush = "register"
  /\ index_state' = [index_state EXCEPT ![in_hand] = TRUE]
  /\ flush' = "account"
  /\ UNCHANGED <<flush_jobs, in_hand, undefined, clientVars, listVars,
                 skip_state, table_state, m_data_deque, indexVars, fileVars,
                 monitorVars>>

\* Mutant of Account: the loop ends after one block.
Account_OneBlock ==
  LET f == in_hand
      late == m_create_meta[f] /\ index_expired[f]
  IN
  /\ flush = "account"
  /\ m_create_meta' = [m_create_meta EXCEPT ![f] = TRUE]
  /\ index_expired' = [index_expired EXCEPT ![f] = late]
  /\ m_index_task_queue' = IF ShouldFlushIndex(m_index_map[f], late)
                           THEN PushTask(m_index_task_queue, f)
                           ELSE m_index_task_queue
  /\ flush' = "idle"
  /\ UNCHANGED <<flush_jobs, in_hand, undefined, clientVars, listVars,
                 stateVars, m_data_deque, m_index_map, m_shard_id, fileVars,
                 monitorVars>>

\* The end of module 2: the first entry restarts the clock of its field, and a
\* full or late set of entries becomes a task.
Account ==
  LET f == in_hand
      late == m_create_meta[f] /\ index_expired[f]
  IN
  /\ flush = "account"
  /\ m_create_meta' = [m_create_meta EXCEPT ![f] = TRUE]
  /\ index_expired' = [index_expired EXCEPT ![f] = late]
  /\ m_index_task_queue' = IF ShouldFlushIndex(m_index_map[f], late)
                           THEN PushTask(m_index_task_queue, f)
                           ELSE m_index_task_queue
  /\ flush' = "task"
  /\ UNCHANGED <<flush_jobs, in_hand, undefined, clientVars, listVars,
                 stateVars, m_data_deque, m_index_map, m_shard_id, fileVars,
                 monitorVars>>

-----------------------------------------------------------------------------
(* Controller::monitoring_thread *)

\* FieldState::iterate_map(false) copies the registrations ...
ScanLists ==
  /\ monitor = "lists"
  /\ todo' = {<<f, skip_state[f]>> : f \in {g \in Fields : skip_state[g] # NoList}}
  /\ monitor' = "checkList"
  /\ UNCHANGED <<visiting, clientVars, listVars, stateVars, m_data_deque,
                 indexVars, flushVars, fileVars>>

ListIsDue(l) == l \in Lists /\ ShouldFlushData(m_sl[l], expired[l])

\* ... and calls is_ready_disk_write for each: a list that is due gets a job
\* that writes the empty value.  No lock of the list is taken here.
CheckList(x) ==
  /\ monitor = "checkList"
  /\ x \in todo
  /\ todo' = todo \ {x}
  /\ \/ /\ ListIsDue(x[2])
        /\ jobs' = Append(jobs, [list |-> x[2], point |-> NoPoint])
        /\ monitor' = "removeList"
        /\ visiting' = x[1]
     \/ /\ ~ListIsDue(x[2])
        /\ UNCHANGED <<jobs, monitor, visiting>>
  /\ UNCHANGED <<unsent, at, job, listVars, stateVars, m_data_deque,
                 indexVars, flushVars, fileVars>>

RemoveList ==
  /\ monitor = "removeList"
  /\ RemoveStatus(visiting)
  /\ monitor' = "checkList"
  /\ visiting' = NoField
  /\ UNCHANGED <<todo, clientVars, listVars, index_state, table_state,
                 m_data_deque, indexVars, flushVars, fileVars>>

\* FieldState::iterate_map(true)
ScanIndexes ==
  /\ monitor = "checkList"
  /\ todo = {}
  /\ todo' = {<<f, NoList>> : f \in {g \in Fields : index_state[g]}}
  /\ monitor' = "checkIndex"
  /\ UNCHANGED <<visiting, clientVars, listVars, stateVars, m_data_deque,
                 indexVars, flushVars, fileVars>>

\* is_ready_index_write looks at m_index_map without a lock ...
CheckIndex(x) ==
  /\ monitor = "checkIndex"
  /\ x \in todo
  /\ todo' = todo \ {x}
  /\ IF ShouldFlushIndex(m_index_map[x[1]], index_expired[x[1]])
     THEN monitor' = "pushTask" /\ visiting' = x[1]
     ELSE UNCHANGED <<monitor, visiting>>
  /\ UNCHANGED <<clientVars, listVars, stateVars, m_data_deque, indexVars,
                 flushVars, fileVars>>

\* ... and then queues the task and a flush.
QueueIndex ==
  /\ monitor = "pushTask"
  /\ m_index_task_queue' = PushTask(m_index_task_queue, visiting)
  /\ flush_jobs' = flush_jobs + 1
  /\ monitor' = "removeIndex"
  /\ UNCHANGED <<todo, visiting, clientVars, listVars, stateVars, m_data_deque,
                 m_index_map, m_shard_id, index_expired, m_create_meta, flush,
                 in_hand, undefined, fileVars>>

RemoveIndex ==
  /\ monitor = "removeIndex"
  /\ index_state' = [index_state EXCEPT ![visiting] = FALSE]
  /\ monitor' = "checkIndex"
  /\ visiting' = NoField
  /\ UNCHANGED <<todo, clientVars, listVars, skip_state, table_state,
                 m_data_deque, indexVars, flushVars, fileVars>>

\* Mutant of CheckTable: removes the registration without a flush.
CheckTable_NoJob ==
  /\ monitor = "checkIndex"
  /\ todo = {}
  /\ IF table_state
     THEN monitor' = "removeTable" /\ UNCHANGED flush_jobs
     ELSE monitor' = "lists" /\ UNCHANGED flush_jobs
  /\ UNCHANGED <<todo, visiting, clientVars, listVars, stateVars, m_data_deque,
                 indexVars, flush, in_hand, undefined, fileVars>>

\* TableState::iterate_map: the callback disk_write queues a flush and always
\* returns true.
CheckTable ==
  /\ monitor = "checkIndex"
  /\ todo = {}
  /\ IF table_state
     THEN monitor' = "removeTable" /\ flush_jobs' = flush_jobs + 1
     ELSE monitor' = "lists" /\ UNCHANGED flush_jobs
  /\ UNCHANGED <<todo, visiting, clientVars, listVars, stateVars, m_data_deque,
                 indexVars, flush, in_hand, undefined, fileVars>>

RemoveTable ==
  /\ monitor = "removeTable"
  /\ table_state' = FALSE
  /\ monitor' = "lists"
  /\ UNCHANGED <<todo, visiting, clientVars, listVars, skip_state, index_state,
                 m_data_deque, indexVars, flushVars, fileVars>>

-----------------------------------------------------------------------------
(* time *)

ListExpires(l) ==
  /\ ~expired[l]
  /\ expired' = [expired EXCEPT ![l] = TRUE]
  /\ UNCHANGED <<clientVars, m_sl, m_need_reset, stateVars, m_data_deque,
                 indexVars, flushVars, fileVars, monitorVars>>

IndexExpires(f) ==
  /\ ~index_expired[f]
  /\ index_expired' = [index_expired EXCEPT ![f] = TRUE]
  /\ UNCHANGED <<clientVars, listVars, stateVars, m_data_deque, m_index_map,
                 m_shard_id, m_create_meta, m_index_task_queue, flushVars,
                 fileVars, monitorVars>>

-----------------------------------------------------------------------------

WorkerStep(w) ==
  \/ Take(w) \/ Lock(w) \/ Register(w) \/ Put(w) \/ Push(w)
  \/ NotifyTable(w) \/ NotifyField(w) \/ Clear(w) \/ Unregister(w)

FlushStep ==
  \/ StartFlush \/ NoTask \/ WriteIndex \/ StaleTask \/ EndFlush
  \/ \E full \in BOOLEAN : WriteBlock(full)
  \/ RegisterIndex \/ Account

MonitorStep ==
  \/ ScanLists \/ RemoveList \/ ScanIndexes \/ QueueIndex \/ RemoveIndex
  \/ CheckTable \/ RemoveTable
  \/ \E x \in todo : CheckList(x) \/ CheckIndex(x)

Next ==
  \/ \E p \in Points : Insert(p)
  \/ \E w \in Workers : WorkerStep(w)
  \/ FlushStep
  \/ MonitorStep
  \/ \E l \in Lists : ListExpires(l)
  \/ \E f \in Fields : IndexExpires(f)

Spec == Init /\ [][Next]_vars

\* Threads run and time passes; a client need not insert anything.
Fairness ==
  /\ \A w \in Workers : WF_vars(WorkerStep(w))
  /\ WF_vars(FlushStep)
  /\ WF_vars(MonitorStep)
  /\ \A l \in Lists : WF_vars(ListExpires(l))
  /\ \A f \in Fields : WF_vars(IndexExpires(f))

FairSpec == Spec /\ Fairness

-----------------------------------------------------------------------------

\* The type invariant.
TypeOK ==
  /\ unsent \subseteq Points
  /\ jobs \in Seq(Jobs)
  /\ at \in [Workers -> {"idle", "lock", "register", "put", "push",
                         "notifyTable", "notifyField", "clear", "unregister"}]
  /\ job \in [Workers -> Jobs \cup {NoJob}]
  /\ \A w \in Workers : (at[w] = "idle") <=> (job[w] = NoJob)
  /\ m_sl \in [Lists -> SUBSET Points]
  /\ m_need_reset \in [Lists -> BOOLEAN]
  /\ expired \in [Lists -> BOOLEAN]
  /\ skip_state \in [Fields -> Lists \cup {NoList, Bare}]
  /\ index_state \in [Fields -> BOOLEAN]
  /\ table_state \in BOOLEAN
  /\ m_data_deque \in Seq(Blocks)
  /\ m_index_map \in [Fields -> SUBSET SUBSET Points]
  /\ m_shard_id \in [Fields -> Shards \cup {NoShard}]
  /\ index_expired \in [Fields -> BOOLEAN]
  /\ m_create_meta \in [Fields -> BOOLEAN]
  /\ m_index_task_queue \in Seq(Fields)
  /\ flush_jobs \in Nat
  /\ flush \in {"idle", "task", "data", "register", "account"}
  /\ in_hand \in Fields \cup {NoField}
  /\ flush \in {"register", "account"} => in_hand \in Fields
  /\ undefined \in BOOLEAN
  /\ on_disk \subseteq Points
  /\ indexed \subseteq Points
  /\ overwritten \subseteq Points
  /\ file_index \in [Shards -> SUBSET SUBSET Points]
  /\ monitor \in {"lists", "checkList", "removeList", "checkIndex",
                  "pushTask", "removeIndex", "removeTable"}
  /\ todo \subseteq Fields \X (Lists \cup {NoList, Bare})
  /\ visiting \in Fields \cup {NoField}
  /\ monitor \in {"removeList", "pushTask", "removeIndex"} => visiting \in Fields

-----------------------------------------------------------------------------
(* where a point is *)

PointsOf(queue) == UNION {queue[i].points : i \in 1..Len(queue)}

InDeque == PointsOf(m_data_deque)

\* A worker has pushed the block of l and has not cleared the list yet.
Pushed(l) ==
  \E w \in Workers : /\ at[w] \in {"notifyTable", "notifyField", "clear"}
                     /\ job[w].list = l

\* The points that only the skip list holds.
InMemory(l) == IF Pushed(l) THEN {} ELSE m_sl[l]

\* The worker has yet to put p into its list.
Carries(w, p) ==
  at[w] \in {"lock", "register", "put"} /\ job[w].point = p

\* p waits in the task queue, or its worker has not reached put.
Queued(p) ==
  \/ \E i \in 1..Len(jobs) : jobs[i].point = p
  \/ \E w \in Workers : Carries(w, p)

Unlocked(l) == \A w \in Workers : InField(w) => job[w].list # l

-----------------------------------------------------------------------------
(* safety *)

\* A point is in one place at a time: in its skip list, in one block of the
\* deque, or in one data block on disk.  Workers that race on the same list,
\* a block pushed before its list is cleared, and the monitor's empty writes
\* duplicate nothing.
PointInOnePlace ==
  /\ \A l \in Lists : InMemory(l) \cap (InDeque \cup on_disk) = {}
  /\ \A i, j \in 1..Len(m_data_deque) :
       i # j => m_data_deque[i].points \cap m_data_deque[j].points = {}
  /\ InDeque \cap on_disk = {}

\* m_need_reset is set exactly while the list is empty, whenever the list's
\* lock is free: a list with points in it never restarts its clock, an empty
\* one always does before it takes a point.
ResetMeansEmpty ==
  \A l \in Lists : Unlocked(l) => (m_need_reset[l] <=> m_sl[l] = {})

\* Each data block on disk has its index entry in memory, whole on disk, or
\* written over on disk, and never in two of these places, through index tasks,
\* file changes and stale tasks.  What is written over is in a file that has
\* been left: the entries of the current files are whole.
EntryForEveryBlock ==
  /\ on_disk = indexed \cup AllPending \cup overwritten
  /\ indexed \cap AllPending = {}
  /\ overwritten \cap (indexed \cup AllPending) = {}
  /\ \A s \in Shards : UNION file_index[s] \subseteq indexed

\* A block is stranded in the deque, unregistered and with no flush on its way.
Stranded ==
  /\ m_data_deque # <<>>
  /\ ~table_state
  /\ flush = "idle" /\ flush_jobs = 0
  /\ \A w \in Workers : at[w] # "notifyTable"

\* The monitor's late removal is the only step that strands a block, but for a
\* step after which get_shard has had no shard to return: what the flush thread
\* does from then on is left open, so nothing is claimed of it.
OnlyRemovalStrands ==
  [][~Stranded /\ Stranded' => monitor = "removeTable" \/ undefined']_vars

-----------------------------------------------------------------------------
(* what PointInOnePlace and ResetMeansEmpty rest on *)

\* The lock of a skip list: one worker at a time is in Field::write for it.
ListLock ==
  \A v, w \in Workers :
    InField(v) /\ InField(w) /\ job[v].list = job[w].list => v = w

\* What the worker that holds the lock has made of the list so far: only a list
\* with points in it is cut, and it is empty when the worker has cleared it.
ListProgress ==
  \A w \in Workers :
    LET l == job[w].list IN
    /\ at[w] \in {"register", "put"} => (m_need_reset[l] <=> m_sl[l] = {})
    /\ at[w] \in {"push", "notifyTable", "notifyField", "clear"} => m_sl[l] # {}
    /\ at[w] = "unregister" => m_sl[l] = {}

Stored(p) ==
  \/ \E l \in Lists : p \in m_sl[l]
  \/ p \in InDeque
  \/ p \in on_disk

\* A point is put once: until then it is in one place of the pool, and stored
\* nowhere.
PutOnce ==
  /\ \A p \in Points : p \in unsent \/ Queued(p) => ~Stored(p)
  /\ \A p \in unsent : ~Queued(p)
  /\ \A i, j \in 1..Len(jobs) :
       jobs[i].point = jobs[j].point /\ jobs[i].point # NoPoint => i = j
  /\ \A i \in 1..Len(jobs), w \in Workers :
       jobs[i].point # NoPoint => ~Carries(w, jobs[i].point)
  /\ \A v, w \in Workers, p \in Points : Carries(v, p) /\ Carries(w, p) => v = w

ListsAreDisjoint ==
  \A k, l \in Lists : k # l => m_sl[k] \cap m_sl[l] = {}

PathInv ==
  /\ TypeOK
  /\ ListLock /\ ListProgress /\ ResetMeansEmpty
  /\ PutOnce /\ ListsAreDisjoint /\ PointInOnePlace

-----------------------------------------------------------------------------
(* liveness *)

\* An insert handed to the pool is applied: again and again there is none that
\* waits, however the inserts come and whatever the monitor queues.
InsertIsApplied ==
  []<>(\A p \in Points : p \notin unsent => ~Queued(p))

\* A list registered under its own name, outside the monitor's removal, is
\* flushed within the time limit even if nobody writes to it again.
RegisteredListIsFlushed ==
  \A l \in Lists :
    /\ m_sl[l] # {}
    /\ skip_state[FieldOf[l]] = l
    /\ monitor # "removeList"
    ~> m_sl[l] = {}

\* A block that is in the deque while the table is registered, outside the
\* monitor's removal, reaches the disk.
RegisteredBlockIsWritten ==
  \A p \in Points :
    p \in InDeque /\ table_state /\ monitor # "removeTable"
      ~> p \in on_disk \/ undefined

\* The index entries a field has in memory while it is registered, outside the
\* monitor's removal, reach the disk.
RegisteredEntryIsWritten ==
  \A f \in Fields :
    /\ m_index_map[f] # {}
    /\ index_state[f]
    /\ monitor \notin {"pushTask", "removeIndex"}
    ~> m_index_map[f] = {} \/ undefined

\* Whatever is registered, outside the window in which the monitor removes it, is
\* flushed to the next station: lists, blocks and index entries.
RegisteredIsFlushed ==
  RegisteredListIsFlushed /\ RegisteredBlockIsWritten /\ RegisteredEntryIsWritten

-----------------------------------------------------------------------------
(* refinement *)

StationOf(p) ==
  IF p \in unsent THEN "client"
  ELSE IF Queued(p) THEN "queue"
  ELSE IF p \in overwritten THEN "lost"
  ELSE IF p \in indexed THEN "indexed"
  ELSE IF p \in on_disk THEN "file"
  ELSE IF p \in InDeque THEN "block"
  ELSE IF p \in m_sl[ListOf[p]] THEN "memory"
  ELSE "shadowed"

Pipeline == INSTANCE PointPipeline
  WITH station <- [p \in Points |-> StationOf(p)]

\* Every point follows the route of PointPipeline, one station per step.
RefinesPipeline == Pipeline!Spec

===============================================================================
