--------------------------------- MODULE Catalog ---------------------------------
(***************************************************************************)
(* What DTimeDB knows of its databases, tables, fields and shards, in      *)
(* memory and on disk, and the threads that change it:                     *)
(*   - the statement loop: create database, use, show, create table;       *)
(*   - the producers of the tsm engine (Controller::insert_thread);        *)
(*   - its flush threads and the monitor (disk_write_thread and the        *)
(*     metadata of shards, which goes to meta.tsm).                        *)
(* The process may end at any time and be started again; it also ends when *)
(* it uses a null pointer.                                                 *)
(*                                                                         *)
(* The same facts are kept four times: by TableEngineManager               *)
(* (m_tab_eng_map and sys-metadata), by FilePathManager (m_map), by the    *)
(* controller (m_db_mea_map and the sys- file of a table) and by the       *)
(* writers of the tables (m_map and meta.tsm).                             *)
(*                                                                         *)
(* A table is a pair <<database, name>>, its engine is tsm.  A writer has  *)
(* one shard; its data (files, offsets) is a version number.               *)
(***************************************************************************)
EXTENDS Naturals, Sequences, FiniteSets, SequencesExt, Functions

CONSTANTS Databases, Tables, Fields,
          Workers,     \* threads of m_producer_thread_pool
          None,
          Old,         \* tables an earlier run has left on disk
          MaxInserts,  \* bound on the inserts in a behaviour
          MaxRuns,     \* bound on the number of times the process is started
          MaxVersion   \* bound on the versions of a shard

ASSUME CatalogAssumption ==
  /\ \A t \in Tables : t[1] \in Databases
  /\ Old \subseteq Tables /\ IsFiniteSet(Old)
  /\ None \notin Databases /\ None \notin Workers
  /\ MaxInserts \in Nat /\ MaxRuns \in Nat /\ MaxVersion \in Nat \ {0, 1}

VARIABLES
  (* on disk *)
  dirs,          \* databases that have a directory
  lines,         \* database |-> the tables its sys-metadata lists, for the files that exist
  sysfile,       \* table |-> the fields its sys- file records, for the files that exist
  metafile,      \* meta.tsm: a sequence of <<table, version of its shard>>
  (* in memory *)
  running,       \* the process is up
  main,          \* the statement loop: what it is about to do
  m_curr_db,     \* the database in use
  m_tab_eng_map, \* tables TableEngineManager knows
  m_dbs,         \* databases FilePathManager::m_map has an entry for
  m_tables,      \* and its tables
  m_mea_fields,  \* table |-> fields
  m_map,         \* table |-> its slot: [writer, shard], for the tables with a slot
  task,          \* what each producer is doing
  m_meta_mutex,  \* m_table_meta_mutex: the producer that holds it, or None
  owed,          \* tables with a registered data block
  m_is_registered, \* ShardState: a shard has changed
  queued,        \* flush_shard_meta_thread tasks in the pool
  flushing,      \* one is running: it holds m_mutex
  todo,          \* and has these tables left to write
  (* history *)
  inserts, runs,
  cleared,       \* tables whose sys- file was cleared
  raced,         \* <<table, field>> that two producers added at the same time
  dropped,       \* tables that had a slot, or a shard on disk, when the entry of their
                 \* database was replaced by one without them
  torn,          \* the process ended while meta.tsm was rewritten
  recorded,      \* tables whose shard was in meta.tsm when a flush ended
  misused        \* tables whose null or dangling writer was used

disk == <<dirs, lines, sysfile, metafile>>
plan == <<main, m_curr_db, m_tab_eng_map, m_dbs, m_tables>>
meta == <<m_is_registered, queued, flushing, todo>>
memory == <<plan, m_mea_fields, m_map, task, m_meta_mutex, owed, meta>>
history == <<inserts, runs, cleared, raced, dropped, torn, recorded, misused>>
vars == <<disk, running, memory, history>>

TablesOf(db) == {t \in Tables : t[1] = db}
Idle == [op |-> "idle"]
NoTask == [pc |-> "idle"]
Known(db) == TablesOf(db) \cap m_tab_eng_map # {}
FileFields(t) == IF t \in DOMAIN sysfile THEN ToSet(sysfile[t]) ELSE {}

Put(f, x, y) == [z \in DOMAIN f \cup {x} |-> IF z = x THEN y ELSE f[z]]

\* The process ends, and with it what is in memory.
Ended ==
  /\ running' = FALSE
  /\ main' = Idle
  /\ m_curr_db' = None
  /\ m_tab_eng_map' = {} /\ m_dbs' = {} /\ m_tables' = {}
  /\ m_mea_fields' = <<>> /\ m_map' = <<>>
  /\ task' = [w \in Workers |-> NoTask]
  /\ m_meta_mutex' = None
  /\ owed' = {}
  /\ m_is_registered' = FALSE /\ queued' = 0
  /\ flushing' = FALSE /\ todo' = {}
  /\ torn' = (torn \/ flushing)
  /\ UNCHANGED <<inserts, runs, cleared, raced, dropped, recorded>>

\* It used a pointer it should not have.
Dies == Ended /\ UNCHANGED misused
DiesOfWriter(t) == Ended /\ misused' = misused \cup {t}

-----------------------------------------------------------------------------
(* the shard metadata in meta.tsm *)

\* load_meta_file: a table that has no writer yet gets an entry of its own for its
\* whole database, so of each database the last table remains.
LastTables(file) ==
  {i \in DOMAIN file : \A j \in DOMAIN file : j > i => file[j][1][1] # file[i][1][1]}

Loaded(file) ==
  [t \in {file[i][1] : i \in LastTables(file)} |->
     [writer |-> TRUE, shard |-> (CHOOSE i \in LastTables(file) : file[i][1] = t)]]

LoadMetaFile == [t \in DOMAIN Loaded(metafile) |->
                   [writer |-> TRUE, shard |-> metafile[Loaded(metafile)[t].shard][2]]]

\* An earlier run has left tables, with or without their files, or nothing.
Init ==
  /\ \E old \in {{}, Old} :
       /\ dirs = {t[1] : t \in old}
       /\ lines = [db \in dirs |-> SetToSeq(old \cap TablesOf(db))]
       /\ sysfile \in UNION {[S -> {<<>>}] : S \in SUBSET old}
  /\ metafile = <<>>
  /\ running = TRUE
  /\ main = Idle
  /\ m_curr_db = None
  /\ m_tab_eng_map = {} /\ m_dbs = {} /\ m_tables = {}
  /\ m_mea_fields = <<>> /\ m_map = <<>>
  /\ task = [w \in Workers |-> NoTask]
  /\ m_meta_mutex = None
  /\ owed = {}
  /\ m_is_registered = FALSE /\ queued = 0
  /\ flushing = FALSE /\ todo = {}
  /\ inserts = 0 /\ runs = 1
  /\ cleared = {} /\ raced = {} /\ dropped = {} /\ recorded = {} /\ misused = {}
  /\ torn = FALSE

Crash == running /\ Dies /\ UNCHANGED disk

Restart ==
  /\ ~running
  /\ runs < MaxRuns
  /\ running' = TRUE
  /\ runs' = runs + 1
  /\ m_map' = LoadMetaFile
  /\ dropped' = dropped \cup {metafile[i][1] : i \in DOMAIN metafile \ LastTables(metafile)}
  /\ UNCHANGED <<disk, plan, m_mea_fields, task, m_meta_mutex, owed, meta,
                 inserts, cleared, raced, torn, recorded, misused>>

-----------------------------------------------------------------------------
(* statements *)

Ready == running /\ main = Idle

\* create database: the directory, then sys-metadata.
CreateDatabase(db) ==
  /\ Ready
  /\ db \notin dirs
  /\ dirs' = dirs \cup {db}
  /\ main' = [op |-> "database", db |-> db]
  /\ UNCHANGED <<lines, sysfile, metafile, running, m_curr_db, m_tab_eng_map, m_dbs, m_tables,
                 m_mea_fields, m_map, task, m_meta_mutex, owed, meta, history>>

CreateDatabaseFile ==
  /\ running
  /\ main.op = "database"
  /\ lines' = Put(lines, main.db, <<>>)
  /\ main' = Idle
  /\ UNCHANGED <<dirs, sysfile, metafile, running, m_curr_db, m_tab_eng_map, m_dbs, m_tables,
                 m_mea_fields, m_map, task, m_meta_mutex, owed, meta, history>>

\* load_database_metadata of a database that is not in the map; its file must exist.
LoadDatabaseMetadata(db) ==
  m_tab_eng_map' = IF Known(db) THEN m_tab_eng_map ELSE m_tab_eng_map \cup ToSet(lines[db])

\* use: the tables of a database that is read for the first time go to the engine.
Use(db) ==
  /\ Ready
  /\ db \in dirs
  /\ Known(db) \/ db \in DOMAIN lines
  /\ LoadDatabaseMetadata(db)
  /\ m_curr_db' = db
  /\ main' = IF Known(db) \/ lines[db] = <<>> THEN Idle ELSE [op |-> "use", db |-> db]
  /\ UNCHANGED <<disk, running, m_dbs, m_tables, m_mea_fields, m_map, task, m_meta_mutex, owed,
                 meta, history>>

\* Without a sys-metadata file the stream is null.  show and select name any database.
ReadMissing(db) ==
  /\ Ready
  /\ ~Known(db)
  /\ db \notin DOMAIN lines
  /\ Dies
  /\ UNCHANGED disk

\* Controller::load_database: first the fields, then FilePathManager::load_database.
LoadDatabase ==
  /\ running
  /\ main.op = "use"
  /\ m_meta_mutex = None
  /\ LET tables == ToSet(lines[main.db])
     IN /\ m_mea_fields' = [t \in DOMAIN m_mea_fields \cup tables |->
                              IF t \in DOMAIN m_mea_fields THEN m_mea_fields[t] ELSE FileFields(t)]
        /\ m_tables' = IF main.db \in m_dbs THEN m_tables ELSE m_tables \cup tables
  /\ m_dbs' = m_dbs \cup {main.db}
  /\ main' = Idle
  /\ UNCHANGED <<disk, running, m_curr_db, m_tab_eng_map, m_map, task, m_meta_mutex, owed,
                 meta, history>>

\* show of a table elsewhere, or a select from there: the engines are not told.
ShowElsewhere(db) ==
  /\ Ready
  /\ Known(db) \/ db \in DOMAIN lines
  /\ LoadDatabaseMetadata(db)
  /\ UNCHANGED <<disk, running, main, m_curr_db, m_dbs, m_tables, m_mea_fields, m_map, task,
                 m_meta_mutex, owed, meta, history>>

\* show table: show_data makes an entry for the database it looks up.
ShowTables ==
  /\ Ready
  /\ m_curr_db # None
  /\ m_dbs' = m_dbs \cup {m_curr_db}
  /\ UNCHANGED <<disk, running, main, m_curr_db, m_tab_eng_map, m_tables, m_mea_fields, m_map,
                 task, m_meta_mutex, owed, meta, history>>

\* Mutant of IsNewTable: the map is not looked at.
IsNewTable_Always(t) == m_curr_db = t[1]

IsNewTable(t) == m_curr_db = t[1] /\ t \notin m_tab_eng_map

\* create table: a line in sys-metadata ...
CreateTable(t) ==
  /\ Ready
  /\ IsNewTable(t)
  /\ lines' = Put(lines, t[1], Append(IF t[1] \in DOMAIN lines THEN lines[t[1]] ELSE <<>>, t))
  /\ m_tab_eng_map' = m_tab_eng_map \cup {t}
  /\ main' = [op |-> "table", table |-> t]
  /\ UNCHANGED <<dirs, sysfile, metafile, running, m_curr_db, m_dbs, m_tables, m_mea_fields,
                 m_map, task, m_meta_mutex, owed, meta, history>>

\* eval_create returns null for a table that exists, or without a database.
CreateTableAgain(t) ==
  /\ Ready
  /\ m_curr_db \in {t[1], None}
  /\ ~IsNewTable(t)
  /\ Dies
  /\ UNCHANGED disk

\* ... then FilePathManager::create_table, if it knows the database.
CreateTableFile ==
  /\ running
  /\ main.op = "table"
  /\ main' = Idle
  /\ LET t == main.table IN
       IF t \in m_tables \/ t[1] \notin m_dbs
       THEN UNCHANGED <<sysfile, m_tables>>
       ELSE /\ sysfile' = Put(sysfile, t, <<>>)
            /\ m_tables' = m_tables \cup {t}
  /\ UNCHANGED <<dirs, lines, metafile, running, m_curr_db, m_tab_eng_map, m_dbs, m_mea_fields,
                 m_map, task, m_meta_mutex, owed, meta, history>>

\* sys_clear_file does not take m_table_meta_mutex; without the file the stream is null.
ClearSystemFile(t) ==
  /\ Ready
  /\ t \in m_tables
  /\ IF t \in DOMAIN sysfile
     THEN /\ sysfile' = [sysfile EXCEPT ![t] = <<>>]
          /\ cleared' = cleared \cup {t}
          /\ UNCHANGED <<running, memory, inserts, runs, raced, dropped, torn, recorded, misused>>
     ELSE Dies /\ UNCHANGED sysfile
  /\ UNCHANGED <<dirs, lines, metafile>>

-----------------------------------------------------------------------------
(* insert_thread *)

\* Between the test for the field and its addition.
Adding(t, f) ==
  {w \in Workers : task[w].pc \in {"record", "store", "add"} /\ task[w].table = t /\ task[w].field = f}

\* Mutant of Replaced: the writer is not put into its slot.
Replaced_Empty(t) ==
  [u \in {v \in DOMAIN m_map : v[1] # t[1]} \cup {t} |->
     IF u = t THEN [writer |-> FALSE, shard |-> 0] ELSE m_map[u]]

\* Database{"", table} replaces the entry of the database: the other slots go, and
\* the references other threads have into them dangle.
Replaced(t) ==
  [u \in {v \in DOMAIN m_map : v[1] # t[1]} \cup {t} |->
     IF u = t THEN [writer |-> TRUE, shard |-> 0] ELSE m_map[u]]

\* Mutant of FieldsLoaded: the fields of a new writer are not read.
FieldsLoaded_None(t) == Put(m_mea_fields, t, {})

FieldsLoaded(t) == Put(m_mea_fields, t, FileFields(t))

\* The section under m_mutex.
Resolve(w, t, f) ==
  /\ running
  /\ task[w] = NoTask
  /\ ~flushing
  /\ inserts < MaxInserts
  /\ inserts' = inserts + 1
  /\ t \in m_tables
  /\ LET new == [pc |-> "check", table |-> t, field |-> f, valid |-> TRUE, seen |-> <<>>] IN
       IF t \in DOMAIN m_map
       THEN /\ task' = [task EXCEPT ![w] = new]
            /\ UNCHANGED <<m_map, m_mea_fields, dropped>>
       ELSE /\ m_meta_mutex = None
            /\ m_map' = Replaced(t)
            /\ m_mea_fields' = FieldsLoaded(t)
            /\ dropped' = dropped \cup (DOMAIN m_map \cap TablesOf(t[1]))
            /\ task' = [v \in Workers |->
                          IF v = w THEN new
                          ELSE IF task[v] # NoTask /\ task[v].table[1] = t[1]
                               THEN [task[v] EXCEPT !.valid = FALSE] ELSE task[v]]
  /\ UNCHANGED <<disk, running, plan, m_meta_mutex, owed, meta,
                 runs, cleared, raced, torn, recorded, misused>>

At(w, pc) == running /\ task[w].pc = pc
Goto(w, pc) == task' = [task EXCEPT ![w].pc = pc]

HasField(t, f) == t \in DOMAIN m_mea_fields /\ f \in m_mea_fields[t]

\* mea_field_exist
CheckField(w) ==
  /\ At(w, "check")
  /\ LET t == task[w].table
         f == task[w].field
     IN IF HasField(t, f)
        THEN Goto(w, "write") /\ UNCHANGED raced
        ELSE /\ Goto(w, "record")
             /\ raced' = IF Adding(t, f) # {} THEN raced \cup {<<t, f>>} ELSE raced
  /\ UNCHANGED <<disk, running, plan, m_mea_fields, m_map, m_meta_mutex, owed, meta,
                 inserts, runs, cleared, dropped, torn, recorded, misused>>

\* insert_field_to_file reads offset and number; without the file the stream is null ...
ReadFields(w) ==
  /\ At(w, "record")
  /\ m_meta_mutex = None
  /\ LET t == task[w].table IN
       IF t \in DOMAIN sysfile
       THEN /\ m_meta_mutex' = w
            /\ task' = [task EXCEPT ![w].pc = "store", ![w].seen = sysfile[t]]
            /\ UNCHANGED <<running, plan, m_mea_fields, m_map, owed, meta, history>>
       ELSE Dies
  /\ UNCHANGED disk

Stored(w) == [sysfile EXCEPT ![task[w].table] = Append(task[w].seen, task[w].field)]

\* ... and writes the record at that offset and the new number.
StoreField(w) ==
  /\ At(w, "store")
  /\ sysfile' = Stored(w)
  /\ m_meta_mutex' = None
  /\ Goto(w, "add")
  /\ UNCHANGED <<dirs, lines, metafile, running, plan, m_mea_fields, m_map, owed, meta, history>>

AddField(w) ==
  /\ At(w, "add")
  /\ LET t == task[w].table
         old == IF t \in DOMAIN m_mea_fields THEN m_mea_fields[t] ELSE {}
     IN m_mea_fields' = Put(m_mea_fields, t, old \cup {task[w].field})
  /\ Goto(w, "write")
  /\ UNCHANGED <<disk, running, plan, m_map, m_meta_mutex, owed, meta, history>>

\* Write::write, through the reference: it makes the shard and registers the data.
WritePoint(w) ==
  /\ At(w, "write")
  /\ task[w].valid
  /\ LET t == task[w].table IN
       IF m_map[t].writer
       THEN /\ m_map' = [m_map EXCEPT ![t].shard = IF @ = 0 THEN 1 ELSE @]
            /\ owed' = owed \cup {t}
            /\ task' = [task EXCEPT ![w] = NoTask]
            /\ UNCHANGED <<running, plan, m_mea_fields, m_meta_mutex, meta, history>>
       ELSE DiesOfWriter(t)
  /\ UNCHANGED disk

\* The reference dangles: the writer is gone, or the process ends.
WriteGone(w) ==
  /\ At(w, "write")
  /\ ~task[w].valid
  /\ \/ /\ task' = [task EXCEPT ![w] = NoTask]
        /\ misused' = misused \cup {task[w].table}
        /\ UNCHANGED <<running, plan, m_mea_fields, m_map, m_meta_mutex, owed, meta,
                       inserts, runs, cleared, raced, dropped, torn, recorded>>
     \/ DiesOfWriter(task[w].table)
  /\ UNCHANGED disk

-----------------------------------------------------------------------------
(* flushes *)

\* disk_write_thread: operator[] makes an empty slot for a table that has none.  The
\* flush itself changes the shard, and shard_notify registers the change.
DiskWrite(t) ==
  /\ running
  /\ t \in owed
  /\ owed' = owed \ {t}
  /\ IF t \in DOMAIN m_map
     THEN /\ UNCHANGED todo
          /\ IF m_map[t].writer
             THEN /\ m_map' = [m_map EXCEPT ![t].shard = IF @ < MaxVersion THEN @ + 1 ELSE 2]
                  /\ m_is_registered' = TRUE
             ELSE UNCHANGED <<m_map, m_is_registered>>
     ELSE /\ m_map' = Put(m_map, t, [writer |-> FALSE, shard |-> 0])
          /\ todo' \in IF flushing THEN {todo, todo \cup {t}} ELSE {todo}
          /\ UNCHANGED m_is_registered
  /\ UNCHANGED <<disk, running, plan, m_mea_fields, task, m_meta_mutex, queued, flushing, history>>

\* Mutant of ShardsDue: the count is reset, the flush is not requested.
ShardsDue_Kept ==
  /\ running
  /\ m_is_registered
  /\ queued = 0
  /\ m_is_registered' = FALSE
  /\ UNCHANGED <<disk, running, plan, m_mea_fields, m_map, task, m_meta_mutex, owed,
                 queued, flushing, todo, history>>

\* ShardState::iterate_map: enough time has passed, or there are enough changes.
ShardsDue ==
  /\ running
  /\ m_is_registered
  /\ queued = 0
  /\ queued' = queued + 1
  /\ m_is_registered' = FALSE
  /\ UNCHANGED <<disk, running, plan, m_mea_fields, m_map, task, m_meta_mutex, owed,
                 flushing, todo, history>>

\* flush_shard_meta_thread takes m_mutex and truncates the file ...
BeginMeta ==
  /\ running
  /\ queued > 0
  /\ ~flushing
  /\ queued' = queued - 1
  /\ flushing' = TRUE
  /\ todo' = DOMAIN m_map
  /\ metafile' = <<>>
  /\ UNCHANGED <<dirs, lines, sysfile, running, plan, m_mea_fields, m_map, task, m_meta_mutex,
                 owed, m_is_registered, history>>

Record(t) == IF m_map[t].shard = 0 THEN metafile ELSE Append(metafile, <<t, m_map[t].shard>>)

\* ... writes the shards of each table, in the order of their names ...
RecordShards(t) ==
  /\ running
  /\ t \in todo
  /\ IF m_map[t].writer
     THEN /\ metafile' = Record(t)
          /\ todo' = todo \ {t}
          /\ UNCHANGED <<running, plan, m_mea_fields, m_map, task, m_meta_mutex, owed,
                         m_is_registered, queued, flushing, history>>
     ELSE DiesOfWriter(t) /\ UNCHANGED metafile
  /\ UNCHANGED <<dirs, lines, sysfile>>

\* ... and closes it.
EndMeta ==
  /\ running
  /\ flushing
  /\ todo = {}
  /\ flushing' = FALSE
  /\ recorded' = recorded \cup {metafile[i][1] : i \in DOMAIN metafile}
  /\ UNCHANGED <<disk, running, plan, m_mea_fields, m_map, task, m_meta_mutex, owed,
                 m_is_registered, queued, todo, inserts, runs, cleared, raced, dropped, torn,
                 misused>>

-----------------------------------------------------------------------------

Statement ==
  \/ \E db \in Databases : CreateDatabase(db) \/ Use(db) \/ ReadMissing(db) \/ ShowElsewhere(db)
  \/ \E t \in Tables : CreateTable(t) \/ CreateTableAgain(t) \/ ClearSystemFile(t)
  \/ CreateDatabaseFile \/ LoadDatabase \/ ShowTables \/ CreateTableFile

InsertStep ==
  \E w \in Workers :
    \/ \E t \in Tables, f \in Fields : Resolve(w, t, f)
    \/ CheckField(w) \/ ReadFields(w) \/ StoreField(w) \/ AddField(w)
    \/ WritePoint(w) \/ WriteGone(w)

FlushStep == ShardsDue \/ BeginMeta \/ EndMeta \/ \E t \in Tables : DiskWrite(t) \/ RecordShards(t)

Next == Statement \/ InsertStep \/ FlushStep \/ Crash \/ Restart

Spec == Init /\ [][Next]_vars

-----------------------------------------------------------------------------

\* sys-metadata lists no table twice, and what TableEngineManager has in memory of a
\* database is what its file lists: in spite of crashes, and of statements that read
\* the metadata in different orders.
MapAgreesWithFile ==
  /\ \A db \in DOMAIN lines : IsInjective(lines[db])
  /\ \A db \in Databases : Known(db) => m_tab_eng_map \cap TablesOf(db) = ToSet(lines[db])

\* A field that memory has, so that nobody will record it again, is recorded on disk;
\* only clearing the sys- file breaks that.
FieldInMemoryIsOnDisk ==
  \A t \in DOMAIN m_mea_fields : t \in cleared \/ m_mea_fields[t] \subseteq FileFields(t)

\* What memory has of tables and fields is what their files have.
MemoryAgreesWithFiles == MapAgreesWithFile /\ FieldInMemoryIsOnDisk

\* A field is recorded twice only if two producers met between the test for it and its
\* addition: neither a new writer nor a restart makes the engine forget one.
DuplicateOnlyByRace ==
  \A t \in DOMAIN sysfile : t \in cleared
    \/ \A i, j \in DOMAIN sysfile[t] :
         i # j /\ sysfile[t][i] = sysfile[t][j] => <<t, sysfile[t][i]>> \in raced

\* When no change is registered and no flush of the metadata is queued or running,
\* meta.tsm has the last version of every shard that a flush has changed.
MetaFileIsCurrent ==
  running /\ ~m_is_registered /\ queued = 0 /\ ~flushing
    => \A t \in DOMAIN m_map : m_map[t].shard > 1
         => \E i \in DOMAIN metafile : metafile[i] = <<t, m_map[t].shard>>

\* A shard that has once been recorded is still in meta.tsm or in memory, unless the
\* process ended during a rewrite of the file or its table lost its slot when the entry
\* of the database was replaced.
RecordedShardSurvives ==
  \A t \in recorded :
    \/ torn
    \/ t \in dropped
    \/ \E i \in DOMAIN metafile : metafile[i][1] = t
    \/ t \in DOMAIN m_map /\ m_map[t].shard > 0

\* The metadata of the shards reaches meta.tsm, and what has reached it stays.
ShardsArePersistent == MetaFileIsCurrent /\ RecordedShardSurvives

\* A null or dangling writer is only ever that of a table that lost its slot: while
\* inserts go to one table of each database no thread uses one.
MisusedOnlyAfterDrop == misused \subseteq dropped

=============================================================================
