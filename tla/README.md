# DTimeDB in TLA+

DTimeDB is a small time-series database in C++: a SQL front end, a TSM storage
engine with background threads, and a reactor TCP server.  This directory holds
TLA+ models of it, TLC configurations that check them on small instances, and
TLAPS proofs of the results that hold for every instance.  Line numbers refer to
the sources of this repository; `PROJECT.json` maps each definition to the lines
it models and lists the hazards of the code line by line.

## 1. Inventory

| component | state | operations | what is hard | what makes it correct |
|---|---|---|---|---|
| insert and flush path (`engine/tsm/controller`, `field`, `write`, `field_state.h`, `table_state.h`) | skip list per (shard, series, field), registrations per field and per table, data deque, index entries per field, index task queue | insert, the empty write, cutting a block, flush loop, the three scans of the monitor | three kinds of threads; registrations removed after a callback; unlocked reads | a point is in one place; nothing inserted is lost on its way to the disk; what is registered is flushed |
| engine thread pool (`thread_manager/thread_pool.h`) | task queue, `m_stop`, threads | enqueue, worker loop, destructor | notification outside the lock, shutdown with tasks queued | every accepted task runs once; the destructor returns and drains |
| TSM file layout (`write.cpp`, `tsm.cpp`) | margin, head and tail offset per shard, blocks in the file | write a data block, write an index block, change files | reserved room against actual sizes, shards that share index entries | regions of the first file do not overlap; each block gets one entry, whole while its file is in use; the index can be read |
| shard metadata (`shard_state.h`, `controller.cpp`) | changes registered, `meta.tsm` | register a change, flush, reload | truncate and rewrite, crash, changes during a flush | a restart finds every shard that was flushed |
| table and field metadata (`file_path_manager`, `table_engine_map`, `controller.cpp`) | maps of databases, tables, fields and writers; sys-metadata and sys- files | create, use, show, load, first insert | four copies of one fact; check-then-act; replaced map entries | memory follows the files; a field is recorded once; a table keeps its writer |
| file stream cache (`file_io_manager`) | path to stream, usage order; one for queries, one for the front end | get, release, close, evict | two users of one path, eviction of a stream in use, a mutex locked twice | a stream has one user; below the limit requests are answered |
| skip list (`skip_list.h`) | levels of linked nodes, a static entry | put, get, del, cle, iterate | iterators without a lock | it is an ordered map; an iteration sees what stays |
| query iterators and series index (`iterator.cpp`, `index.cpp`, `itsm.h`) | condition tree, positions in shards, files, blocks; series per tag | build, has_next, next, print, look up tags | files that change meanwhile, shared rows, a mutex held while loading | rows were stored and pass the condition; the answer is complete; queries end |
| event loop, timers (`server/src/event_loop.cpp`, `timer_queue.cpp`) | watched descriptors, timer heap, timerfd | add, delete, dispatch, fire | what epoll watches against what the loop believes | timers are in heap and position map; a connection with input is served |
| connections, buffers, server threads (`tcp_conn`, `io_buffer`, `tcp_server`, `tcp_client`, `server/src/thread_pool.cpp`) | input and output, connection count, queues | read, send, accept, hand over, connect again | half messages, limits, descriptors running out, retries | messages are delivered whole and in order; a client connects again |
| SQL front end, executor (`lexer`, `parser`, `evaluator`, `execution_plan`, `executor`) | database of the evaluator, database of the plan, the plan, tables read, streams kept | parse, evaluate, build the plan, execute | two states that must agree; statements that replace each other's node; what one statement reads another finds done | what a line means reaches the engine; ordinary lines do not end the process |
| JSON library (`json/`) | memory of nested values | load, copy, move, append, index, remove, clear, print | ownership | values are independent; texts round-trip |
| circular list engine, write-ahead log | | | stubs | not modelled |
| generated protobuf code, mains, configuration file | | | | not modelled, but for the loop of `eval_repl.cpp` |

How they interact.  A line typed at `eval_repl` becomes a plan, and the executor
calls an engine.  `Controller::insert` enqueues `insert_thread` on the producer
pool.  The task makes writer and field if they are missing, writes into a skip
list and, when a block is cut, pushes it to the deque of the table's `Write` and
notifies `TableState` and `FieldState`.  The monitor thread polls these
registrations once a second: it enqueues empty writes for skip lists that are due
on the producer pool, and flushes on the consumer pool.  `queue_flush_disk` drains
the deque and the index tasks into the current file of the block's shard, and
reports every change of a shard to `ShardState`, which the monitor polls as well and
flushes to `meta.tsm`.  A query loads indexes under the controller's mutex, opens
files through a stream cache of its own and gathers rows in a member of the
controller.  The TCP server runs in its own reactor threads and calls no engine.

## 2. Plan

Done: the pool with its abstract ledger; the write path with its abstract
pipeline; the bytes of the files; the catalog of databases, tables, fields and
shards with crash and restart; cache, skip list and JSON library; queries; server,
client and timers; the SQL front end down to the engines; and proofs of every
safety property of the pool, the write path, the layout of files, the catalog, the
stream cache, the skip list, queries, the server, the client and its timers, and of three
refinements; and that what the SQL front end takes for a table has been told to an engine, but for the
cases named.

Left, in the order of what it would add:

1. The composition of `WritePath` with `Catalog`: a writer replaced while its blocks
   are in the deque.  Each side of the border is modelled; the product is too large for TLC.
2. Several shards per table in `Catalog`, values and compression in `Query`.

## 3. Modules

| module | models | role |
|---|---|---|
| `ThreadPool`, `TaskLedger` | `thread_manager/thread_pool.h` | component, and what it promises |
| `WritePath`, `PointPipeline` | insert to index entry | component, and what it promises |
| `FlushDisk` | bytes of the .tsm files | component |
| `Catalog` | databases, tables, fields, shards, on disk and in memory | component, composes `file_path_manager`, `table_engine_map`, `controller`, `shard_state.h` |
| `FileIOManager` | the stream cache | component |
| `SkipList`, `OrderedMap` | `skip_list.h` | component, and what it promises |
| `JsonMemory` | `json/json.cpp`: who owns which memory | component |
| `Json`, `Documents` | `json/`: parser, printer and values; extends `JsonMemory` | component, and what it promises |
| `Library` | cache, list and JSON side by side | composition for TLC |
| `EventLoop`, `TimerQueue` | registrations with epoll; the timer heap | operators, used by the next two |
| `TcpServer`, `TcpClient` | `server/` | components, with their peers |
| `Query` | index, shard filter, iterators, printing | component |
| `Evaluator` | evaluator, plan, executor, the loop of `eval_repl` | component |
| `Statement` | lexer and parser | operators; extends `Evaluator` with what a line becomes |
| `ThreadPoolProofs`, `WritePathProofs`, `FlushDiskProofs`, `CatalogProofs`, `QueryProofs`, `TcpServerProofs`, `TcpClientProofs` | | proofs of the module of that name |
| `LibraryProofs` | | proofs about `FileIOManager`, `SkipList`, `Evaluator` and `JsonMemory` |

A module `XMC` gives `X` its constants for TLC.  Definitions named `A_Why` with a
comment "Mutant of A" are what a plausible bug would make of `A`; nothing else uses
them, they are there to show that a property can fail.

**ThreadPool.**  A critical section of `m_queue_mutex` is one action; `NotifyOne` and
`NotifyAll` are separate because the code notifies after unlocking.  `worker[w]` is the
place in the loop: "lock" (awake, about to take the mutex), "wait", "run",
"returned".  `Wait` blocks only if the predicate of `wait` is false, `SpuriousWakeup` is
always possible, `Return` and `Take` are the two ways out of the critical section.
`accepted`, `refused` and `executed` record what has happened and do not influence
the pool.  **TaskLedger** is what a caller may rely on: a task accepted while the pool is
open runs once, one offered later is refused, and the pool disappears only when
nothing is left to run.  `RefinesLedger` says ThreadPool implements it.

**WritePath** models one table from `Controller::insert` to the index entry on disk.

| variable | code |
|---|---|
| `unsent`, `jobs`, `at`, `job` | calls of insert, the producer pool's queue, where each worker is in `Field::write` |
| `m_sl`, `m_need_reset`, `expired` | `SkipList` of one (shard, series, field), its flag, and whether 3 s have passed since `m_sl_last_time` |
| `skip_state`, `index_state`, `table_state` | the registrations in `FieldState` (two maps) and `TableState` |
| `m_data_deque`, `m_index_map`, `m_shard_id`, `m_create_meta`, `index_expired`, `m_index_task_queue` | members of `Write` and `Field` |
| `flush_jobs`, `flush`, `in_hand` | tasks of the consumer pool and the position in `queue_flush_disk` |
| `undefined` | `get_shard` was asked for a shard it does not have (it has no return statement then) |
| `monitor`, `todo`, `visiting` | the position of `monitoring_thread` and the snapshot it walks |
| `on_disk`, `indexed` | points of the data blocks in files, and of the index entries that are whole |
| `file_index`, `overwritten` | the index blocks of each shard's current file; points whose entries have been written over |

A step is what runs between two points where another thread can interfere: each
lock, each registration, each test made without a lock is an action of its own.
Clocks are flags that a separate action sets.  `WriteBlock(full)` chooses whether
the file has room, because room is the subject of FlushDisk.  A file without room gets the
pending entries of all fields before it is left (`LeaveFile`), the first of their blocks at the
tail as it is, so over the lowest index block or over the footer: which entries do not
survive this depends on sizes, and `GoesOver` bounds the choice.  The skip list is the
set of its points; a second point with a stored timestamp is dropped, as
`SkipList::put` does.  **PointPipeline** is the route of a point: client, queue,
memory, block, file, indexed, or "shadowed" by a point with its timestamp; from file and indexed it may
become "lost", but only in a step that writes a data block while entries of earlier ones are in
memory.  `RefinesPipeline` says that every step of WritePath moves points along that route
only.

**FlushDisk** models the bytes of the files `queue_flush_disk` writes for one table.  A
pass of module 1 (an index task) or of module 2 (a data block) is one action; blocks,
keys and tasks may be pushed between any two.  `shard` holds what the `Shard` record
does: current file, margin, head and tail.  `m_index_map` holds the pending entries of
each field with the shard of the first, `m_create_meta` whether the margin has paid for
the field's next meta, and `timed` whether `m_last_time` is set: after a file change it
is the epoch, so the clock is late at once.  `data` and `index` are the regions written
so far; `files` has length and footer of each file.  `HasRoom` keeps the comparison of a
signed margin with an unsigned sum.  `Residue` is what is written to a full file before
it is left.  `spoilt` holds the index blocks of which a later write has taken bytes: an index
block, a footer, a residue or a data block (`Under`, `FooterOver`, `LostToResidue`).  The margin, head, tail and sizes are the code's own numbers; the sizes of
data blocks and of keys are inputs, as compression is left out.

**Catalog** keeps the same facts where the code keeps them, four times: the maps of
`TableEngineManager` (`m_tab_eng_map`, sys-metadata), of `FilePathManager` (`m_dbs`,
`m_tables`), of the controller (`m_mea_fields`, the sys- file of each table) and the
writers (`m_map`, `meta.tsm`).  Statements of the main thread are split where they touch
the disk and memory in turn (`main`), a producer is at one of the places of
`insert_thread` between two locks (`task`), `m_table_meta_mutex` is who holds it.
`Loaded` is `load_meta_file`, which keeps of each database the last table only;
`Replaced` is `m_map[db] = Database{...}`.  A shard is a version number, raised by
each flush of a block.  `Crash` and `Restart` may come between any two steps, also in the middle
of a rewrite of `meta.tsm`; dying of a null pointer is a crash with a reason.
`raced`, `dropped`, `cleared`, `torn`, `misused` record the events the properties excuse
or count.

**FileIOManager** has one action per critical section, and `m_mutex` as a variable for the
one call that locks it twice: `get_file_stream` evicts under the mutex, and
`close_file_stream` waits for it.  The usage order is a list of nodes with
identities, as the code keeps iterators into it.  A release goes by path: it
marks whatever stream the path has now.

**SkipList** has nodes in memory with their pointers.  put, get, del and cle are atomic under `m_sl_mutex`; an
iterator holds nothing, and `operator*` writes the entry to a static object
(`placeholder`) before its caller copies it.  A search goes along a level and down from the
highest one (`Walk`, `Update`), as recursive functions.  What is in the list are the nodes
behind a pointer of the lowest level (`Chain`): those in every set closed under the
pointers, so that no recursion is needed.  **OrderedMap** is the promise.

**JsonMemory** keeps values in memory cells: a copy allocates at any addresses that are
unused, a move hands an address over, a removal erases.  What a Json owns, `Owned`, is the
least set of cells closed under the addresses in them, so no recursion is needed.  What the
parser makes of a text is a constant, `Loaded`, as an image: cells and the Json that owns them.
**Json** adds the parser and the printer, which work on tokens and are recursive, and asks
that `Loaded` be what its parser makes; `TextsAreValues` compares them with a grammar.
**Documents** is the promise: independent values.

**TcpServer.**  The loop is one thread, so a callback is one action; only `do_accept` is
split, since peers come and go between its calls of accept.  `conn` is a connection with
input, output and the head read last, `sock` the socket with what the peer sends and
has received, `_conn_size` the length of `conns`, which a descriptor may reach although connections
are below their limit (`NoSlot`, the assertion at `tcp_server.cpp:139`), `loop` the registrations (EventLoop keeps what the loop believes and what
epoll watches apart), `queue` what was handed to the reactor threads.  A descriptor is the
least number that is free, so numbers are reused.  The peer sends requests, cut anywhere, and
may hang up at any time.

**TcpClient** composes the client, its EventLoop and its **TimerQueue**, which is the heap,
the position map, `_pioneer` and the timerfd.  `connection_cb` retries by timer;
the application sends messages or uses timers of its own (`use` says which, so that TLC need not
mix them).  A unit sent carries how much of its body `send_data` copied, which is no more than a head's
length (`copied`, `OfCaller`); for a body shorter than that it copies what lies behind the body, and what that is is left out.  `heap_hold` calls itself for the position it has just put in order, so
`HeapHold` is one swap; `crowded` records that a timer has left a heap of more than
four, after which the order of the heap is not certain any more.

**Query.**  `FilterShards` judges each shard by the condition; `BeginLookup` and
`EndLookup` take the tags out of the condition and look the series up; `LoadShard` loads
indexes and opens files under `m_mutex` in the cache of the query; `ReadShard` gathers rows in
the member `m_row_nodes`, which all queries share, and `Answer` prints those that pass the
rest of the condition.  Meanwhile shards and files are created, blocks flushed and series
indexed.  An index block of a file (`Metas`) is labelled with any series written to the field so far,
whatever series its data blocks are of, and lies in the file of the shard of its first entry.  A file
left with entries in memory is `spoilt`: an index loaded from it may have lost blocks, and
the query is `misled`.  A condition is an array of nodes, each after its sides, so what the code computes
by recursion over the tree is a recursive function on the array (`Without`, `Condition`,
`Verdict`).  `torn`, `overlapped` and `misled` name the queries whose reads an unlocked change,
another query or a spoilt file has disturbed: the properties promise nothing of those, so the races
of `m_row_nodes` and of the index of tags are shown only as what they excuse.

**Evaluator, Statement.**  A line is a sequence of words.  In `Statement` the parser is recursive
descent with precedence climbing over positions, and `Visits` lays the trees it makes out in the order in which
`eval` comes to their nodes, operands first.  `Evaluator` takes such programs as a constant, `Parsed`: it visits
the nodes one after another, which changes the evaluator's state and makes one
child of the plan's root; values not yet used wait on a stack, in place of the recursion.  Execution walks the plan.
`m_io_file` is the front end's own stream cache, with the mode of each stream it keeps: at its limit
`GetStream` hangs, as `evict_least_used` locks a mutex its caller holds.  `Directories` are names that pass for
databases because a directory of that name is there.  `unnoticed` names databases whose tables were
read for no plan that is executed, so no engine is told of them.
"looping", "hung" and "crashed" are the ends the code can reach.  A table named in an option of `show` has a name, and
names have no slash but in `/` itself.  `ParserAssumption` says that
`Parsed` is what the parser makes of the lines; TLC evaluates it on the run.

## 4. Checks

| run | instance | shows |
|---|---|---|
| `pool` | 3 workers, 2 callers, 3 tasks, fair | accounting, no lost wake-up, drained join; accepted tasks run, the destructor returns, refinement of TaskLedger |
| `path_race` | 2 workers, 1 list, 2 points, limits 2 | a point is in one place, `m_need_reset` means empty, an entry for every block unless it was written over in a file that was left, only the removal of a table's registration strands a block |
| `path_pipeline` | 1 worker, 3 points, 2 of them with one timestamp, limits 2 and 1 | every step moves the points along PointPipeline, with file changes: no point is lost before it is in a file, and its entry only when a file is left |
| `path_live` | 1 worker, 2 points, fair | inserts are applied; what is registered outside a removal is flushed |
| `layout_first` | 1 shard, 2 fields with keys of one length, 5 blocks of 100 or 180 bytes | exact and safe margin in the first file, readable index of the current file, one entry per block, whole until the file is left |
| `metadata` | 1 database, 2 tables new or old, 1 field, 2 workers, 3 inserts, 2 runs of the process | memory follows the files, a field is recorded twice only by a race, shards reach `meta.tsm` and stay, a writer is misused only after its slot was dropped |
| `server` | 3 descriptors, limits 1 and 3, 4 peers with one or two requests, with and without threads, fair loop | messages whole and in order both ways, a connection is watched until its first reply is out, losses and aborts have their known causes, slots that run out under reactor threads among them, a first request is handled |
| `client` | head 2, bodies 1 and 3, 2 connects, 2 sends, 2 timers besides a retry or 5 without, fair loop | messages whole both ways but for the end of bodies longer than a head, timers in place and the heap in order up to four, a first failed connect is retried |
| `query` | 2 queries, 2 series, 2 fields, 5 points on 2 days, 3 pasts, 4 conditions, 1 change meanwhile, fair | printed values were flushed under a label with the tags and pass the condition, a query by tags and times loads the shards its times reach and is exact on the first of them if its index blocks are labelled with their own series, every query ends |
| `query_shards` | the same | disagreement 1: the second shard is not read |
| `statement` | 3 lines out of 40 and all conditions of 1 or 2 operators, also in parentheses; 2 streams | evaluator and plan agree but for a replaced use, every table in the map was told to its engine but for the cases of disagreement 16, usual lines survive but for empty names, directories and a full cache, conditions are grouped by precedence |
| `library` | cache: 2 threads, 2 files, limit 2, 4 streams; list: 3 stamps, 2 levels, 3 nodes, 1 reader; JSON: 2 variables, 1 key, 3 cells, all texts of up to 5 tokens | exclusive streams, answers below the limit; iterations see what stays, refinement of OrderedMap; one owner per cell, refinement of Documents, texts round-trip |

Most properties name the event that excuses them (`raced`, `dropped`, `torn`, `lost`,
`spoiled`, `cut`, ...).  They say that there is no other cause, which is what a test
would have to try every order for; the excused behaviours are the disagreements below.

Bounds.
`BlockLimit` is 100 and `IndexLimit` 10 in the code; 2 is the least value at
which a list, a block or an index block is neither empty nor full.  Two workers on
one list are the interesting conflict of the list's lock.  With three points a list
is cut, refilled and cut again while the first block is still on its way; that run makes
an index block due with every entry to keep three points within reach.  Time needs no bound:
the clock flags may be raised at any moment.  In `layout_first` two or three blocks fill
the 512 bytes of `DATA_BLOCK_MARGIN`, so five blocks pass through two file changes, with
index blocks of one and of two entries before and after them; its sizes leave out blocks a
new file cannot take and keys of different lengths, which break the accounting
(disagreements 5, 6 and 9).
In `metadata` two tables of one database are what it takes to replace an entry
another table needs, three inserts race two first inserts with a third after a crash, and version
3 of a shard is the first whose record replaces a record.  A second database would share
only `m_curr_db` and the order of `meta.tsm` with the first, since every map is keyed by
database; the proofs have any number of them.
In `server` three descriptors are the reserve and two connections, so the fourth peer finds
none; a limit of 1 is passed by a burst until a descriptor has no slot, 3 is never reached.  A buffer of 5 takes one reply
and part of another; bodies of 0, 1 and 3 are none, ordinary and over the length limit.
In `client` time 4 has room for two failures in a row; a body of 3 is longer than
a head, the part `send_data` copies, and a body of 1 shorter; five timers are the least from which one can go and
leave the heap out of order.
In `query` the second day is the second shard; two places in the cache are fewer than
the files of one past and one change; one change at any point of a query is what
distinguishes before, during and after, and two queries overlap in every way.
Three lines are a `use`, a statement that depends on it and one that shows the
difference; the cache of the front end has four places, and two are what three lines can fill and then need
one more; two operators are what precedence and associativity need.
In `library` a limit of two and two files reach the eviction; three nodes on two levels
have a middle to delete on both.

Two of the liveness properties assume what the code does not ensure, since without it they are
false: `AnsweredBelowTheLimit` that the cache never reaches its limit, `EveryQueryEnds` that the engine has
fewer files than the cache has places and that no file is read before its first index block
(disagreements 10 and 11).  `AnswerIsExact` is about data that can be read at all (`Answerable`,
disagreements 5, 6 and 12): index blocks labelled with their own series, one data block per index block, blocks with
fewer points than a series and field has blocks, and one value for each time and field.  With two
series of a field written in turn labels are wrong in ordinary use, and nothing is claimed then but
`RowsWereFlushed`, by label.  `OnlyRemovalStrands` claims nothing of steps after which `get_shard` has had no shard to return
(`undefined`, disagreement 4), and `RegisteredIsFlushed` is about the run's one list, so neither the window
of disagreement 2 nor the second series of disagreement 3 violates it.

Deadlock is not an error in any run: behaviours end when all points are stored and
nothing is registered, when inputs or bounds are used up, or when the process has ended.

Fairness.  Weak fairness of each worker, of the flush thread and of the monitor: they
are threads of the operating system in endless loops whose waits the model shows as
guards.  Clocks are weakly fair because time passes.  No client has to insert, nobody
has to destroy the pool, no wake-up is spurious by obligation, and no process has to
crash.  In `server` the acceptor goes on once it has begun, the reactor threads take what is handed over, and
`handle_read` of each descriptor is fair: epoll is level-triggered, so it reports a
descriptor that is watched and has input until it is read.  In `client` time passes,
a connection attempt is answered one way or the other, and a timer that is due is
dispatched.  In `query` the thread of each query runs, and so does the one that has
begun to index a series.  In `library` a thread in a call of the cache goes on unless it
waits for the mutex.  Strong fairness is used nowhere.

### Disagreements with the comments of the code

1. `query_shards`: a finished query has not returned the rows of every shard its time range takes in:
   `RootIterator::has_next` is false once the first shard has no more rows
   (`iterator.cpp:615`, against the comment at `iterator.cpp:253`).

The others are in the models as the code has them, so the properties above either
except them by name or leave their cases out; they are listed here because a reader of the code would
expect otherwise.

2. The monitor removes the registration of a table after its callback, and a block pushed
   in between loses its only registration (`table_state.h:133`, against `field.cpp:108`).
   `field_state.h:185` and `:196` remove those of skip lists and of index entries in the
   same way.  `OnlyRemovalStrands` says that this window is the only one.
3. Registrations are kept per field, so the second series of a field is never registered
   while the first is; its points stay in memory until the next insert into that series
   (`field_state.h:84`, against `controller.cpp:592`).
4. A task can be queued for a field without entries (`controller.cpp:803`,
   `write.cpp:271`, against `write.cpp:140`); the flush then runs into the missing return
   of `get_shard` (`write.cpp:672`).
5. The index blocks written before a file is left go over its footer or over its lowest
   index block, as the tail is lowered only after the first is written (`write.cpp:267`, against
   `write.cpp:254`), and each may go over the one before; the entries written over are lost, and a query may
   load an index without them or take what lies there for one.  All are labelled with the key of the block's field
   (`write.cpp:264`).  `m_create_meta` survives the change,
   so the next index block is not paid for and can be written over data (`write.cpp:314`,
   against `write.cpp:317`).
6. An index block is labelled with the series written to last, not with that of its
   entries (`write.cpp:94`, `:171`, against `write.cpp:170`), so a query by tags prints rows of a series without
   them and misses rows of one with them; when the two keys have different
   lengths the room paid for is wrong as well.
7. Entries of blocks in the file of one shard are written to the file of the shard that
   came first (`write.cpp:469`, against `tsm_ingredient.h:151`).
8. `m_map[db] = Database{...}` drops the writers, and with them the unflushed blocks and the
   shards, of every other table of the database (`controller.cpp:173`); a reload keeps of each database the last table of
   `meta.tsm`; a flush or a producer may still use the writer that is gone.
9. A block too large for a new file is written past its end, and the negative margin then
   counts as unlimited (`write.cpp:251`, `:296`).
10. Until its first index block a file has 0 in its footer, which `load_tsm_index_entry`
    takes for the offset of an index block (`iterator.cpp:32`): garbage, or a loop that holds `m_mutex`.
11. An eviction locks the mutex its caller holds (`file_io_manager.cpp:77`), so a cache at its limit answers
    nobody any more; a query over more than eight files stops every insert with it, and the front end hangs
    at the fifth database it reads, or at the first table made with four of them read
    (`table_engine_map.cpp:13`).
12. Queries: a block with as many points as there are blocks, or more, ends the reading of its field
    (`iterator.cpp:103`); of an index block only the first entry is read; the index of tags
    is not rebuilt at a restart; tags are taken out from under "or"; a condition without tags has no
    rows; "=" on a field is always false; "!=" excludes every shard; rows of different
    series with one time are merged.
13. A second reconnection never comes: `_pioneer` stays at the time that has fired, so the
    timerfd is not armed for a later one (`timer_queue.cpp:24`, against `tcp_client.cpp:59`).
14. A timer that takes the place of one that fired or was deleted sinks by one level only, as
    `heap_hold` calls itself for the position it came from (`timer_queue.cpp:116`), and never rises; from five timers on the
    heap may be out of order, and with more the timerfd be set for a timer that is not the first.
15. Only nodes that create tables reach an engine (`operator.cpp:135` says that an insert calls one):
    `CreateNode::m_type` hides that of its base (`operator.h:58`).  `use a show tables` leaves evaluator and plan with different
    databases, and a select with an unexpected token never ends.
16. `load_database_metadata` returns nothing for a database that is in the map (`table_engine_map.cpp:57`, against the
    comment above it, which says it loads), so after `show a . t -- engine`, a select from `a . t` or a
    replaced `use a`, a later `use a` tells no engine of its tables.
17. A null is dereferenced by creating a table that exists, one without a database, and a database or a table with
    an empty name (`evaluator.cpp:108`); and by `use ''`, `use .` or `use /`, which pass
    `database_exist` because there is a directory, and whose sys-metadata is not there (`table_engine_map.cpp:67`).
18. With reactor threads connections are counted late and never closed by anybody, so a burst above the limit ends at
    `assert(connfd < _conn_size)` (`tcp_server.cpp:139`, against the limit at `:132`).
19. `send_data` copies as many units of the body as the head has (`tcp_client.cpp:142`), whatever its length: the
    end of a longer body is not the caller's, and behind a shorter one it reads and writes past the ends.

## 5. Proofs

All are machine-checked to the last leaf, from the assumptions named.

**Pool.**  `ThreadPoolProofs`, for any sets of workers, callers and tasks, from
`PoolAssumption` (at least one worker, and `NoTask` is no task): `PoolInv`, the conjunction of
`TypeOK`, `TaskAccounted`, `ShutdownOrder`, `NoLostWakeup` and `NobodySleepsAfterBroadcast`,
is inductive (`PoolInvariant`).  `ShutdownOrder` is what the others lack: `m_stop` is set
exactly by the destructor, a worker returns only from a stopped and empty pool, and
join waits for all.  `EveryTaskAccounted`, `WakeupNeverLost`, `DrainedBeforeJoin` and
`PoolTypes` follow.  `PoolImplementsLedger` is the refinement: each action maps to one action of
TaskLedger or to a stutter, given that a refused task was never accepted (`RefusedApart`).

**Write path.**  `WritePathProofs`, for any sets of workers, lists, fields and points and any
limits, from `PathAssumption` (the constants are typed, the extra values are outside the
sets they extend, `BlockLimit` and `IndexLimit` are positive) and `JobAssumption`
(`NoJob` is no job).  `PathInvariant`: `PathInv` is inductive.  It is `TypeOK`,
`ResetMeansEmpty` and `PointInOnePlace` with what they rest on.  `ListLock`: one worker at
a time is in `Field::write` of a list.  `ListProgress`: what the holder of the lock has
made of the list at each step, without which an empty list could be cut, or the flag be
stale when the lock is released.  `PutOnce`: a point still carried to its list, or not
sent, is nowhere else, and no two jobs carry one point.  `ListsAreDisjoint`: two lists
share no point, so pushing one block says nothing about the others.  Three families of
lemmas, one per action in each, preserve types, lock and progress, and places.

- `PathTypes`, `PointsStayInOnePlace`, `ResetTellsTheTruth` follow.
- `EntriesMatchBlocks` is `EntryForEveryBlock` through file changes: the entry of a block on disk is in memory,
  whole in a file, or written over in a file that has been left.  The strengthening says that the entries of different
  fields, and the index blocks of different files, are of different blocks (`FieldsApart`, `FilesApart`).
- `OnlyTheMonitorStrands` is the action property `OnlyRemovalStrands`, from the types alone:
  one case per step, and only `RemoveTable` can leave a block without a registration, as long as `get_shard`
  had a shard to return.
- `PathImplementsPipeline` is the refinement, one lemma on the stations of the
  points per action.  It needs `HomeInv`: points are put only into their own list, and what is
  pushed and not yet cleared is already in the deque or on disk, so that clearing
  the list loses nothing.  It also needs `BlocksHavePoints`: what is queued or pending has points, so that a
  file change that writes over entries moves the points of a pending index block at the same step.

**File layout.**  `FlushDiskProofs`, from `LayoutAssumption` (the constants are typed), for any sizes, limits, fields,
shards and keys: `EntriesStayWithBlocks`, that each block has had exactly one entry written or pending,
with its offset and size, and that an index block loses bytes only when its file has been left or a data
block has outgrown the margin (`MayBeSpoilt`).  `LayoutInv` numbers the blocks in order, knows the key and the
shard of what is pending, and counts no entry of a block still in the deque.  Entries
move in three ways, each a lemma on the two collections alone: a field's entries become an index block,
those of all fields become the blocks of the file that is left, and a new entry joins a field's.

The room in the files is proved for a table of one shard whose keys have one length (`OneKeyLength`), on top of
`LayoutInv`.  `Load` is what the index blocks of all waiting entries will take, a sum over the fields:
it is proved by induction over finite sets that a field which gains or loses entries
changes the sum by its own weight.

- `MarginIsGap` is `FirstMarginIsExact`: in the first file the margin is the tail less the head less the
  load (`Exact`).  A file change takes the first file out of use before it resets the margin.
- `FirstFileStaysSafe` is `FirstFileIsSafe`, if every block fits into an empty file (`BlocksFit`).  `Room` says that the
  margin stays within the file and never falls below 0, `SafeOne` that blocks end before
  the head and index blocks begin at the tail.
- `CurrentStaysReadable` is `CurrentIsReadable`, if no block is smaller than a meta (`BlocksOutweighMeta`).  `Tiled` says that the index
  blocks of the current file lie end to end from its footer up to the end, and that above the
  header there is room for the margin and the load.

None of the hypotheses can go.  With a second shard an entry is written to the shard of the first entry that
waits; with keys of different lengths, and with a block that fits no file, the margin falls
below 0, which `HasRoom` takes for a large number; and after a file change entries of many small
blocks may need metas nobody has paid for, so the tail falls to the header
(disagreements 5, 6, 7 and 9).  The run `layout_first` satisfies all four.

**Cache.**  `LibraryProofs`, without an assumption on any constant.  `CacheInvariant`: a stream belongs to one path, and one that is
marked as free is in nobody's hands or was freed by another thread; hence
`StreamsAreShared`.  `ExclusiveStreams` is `StreamsAreExclusive` whole: the iterator in each entry points to
the node of its path in the usage order (`NodesInv`), so `update_usage_order` never
erases through a dangling one.  Node identities differ because one more than the entries cannot all
be taken (`FreshIsFresh`, by the pigeonhole principle).

**Skip list.**  `LibraryProofs`, from `ListAssumption` (keys are naturals, there is a level), for any keys,
values, levels, readers and bound on the nodes.  `ListInvariant`: `ListInv` is inductive.  It has two parts.

- `ListCore`: every pointer of a node, freed or not, leads to a node of its level with a greater key
  (`Shape`), and on every level the pointers from the head on link exactly the listed nodes of that level, in the
  order of their keys (`Chained`).  `ListedAre` shows that nodes chained so are what `Listed` finds, `UpdateIs`
  that `Update` finds on each level the last node before a key though it starts where the level above has ended;
  `InsertedIsChained` and `RemovedIsChained` are what `Put` and `Del` need of it.
- `Iterates`, for each iteration no other has disturbed: it has seen nodes in the order of their keys, and
  what it began with is seen, at hand, behind the node it is at, or deleted.  A chain loses only the node
  that is deleted (`ChainStays`) and a put only lengthens it (`ChainGrows`); `Cle` changes the head alone, so an
  iteration goes on along the old nodes, which are never freed.

`IterationsSeeAll` is `IterationSeesAll`.  `SkipListIsAMap` is `ListIsAMap`, the refinement of OrderedMap: on top of
`ListCore` the count is that of the listed keys (`Counted`), and `PutMaps`, `DelMaps` and `CleMaps` say that each
operation changes the map as it should, whatever levels the nodes have.

**Queries.**  `QueryProofs`, from `QueryAssumption` (constants are typed, the points finitely many, conditions
are trees, the past is made of files), for any queries, conditions, points, pasts and limits.

- `QueryInvariant`: `QueryInv` is inductive.  Files are well formed; what was loaded of a shard is a finite set of
  index blocks, known by their places, each of which some file was given under its label (`LoadInv`; a spoilt file
  may have lost it since); a lookup nothing tore has found the
  series of the tags (`LookupInv`); the rows of a query that no other overlaps are its own (`AloneInv`), and each
  value in them is that of a point a file was given under a label with the tags (`RowsInv`).  `AnswersWereFlushed`,
  `RowsWereFlushed`, follows: of the labels, not of the series of the points, which the code does not keep to.
- `ExactInvariant`: `ExactInv` is inductive given `QueryInv`.  What is left of a condition is a tree; the shards loaded
  and still to load are those the times reach (`KnowsShards`); the rows read are all points of the blocks that the query
  is about, aligned by time (`ReadAll`), and those printed are the ones within its times (`PrintedAll`).
  `AnswersAreExact`, `AnswerIsExact`, follows, for a shard whose loaded blocks are rightly labelled: there the points of the
  label are those of the series (`LabelsTell`).  It rests on lemmas about the operators: that a shard passes a bound exactly if
  it has a time that does, that `Without` yields a tree again and `Condition` and `Verdict` of a tree of bounds
  are those of its nodes together, by induction over the array of nodes, and that on data that can be read no iterator
  stalls (`AllAreRead`).

**SQL front end.**  `LibraryProofs`, from `EvaluatorAssumption` (a program is a sequence of nodes, an infix node of a
condition comes after its operands, a table is created in one of the two engines), for any lines, any
number of them, and whatever the parser makes of them.  `ReplInvariant`: `ReplInv` is inductive.  Its core is `EvalInv`
of what the evaluator works on, kept by every node it visits (`EvalKeeps`) and hence by every
program (`ProgramKeeps`):

- the evaluator uses the database of the plan's pending `use`, if there is one, else that of the plan, unless a `use` was replaced;
- of each table in the map its engine was told, as one to load or to create, or the pending `use` or `create` will tell
  it; or it was created while the two databases differed, or its database was read for no plan (`Told`, from which
  no table that was there from the start is exempt);
- each table in a file was there from the start or is accounted for by a `create` (`Made`);
- a pending `create` ends the program, so nothing replaces it; a program hangs only with a full cache.

That a create ends the program is what the property lacks: without it a second statement of the line could replace
the `create` before any engine is told.  It holds only because the type of a `CreateNode` is never set and so reads
as an error.  `EnginesAreTold` is `PlanReachesEngines`.  `CrashesHaveCauses` is the half of
`UsualLineSurvives` that concerns the evaluator: it ends the process only at a node of the last line that is wrong in itself
(`MayCrash`: a null pointer, a null that is asked for, an empty name, a directory that is no database, a
table to create, ...), and hangs only at one that opens a file (`MayHang`) with all streams taken, in whatever
state the lines before have left it.  Both hold for any size of the cache.

**JSON library.**  `LibraryProofs`, from `JsonAssumption` (the image of a text is one Json with cells that form a
forest; the run evaluates it for what the parser makes of its texts), for any variables, keys, number of
addresses and depth of the values.  `JsonInvariant`: `JsonInv` is inductive.  The cells in use are a forest whose
tops are what the variables refer to: no cell refers to a top, no two cells or variables to one
cell, each by its own type, and a set of cells that has the tops and is closed has all.
The last conjunct is what makes "reached" usable without induction over data.  The forest changes in four ways, each
a lemma about sets of addresses: a top is cut off with all it reaches (`CutOff`), a
second forest is put beside it (`SideBySide`), Jsons pass between a top and the variables (`Shifted`), and a child
of a top is cut off (`ChildCutOff`).  Every operation is made of these; `operator []` needs that what another variable owns does not
depend on the container (`SameImage`), since it clears the old member before it copies.
`CellsHaveOneOwner`, `OneOwner`, follows: two tops reach nothing in common (`Apart`), and every cell is
reached from one (`AllReached`).

**Catalog.**  From `CatalogAssumption` (tables belong to databases, the old ones are
finitely many), through crashes and restarts.

- `CatalogInv` is inductive: types, a slot without writer was dropped, a table owed a
  flush has a slot or was dropped, and what a producer refers to is there or was
  dropped.  `WritersLostOnlyByReplacement` follows.
- `ShardInv` follows a flush of `meta.tsm` through its steps: what memory has changed is in the
  file, still to be written or registered for a later flush; what was once
  recorded is in the file or in memory.  `ShardsSurvive` follows.
- `LinesInv` says that memory has all tables of a database or none, that
  the database in use has been read and that a table about to be made is on its line;
  `FieldInv` that the holder of `m_table_meta_mutex` has read what the file has, that the
  fields in a file are in memory or about to be, and that two producers adding one field
  have raced.  `MemoryFollowsFiles` and `FieldsDuplicateByRace` follow.

**Server.**  `TcpServerProofs`, for any scripts of the peers, lengths, capacities and limits, from `ServerAssumption`.
`ServerIsRight`: `ServerInv /\ Counted` is inductive.  `Counted` is why slots run out under threads only: without them
every descriptor in use but the reserve is a counted connection, so the next one is below `_conn_size`, by
counting the descriptors below it.  The parts of `ServerInv`: types; `Descriptors`, a connection's number is taken and is not the
reserve, and accepting closes nobody's socket, as long as the acceptor has its reserve; `Registered`, the loop knows no
descriptor that is not a connection's and reads each until its output has been written; `HeadIsSpoilt`,
output that does not begin at 0 has lost units; `Crossing`, what callbacks got,
what waits in the buffer and what waits in the socket are the beginning of the script
in this order (`Tracks`), and what a peer got and what waits for it are the replies to what was accepted.

- `CrossWhole`, `ReadUntilFlushed` and `LossesHaveCauses` are `MessagesAreWhole`, `DeafOnlyAfterReply` and `LossHasCause`.
- `Messages` is the loop of `handle_read`: each round takes one message off the buffer, so the loop ends
  within as many rounds as there are units, and every round keeps `Tracks` (`MessagesKeep`).  The streams are
  `FlattenSeq` of the frames; a sequence one longer is proved to flatten to one frame more.

**Client.**  `TcpClientProofs`, for any messages, capacity and delays, from `ClientAssumption` and `NeverAssumption`.
`ClientIsRight`: `ClientInv` is inductive.  Its parts: `TimersRight`, below; `TalkRight`, what the server got and what waits to be
written are whole messages end to end (`Whole`), which units moved from one to the other leave as they are; `HandledRight`;
`WatchRight`, the loop watches the socket for writing only if something is to be written, and epoll watches
nothing the loop does not know; `RetryRight`, a connection that failed is watched by nobody, and a timer to
connect again belongs to it and is the only one, so that `do_connect` never runs on a live connection.

- `ClientTalksWhole` is `MessagesAreWhole`: what the server gets has the lengths of whole messages, every unit of it is the
  caller's up to a head's length of the body, and none beyond.
- `TimersStayInPlace` is `TimersInPlace`.  Each operation on the heap has a lemma that says what it does to the set
  of timers, to the positions and to the order: `SiftUpIs` (a heap but for one timer becomes a heap,
  each round halving the position), `HeapDelIs` (up to four timers remain a heap: at the front one
  level is enough, and what moves elsewhere has no child), `DelTimerIs`, and `GetTimoIs`, by induction over its rounds.

Only model-checked:

- liveness, and refinement under fairness (`PoolFinishes`, `InsertIsApplied`, `RegisteredIsFlushed`,
  `FirstRequestIsHandled`, `FirstFailureIsRetried`, `EveryQueryEnds`, `AnsweredBelowTheLimit`): out
  of the prover's reach;
- `Json` (`JsonsAreValues`, `TextsAreValues`): the tree a Json stands for, the parser and the printer are
  recursive operators, and what these compute for every tree is an induction over data;
- `Statement` (`UsualLineSurvives` as far as the parser goes, `ConditionIsGrouped`): what a line becomes is computed by
  the parser, again recursive operators, and both properties are about what it makes of lines.

Every other property of the runs is stated by a theorem.

The library's induction theorems take an operator as a parameter, which the provers cannot instantiate.
Where a proof needs induction, it is stated of sets instead: a set of naturals
that has 0 and every successor has all (`Counting`), and a set of finite sets that has the empty one and
grows by an element has all finite subsets (`BySubsets`).  From the first it follows that recursive
functions exist, so what `FlattenSeq` and `SumFunctionOnSet` compute is proved too.

## 6. Not modelled

The circular list engine and the write-ahead log are stubs: their methods are empty or print.
The protobuf code is generated, and the Shard message is a record of the models.  The
demonstration mains and the reader of the configuration file have no behaviour to check.

Within the modelled components:

- I/O errors of the TSM files (every write is taken to succeed) and compression;
- observers attached while the engine runs, and the race of the unsynchronised lookups
  in `m_shard_skip_map`, which is undefined behaviour with no outcome worth enumerating;
- the moments within one pass of `queue_flush_disk` at which another thread reads the field's key;
- more than one shard per table in Catalog, removal of directories, and helpers that only build paths;
- the reads and writes through a cached stream;
- `add_task` of the event loop, which nothing calls; the chunks of the buffer pool, one capacity per
  buffer instead; start-up and options of the server;
- the evaluation of an insert, which never reaches an engine; wording of what is printed;
- escapes in JSON strings and comparison of JSON values.
