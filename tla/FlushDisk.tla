------------------------------- MODULE FlushDisk -------------------------------
(***************************************************************************)
(* The layout of the .tsm files Write::queue_flush_disk writes for one     *)
(* table.  A file starts with a header, data blocks grow upwards from it,  *)
(* index blocks grow downwards from the footer, and the footer holds the   *)
(* offset of the lowest index block.  Each shard has a current file with a *)
(* head, a tail and a margin; the margin is what data blocks may still     *)
(* take once room is set aside for the index entries of the blocks.        *)
(*                                                                         *)
(* One thread at a time is in queue_flush_disk; the writers and the        *)
(* monitor push blocks, keys and tasks while it runs.  One pass of module 1 *)
(* or 2 is one action.  The monitor's test and its push are one step here  *)
(* (WritePath separates them).  Sizes are bytes.                           *)
(***************************************************************************)
EXTENDS Integers, Sequences, FiniteSets, Functions

CONSTANTS
  Fields,      \* numbered in the order of m_index_map
  Shards,
  Keys,        \* series_key + field_name
  FieldOf,     \* the field of each key
  KeySize,     \* the length of each key
  Sizes,       \* sizes of data blocks, compressed and with their 16 bytes of header
  FileSize,    \* DATA_BLOCK_MARGIN
  IndexLimit,  \* index entries that make an index block due
  MaxBlocks,   \* bound on the data blocks of a behaviour
  NoShard, NoKey

ASSUME LayoutAssumption ==
  /\ Fields \subseteq Nat /\ IsFiniteSet(Fields)
  /\ FieldOf \in [Keys -> Fields]
  /\ KeySize \in [Keys -> Nat]
  /\ Sizes \subseteq Nat \ {0}
  /\ FileSize \in Nat /\ FileSize > 13
  /\ IndexLimit \in Nat \ {0}
  /\ MaxBlocks \in Nat
  /\ NoShard \notin Shards /\ NoKey \notin Keys

HeaderSize == 5
FooterSize == 8
EntrySize == 28
MetaSize(key) == 8 + KeySize[key]

Blocks == [id : 1..MaxBlocks, key : Keys, shard : Shards, size : Sizes]
Entries == [id : 1..MaxBlocks, offset : Int, size : Sizes]

VARIABLES
  m_data_deque,
  pushed,         \* data blocks pushed so far
  m_index_block_meta_key,  \* per field, the key of its last write
  shard,          \* per shard: current file (0 for none), margin, head, tail
  m_index_map,    \* per field: m_shard_id and m_index_deque
  m_create_meta,  \* per field: the margin has paid for the meta
  timed,          \* per field: m_last_time is set, not the epoch
  m_index_task_queue,
  flush,          \* at module 1 ("task") or module 2 ("data")
  files,          \* files created so far: length and footer
  data,           \* data blocks written
  index,          \* index blocks written
  spoilt          \* those of them of which bytes have been written over

queueVars == <<m_data_deque, pushed, m_index_block_meta_key>>
fieldVars == <<m_index_map, m_create_meta, timed, m_index_task_queue>>
diskVars == <<files, data, index, spoilt>>
vars == <<queueVars, shard, fieldVars, flush, diskVars>>

NoEntries == [shard |-> NoShard, deque |-> <<>>]

Init ==
  /\ m_data_deque = <<>>
  /\ pushed = 0
  /\ m_index_block_meta_key = [f \in Fields |-> NoKey]
  /\ shard = [s \in Shards |-> [file |-> 0, margin |-> 0, head |-> 0, tail |-> 0]]
  /\ m_index_map = [f \in Fields |-> NoEntries]
  /\ m_create_meta = [f \in Fields |-> FALSE]
  /\ timed = [f \in Fields |-> FALSE]
  /\ m_index_task_queue = <<>>
  /\ flush = "task"
  /\ files = <<>>
  /\ data = {}
  /\ index = {}
  /\ spoilt = {}

-----------------------------------------------------------------------------
(* what runs beside the flush *)

\* Write::write and the push of a block of this series at its end.
Push(k, s, size) ==
  /\ pushed < MaxBlocks
  /\ pushed' = pushed + 1
  /\ m_data_deque' = Append(m_data_deque,
                       [id |-> pushed + 1, key |-> k, shard |-> s, size |-> size])
  /\ m_index_block_meta_key' = [m_index_block_meta_key EXCEPT ![FieldOf[k]] = k]
  /\ UNCHANGED <<shard, fieldVars, flush, diskVars>>

\* Write::write of a point that cuts no block.
Touch(k) ==
  /\ m_index_block_meta_key' = [m_index_block_meta_key EXCEPT ![FieldOf[k]] = k]
  /\ UNCHANGED <<m_data_deque, pushed, shard, fieldVars, flush, diskVars>>

PushTask(queue, f) ==
  IF \E i \in DOMAIN queue : queue[i] = f THEN queue ELSE Append(queue, f)

\* Write::should_flush_index: late is what the clock of the field says; the
\* epoch is always late.
Due(entries, late) ==
  \/ Len(entries) >= IndexLimit
  \/ late /\ entries # <<>>

MonitorPushesTask(f, late) ==
  /\ ~timed[f] => late
  /\ Due(m_index_map[f].deque, late)
  /\ m_index_task_queue' = PushTask(m_index_task_queue, f)
  /\ UNCHANGED <<queueVars, shard, m_index_map, m_create_meta, timed, flush, diskVars>>

-----------------------------------------------------------------------------
(* regions of a file *)

IndexSize(key, entries) == EntrySize * Len(entries) + MetaSize(key)

IndexBlock(file, from, key, entries) ==
  [file |-> file, from |-> from, size |-> IndexSize(key, entries),
   key |-> key, entries |-> {entries[i] : i \in DOMAIN entries}]

\* The length of a file after writing up to this offset.
Grown(length, to) == IF to > length THEN to ELSE length

Disjoint(x, y) == x.from + x.size <= y.from \/ y.from + y.size <= x.from

\* The index blocks of X that lose bytes to this stretch of file n.
Under(X, n, from, size) ==
  {x \in X : x.file = n /\ ~Disjoint(x, [from |-> from, size |-> size])}

FooterOver(X, n, length) == Under(X, n, length - FooterSize, FooterSize)

\* TSM::write_series_index_block_to_file: the footer is the last 8 bytes.
WithFooter(fl, to, offset) == [length |-> Grown(fl.length, to), footer |-> offset]

-----------------------------------------------------------------------------
(* module 1 *)

\* Mutant of Lowered: the block goes over what is at the tail.
Lowered_Not(sh, size) == sh

\* The tail moves below the block that is written.
Lowered(sh, size) == [sh EXCEPT !.tail = @ - size]

\* Writes the index block of one field below the last one; its place has been
\* paid for, so the margin stays.
WriteIndex ==
  /\ flush = "task"
  /\ m_index_task_queue # <<>>
  /\ LET f == Head(m_index_task_queue)
         key == m_index_block_meta_key[f]
         entries == m_index_map[f].deque
         s == m_index_map[f].shard
         sh == Lowered(shard[s], IndexSize(key, entries))
         fl == WithFooter(files[sh.file], sh.tail + IndexSize(key, entries), sh.tail)
     IN
     /\ entries # <<>>
     /\ index' = index \cup {IndexBlock(sh.file, sh.tail, key, entries)}
     /\ spoilt' = spoilt \cup Under(index, sh.file, sh.tail, IndexSize(key, entries))
                         \cup FooterOver(index', sh.file, fl.length)
     /\ files' = [files EXCEPT ![sh.file] = fl]
     /\ shard' = [shard EXCEPT ![s] = sh]
     /\ m_index_map' = [m_index_map EXCEPT ![f] = NoEntries]
     /\ timed' = [timed EXCEPT ![f] = FALSE]
     /\ m_create_meta' = [m_create_meta EXCEPT ![f] = FALSE]
  /\ m_index_task_queue' = Tail(m_index_task_queue)
  /\ flush' = "data"
  /\ UNCHANGED <<queueVars, data>>

\* A task without entries: the loop leaves or starts over, or the program has
\* crashed on the missing shard.
StaleTask ==
  /\ flush = "task"
  /\ m_index_task_queue # <<>>
  /\ m_index_map[Head(m_index_task_queue)].deque = <<>>
  /\ m_index_task_queue' = Tail(m_index_task_queue)
  /\ UNCHANGED <<queueVars, shard, m_index_map, m_create_meta, timed, flush, diskVars>>

NoTask ==
  /\ flush = "task"
  /\ m_index_task_queue = <<>>
  /\ flush' = "data"
  /\ UNCHANGED <<queueVars, shard, fieldVars, diskVars>>

-----------------------------------------------------------------------------
(* module 2 *)

EndFlush ==
  /\ flush = "data"
  /\ m_data_deque = <<>>
  /\ flush' = "task"
  /\ UNCHANGED <<queueVars, shard, fieldVars, diskVars>>

\* Mutant of HasRoom: sets nothing aside for the entry and its meta.
HasRoom_NoReserve(sh, b) ==
  \/ sh.margin < 0
  \/ sh.margin >= b.size

\* margin < predict_size + 40 + key size, negated.  predict_size is unsigned, so
\* a negative margin counts as a huge one.
HasRoom(sh, b) ==
  \/ sh.margin < 0
  \/ sh.margin >= b.size + 40 + KeySize[b.key]

\* create_tsm_file_init
Fresh(n) == [file |-> n, margin |-> FileSize - (HeaderSize + FooterSize),
             head |-> HeaderSize, tail |-> FileSize - FooterSize]

\* The index blocks written to the full file n before it is left: one for each
\* field with entries, all under the key of field f, each at the tail as it is
\* before the tail moves.
Residue(f, n, tail) ==
  LET key == m_index_block_meta_key[f]
      size == [g \in Fields |-> IndexSize(key, m_index_map[g].deque)]
      left == {g \in Fields : m_index_map[g].deque # <<>>}
      at(g) == tail - SumFunctionOnSet(size, {h \in left : h < g})
  IN {IndexBlock(n, at(g), key, m_index_map[g].deque) : g \in left}

\* What is written over by these blocks, of which the lower ones come later, and
\* by the footer after them.
LostToResidue(residue, n, length) ==
  UNION {Under(index \cup {x \in residue : x.from > y.from}, n, y.from, y.size)
           \cup FooterOver(index \cup residue, n, length) : y \in residue}

\* The file after these blocks: the last block written is the lowest.
Closed(fl, blocks) ==
  IF blocks = {} THEN fl
  ELSE LET low == CHOOSE x \in blocks : \A y \in blocks : x.from <= y.from
           high == CHOOSE x \in blocks : \A y \in blocks : x.from + x.size >= y.from + y.size
       IN WithFooter(fl, high.from + high.size, low.from)

\* Write::push_index_to_deque: the first entry chooses the shard.
AddEntry(info, s, e) ==
  [shard |-> IF info.shard = NoShard THEN s ELSE info.shard,
   deque |-> Append(info.deque, e)]

\* Mutant of Charged: the head stays where it is.
Charged_NoHead(sh, b, meta) ==
  [sh EXCEPT !.margin = @ - b.size - EntrySize - meta]

\* The current file after the block: the margin pays for the block, its entry
\* and, when there is none yet, the meta of the field's next index block.
Charged(sh, b, meta) ==
  [sh EXCEPT !.margin = @ - b.size - EntrySize - meta, !.head = @ + b.size]

\* Mutant of Kept: m_index_map is not cleared when the file changes.
Kept_All(full) == m_index_map

\* What is left of m_index_map after the test for a full file.
Kept(full) == IF full THEN [f \in Fields |-> NoEntries] ELSE m_index_map

\* Writes one data block, in a new file if the current one has no room for it,
\* and accounts for its index entry.  A field whose m_create_meta is set but
\* whose entries went with the old file is late at once: its clock is the epoch.
WriteBlock(late) ==
  /\ flush = "data"
  /\ m_data_deque # <<>>
  /\ LET b == Head(m_data_deque)
         f == FieldOf[b.key]
         old == shard[b.shard]
         full == old.file # 0 /\ ~HasRoom(old, b)
         sh == IF full \/ old.file = 0 THEN Fresh(Len(files) + 1) ELSE old
         residue == IF full THEN Residue(f, old.file, old.tail) ELSE {}
         closed == IF full THEN [files EXCEPT ![old.file] = Closed(@, residue)] ELSE files
         opened == IF sh.file > Len(files)
                   THEN Append(closed, [length |-> FileSize, footer |-> 0]) ELSE closed
         kept == Kept(full)
         clock == [g \in Fields |-> timed[g] /\ ~full]
         e == [id |-> b.id, offset |-> sh.head, size |-> b.size]
         entries == AddEntry(kept[f], b.shard, e)
     IN
     /\ late \in (IF m_create_meta[f] THEN (IF clock[f] THEN BOOLEAN ELSE {TRUE}) ELSE {FALSE})
     /\ index' = index \cup residue
     /\ spoilt' = spoilt \cup LostToResidue(residue, old.file, closed[old.file].length)
                         \cup Under(index, sh.file, sh.head, b.size)
     /\ files' = [opened EXCEPT ![sh.file].length = Grown(@, sh.head + b.size)]
     /\ data' = data \cup {[id |-> b.id, key |-> b.key, file |-> sh.file,
                            from |-> sh.head, size |-> b.size]}
     /\ shard' = [shard EXCEPT ![b.shard] = Charged(sh, b,
                    IF m_create_meta[f] THEN 0 ELSE MetaSize(m_index_block_meta_key[f]))]
     /\ m_index_map' = [kept EXCEPT ![f] = entries]
     /\ timed' = [clock EXCEPT ![f] = @ \/ ~m_create_meta[f]]
     /\ m_create_meta' = [m_create_meta EXCEPT ![f] = TRUE]
     /\ m_index_task_queue' = IF Due(entries.deque, late) THEN PushTask(m_index_task_queue, f)
                              ELSE m_index_task_queue
  /\ m_data_deque' = Tail(m_data_deque)
  /\ flush' = "task"
  /\ UNCHANGED <<pushed, m_index_block_meta_key>>

-----------------------------------------------------------------------------

Next ==
  \/ \E k \in Keys, s \in Shards, size \in Sizes : Push(k, s, size)
  \/ \E k \in Keys : Touch(k)
  \/ \E f \in Fields, late \in BOOLEAN : MonitorPushesTask(f, late)
  \/ WriteIndex \/ StaleTask \/ NoTask \/ EndFlush
  \/ \E late \in BOOLEAN : WriteBlock(late)

Spec == Init /\ [][Next]_vars

-----------------------------------------------------------------------------

DataIn(n) == {d \in data : d.file = n}
IndexIn(n) == {x \in index : x.file = n}

IsCurrent(n) == \E s \in Shards : shard[s].file = n

\* No data block of file n is overwritten by another data block, by an index
\* block or by the footer.
DataIsSafe(n) ==
  \A d \in DataIn(n) :
    /\ d.from >= HeaderSize
    /\ d.from + d.size <= files[n].length - FooterSize
    /\ \A e \in DataIn(n) \ {d} : Disjoint(d, e)
    /\ \A x \in IndexIn(n) : Disjoint(d, x)

\* The data blocks of a shard's first file are never overwritten, neither while
\* index blocks grow towards them nor when the file is left.
FirstFileIsSafe == files # <<>> => DataIsSafe(1)

\* What TsmIOManagerCenter::load_tsm_index_entry needs, reading from the footer's
\* offset to the footer: the index blocks tile this stretch.  A footer of 0 says
\* that there is none yet.
Readable(n) ==
  LET fl == files[n]
      end == fl.length - FooterSize
  IN
  /\ \A x \in IndexIn(n) :
       /\ x.from = fl.footer \/ \E y \in IndexIn(n) : y.from + y.size = x.from
       /\ x.from + x.size = end \/ \E y \in IndexIn(n) : y.from = x.from + x.size
       /\ \A y \in IndexIn(n) \ {x} : Disjoint(x, y)
  /\ IndexIn(n) = {} <=> fl.footer = 0

\* The index of a shard's current file can be read whatever has been flushed to
\* it so far.
CurrentIsReadable == \A n \in DOMAIN files : IsCurrent(n) => Readable(n)

\* What the index blocks of the pending entries of a shard will take.
PendingSize(s) ==
  LET pending == {f \in Fields : m_index_map[f].shard = s}
  IN SumFunction([f \in pending |->
                    IndexSize(m_index_block_meta_key[f], m_index_map[f].deque)])

\* In the first file the margin is the gap between head and tail less the room
\* for pending index blocks, though module 1 moves the tail without touching it.
FirstMarginIsExact ==
  \A s \in Shards :
    shard[s].file = 1 =>
      shard[s].margin = shard[s].tail - shard[s].head - PendingSize(s)

EntriesOf(f) == {m_index_map[f].deque[i] : i \in DOMAIN m_index_map[f].deque}

Describes(e, d) == e.offset = d.from /\ e.size = d.size

\* Whether an index block may have lost bytes: its file has been left, when the
\* blocks of the pending entries went over its lowest blocks and over each other,
\* or, beyond the first file, a data block has outgrown the margin.
MayBeSpoilt(x) == ~IsCurrent(x.file) \/ \E d \in DataIn(x.file) : ~Disjoint(d, x)

\* Each data block has had exactly one index entry written or pending, with its
\* offset and size, through every index flush and file change; and no entry in an
\* index block is lost before the file is left.  Afterwards it may be: it is still
\* among those written, but its block is in spoilt.
OneEntryPerBlock ==
  \A d \in data :
    LET pending == {f \in Fields : \E e \in EntriesOf(f) : e.id = d.id}
        written == {x \in index : \E e \in x.entries : e.id = d.id}
    IN /\ Cardinality(pending) + Cardinality(written) = 1
       /\ \A f \in pending : \E e \in EntriesOf(f) : e.id = d.id /\ Describes(e, d)
       /\ \A x \in written :
            /\ \E e \in x.entries : e.id = d.id /\ Describes(e, d)
            /\ x \in spoilt => MayBeSpoilt(x)

===============================================================================
