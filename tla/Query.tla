---------------------------------- MODULE Query ----------------------------------
(***************************************************************************)
(* Queries of the TSM engine: the tag index (index.cpp), the shard filter  *)
(* and the iterator tree of a query (analytic_expr_tree of controller.cpp, *)
(* iterator.cpp), while flushes write TSM files.                           *)
(*                                                                         *)
(* A query reads files only, never the points still in memory.  The        *)
(* threads of the pool that answer queries share m_row_nodes, the map of   *)
(* the index that the lookup changes without a lock, and m_mutex, which a  *)
(* query holds while it loads the index of every file it needs.  Each      *)
(* query has a stream cache of its own (module FileIOManager) of MaxSize   *)
(* places, whose eviction waits for itself for ever.                       *)
(*                                                                         *)
(* The layout of a file is module FlushDisk's.  Here a file is its shard   *)
(* and the index blocks its footer leads to: none, and the footer 0, until *)
(* the first is written.  An index block is labelled with the series last  *)
(* written to its field, of whatever series its data blocks are, and all   *)
(* its entries but the first may be of data blocks of another shard.  A    *)
(* file left with entries in memory is spoilt: they were written over its  *)
(* index.                                                                  *)
(***************************************************************************)
EXTENDS Naturals, Sequences, FiniteSets, Functions

CONSTANTS Queries,   \* the threads that answer queries
          Series,    \* the series keys, numbered in the order of their strings
          TagsOf,    \* of a series: a set of [key, value]
          Fields,    \* the fields asked for
          Points,    \* records [series, field, time, value]
          Day,       \* length of a shard
          Trees,     \* the conditions asked with
          Pasts,     \* the [shards, files, indexed] that inserts may have left before
          MaxSize,   \* places of a query's stream cache
          MaxChanges,  \* bound on the changes while queries run
          Nobody

Logical == {"and", "or"}

\* A condition is [node, root]: its nodes, [op, name, value, left, right], each after its
\* sides, and where it begins; 0 is nullptr.  A time is a number.
IsTree(tree) ==
  /\ tree.node \in Seq(Range(tree.node)) /\ tree.root \in 0..Len(tree.node)
  /\ \A n \in DOMAIN tree.node :
       LET node == tree.node[n] IN
       /\ DOMAIN node = {"op", "name", "value", "left", "right"}
       /\ node.op \in Logical => {node.left, node.right} \subseteq 0..n - 1
       /\ node.name = "time" => node.value \in Nat

\* The index blocks of a file: the series they are labelled with, the field, and for each
\* data block its points, of one series, which need not be that of the label.
Metas ==
  {meta \in [series : Series, field : Fields, entries : Seq(SUBSET Points)] :
     /\ meta.entries # <<>>
     /\ \A i \in DOMAIN meta.entries :
          /\ meta.entries[i] # {}
          /\ \A p \in meta.entries[i] : p.field = meta.field
          /\ \A p, r \in meta.entries[i] : p.series = r.series /\ (p.time = r.time => p = r)}

ShardOf(time) == time \div Day
Days == {ShardOf(p.time) : p \in Points}

\* The metas of the index blocks of a file are kept as they lie in it; of a spoilt file,
\* as they lay.
Files == [shard : Days, metas : Seq(Metas), spoilt : BOOLEAN]

ASSUME QueryAssumption ==
  /\ Day \in Nat \ {0} /\ MaxSize \in Nat \ {0}
  /\ Nobody \notin Queries
  /\ Series \subseteq Nat
  /\ IsFiniteSet(Points)
  /\ \A p \in Points : p.series \in Series /\ p.field \in Fields /\ p.time \in Nat
  /\ \A tree \in Trees : IsTree(tree)
  /\ \A past \in Pasts : past.shards \subseteq Days /\ past.files \in Seq(Files)

VARIABLES
  shards,      \* the shards of the table, with files or not yet
  indexed,     \* series in m_series_block and under their tags
  indexing,    \* the series create_index is inserting, or Nobody
  files,
  changes,     \* changes made so far
  m_mutex,     \* the query that holds the controller's mutex, or Nobody
  query,       \* what each query has computed
  m_row_nodes, \* rows, shared by all queries
  torn,        \* queries that ran while something they read was changed under them
  overlapped   \* queries that used m_row_nodes while another did

vars == <<shards, indexed, indexing, files, changes, m_mutex, query, m_row_nodes, torn, overlapped>>

\* Where there is no condition left: nullptr.
NoTree == [node |-> <<>>, root |-> 0]

\* index: of each shard loaded, the index blocks; rows: the iterator's map from times;
\* misled: it loaded the index of a spoilt file.
Asked == [pc |-> "idle", tree |-> NoTree, rest |-> NoTree, tags |-> {}, todo |-> {},
          series |-> {}, index |-> <<>>, used |-> {}, rows |-> {}, printed |-> {},
          indexedThen |-> {}, reached |-> {}, misled |-> FALSE]

Init ==
  /\ \E past \in Pasts : shards = past.shards /\ files = past.files /\ indexed = past.indexed
  /\ indexing = Nobody
  /\ changes = 0
  /\ m_mutex = Nobody
  /\ query = [q \in Queries |-> Asked]
  /\ m_row_nodes = {}
  /\ torn = {} /\ overlapped = {}

-----------------------------------------------------------------------------
(* the index and the files *)

Change == changes < MaxChanges /\ changes' = changes + 1

\* create_index looks whether the series is there and, in a second critical section,
\* inserts it; a repetition inserts what is there.
BeginIndex(s) ==
  /\ Change
  /\ indexing = Nobody
  /\ s \notin indexed
  /\ indexing' = s
  /\ torn' = torn \cup {q \in Queries : query[q].pc = "looking"}
  /\ UNCHANGED <<shards, indexed, files, m_mutex, query, m_row_nodes, overlapped>>

EndIndex ==
  /\ indexing # Nobody
  /\ indexed' = indexed \cup {indexing}
  /\ indexing' = Nobody
  /\ UNCHANGED <<shards, files, changes, m_mutex, query, m_row_nodes, torn, overlapped>>

FilesOf(shard) == {f \in DOMAIN files : files[f].shard = shard}

\* A point of a new day is written, to memory.
AddShard(shard) ==
  /\ Change
  /\ m_mutex = Nobody
  /\ shard \notin shards
  /\ shards' = shards \cup {shard}
  /\ UNCHANGED <<indexed, indexing, files, m_mutex, query, m_row_nodes, torn, overlapped>>

CurrentFile(shard) == CHOOSE f \in FilesOf(shard) : \A g \in FilesOf(shard) : g <= f

\* A file with a header and the footer 0 is made the shard's current file.  The entries in
\* memory, if there are any, were written to the one before it where its index lies.
CreateFile(shard) ==
  /\ Change
  /\ shard \in shards
  /\ \E spoils \in BOOLEAN :
       /\ spoils => FilesOf(shard) # {}
       /\ files' = Append([f \in DOMAIN files |->
                             [files[f] EXCEPT !.spoilt = @ \/ (spoils /\ f = CurrentFile(shard))]],
                          [shard |-> shard, metas |-> <<>>, spoilt |-> FALSE])
  /\ UNCHANGED <<shards, indexed, indexing, m_mutex, query, m_row_nodes, torn, overlapped>>

Indexed(f) == {files[f].metas[i] : i \in DOMAIN files[f].metas}
BlocksOn(f) == UNION {Range(meta.entries) : meta \in Indexed(f)}
Blocks == UNION {BlocksOn(f) : f \in DOMAIN files}
Flushed == UNION Blocks

\* Points of a field in at most two data blocks, each of one series and one shard.
Cuts(x) ==
  LET points == {p \in Points \ Flushed : p.field = x}
      Together(p, r) == p.series = r.series /\ ShardOf(p.time) = ShardOf(r.time)
      blocks == {b \in SUBSET points :
                   b # {} /\ \A p, r \in b : Together(p, r) /\ (p.time = r.time => p = r)}
  IN {<<b>> : b \in blocks} \cup {<<a, b>> : a \in blocks, b \in blocks}

\* An index block, with an entry for each data block of a field, is written to the current
\* file of the shard of the first and the footer leads to it.  Its label is the series last
\* written to the field.
WriteIndex(s, x, shard) ==
  /\ Change
  /\ FilesOf(shard) # {}
  /\ \E p \in Points : p.series = s /\ p.field = x
  /\ \E entries \in Cuts(x) :
       /\ Len(entries) = 2 => entries[1] \cap entries[2] = {}
       /\ \A p \in entries[1] : ShardOf(p.time) = shard
       /\ files' = [files EXCEPT ![CurrentFile(shard)].metas =
                      <<[series |-> s, field |-> x, entries |-> entries]>> \o @]
  /\ UNCHANGED <<shards, indexed, indexing, m_mutex, query, m_row_nodes, torn, overlapped>>

-----------------------------------------------------------------------------
(* conditions *)

Comparisons == {">", "<", "==", ">=", "<=", "!="}

Compare(op, a, b) ==
  CASE op = ">" -> a > b
    [] op = "<" -> a < b
    [] op = ">=" -> a >= b
    [] op = "<=" -> a <= b
    [] op = "==" -> a = b
    [] op = "!=" -> a # b
    [] OTHER -> FALSE

TagKeys == {tag.key : tag \in UNION {TagsOf[s] : s \in indexed}}

\* is_tag_comparison; the lexer's equality is "=".
IsTag(node) == node.op = "=" /\ node.name \in TagKeys

\* The nodes of a condition: those in every set that has the root and the sides of what
\* it has.
Parts(tree) ==
  LET Closed(S) == \A n \in S : tree.node[n].op \in Logical =>
                     {tree.node[n].left, tree.node[n].right} \subseteq S \cup {0}
  IN {n \in DOMAIN tree.node :
        \A S \in SUBSET DOMAIN tree.node : tree.root \in S \cup {0} /\ Closed(S) => n \in S}

\* The tags of a condition, wherever they are in it.
TagsIn(tree) ==
  {[key |-> tree.node[n].name, value |-> tree.node[n].value]
     : n \in {m \in Parts(tree) : IsTag(tree.node[m])}}

\* rebuild_tree_without_tags: kept[n] is what is left of the node and all below it, 0
\* where nothing is, and one side alone where nothing is left of the other.
Without(tree) ==
  LET kept[n \in 0..Len(tree.node)] ==
        IF n = 0 THEN 0
        ELSE LET node == tree.node[n] IN
             IF IsTag(node) THEN 0
             ELSE IF node.op \notin Logical THEN n
             ELSE IF kept[node.left] = 0 THEN kept[node.right]
             ELSE IF kept[node.right] = 0 THEN kept[node.left]
             ELSE n
      Kept(node) == IF node.op \in Logical
                    THEN [node EXCEPT !.left = kept[@], !.right = kept[@]] ELSE node
  IN [node |-> [n \in DOMAIN tree.node |-> Kept(tree.node[n])], root |-> kept[tree.root]]

\* Mutant of EvaluateShard: a shard is taken for its first second.
EvaluateShard_First(node, shard) == node.name = "time" /\ Compare(node.op, shard * Day, node.value)

\* evaluate_shard: may a time of the shard satisfy the comparison?
EvaluateShard(node, shard) ==
  LET start == shard * Day  end == start + Day - 1  t == node.value IN
  /\ node.name = "time"
  /\ CASE node.op = ">"  -> t < end
       [] node.op = "<"  -> t > start
       [] node.op = ">=" -> t <= end
       [] node.op = "<=" -> t >= start
       [] node.op = "==" -> start <= t /\ t <= end
       [] node.op = "!=" -> t < start \/ end < t

\* evaluate_condition
Condition(tree, shard) ==
  LET holds[n \in 0..Len(tree.node)] ==
        \/ n = 0
        \/ LET node == tree.node[n] IN
           \/ node.op \in Comparisons /\ EvaluateShard(node, shard)
           \/ node.op = "and" /\ holds[node.left] /\ holds[node.right]
           \/ node.op = "or" /\ (holds[node.left] \/ holds[node.right])
  IN holds[tree.root]

\* Has the shard a time within each of the bounds of a condition?
Reaches(tree, shard) ==
  \A n \in Parts(tree) :
    tree.node[n].op \in Comparisons =>
      \E t \in shard * Day..shard * Day + Day - 1 : Compare(tree.node[n].op, t, tree.node[n].value)

\* evaluate_expr_node_for_row: "yes", "no", or "throws" for an operator
\* compare_timestamps does not know.
Verdict(tree, row) ==
  LET Answer(b) == IF b THEN "yes" ELSE "no"
      verdict[n \in 0..Len(tree.node)] ==
        IF n = 0 THEN "yes"
        ELSE LET node == tree.node[n] IN
             CASE node.op = "and" ->
                    IF verdict[node.left] = "yes" THEN verdict[node.right] ELSE verdict[node.left]
               [] node.op = "or" ->
                    IF verdict[node.left] = "no" THEN verdict[node.right] ELSE verdict[node.left]
               [] node.op \notin Logical /\ node.name = "time" ->
                    IF node.op \in Comparisons THEN Answer(Compare(node.op, row.time, node.value))
                    ELSE "throws"
               [] OTHER ->
                    Answer(/\ node.name \in DOMAIN row.columns
                           /\ Compare(node.op, row.columns[node.name], node.value))
  IN verdict[tree.root]

-----------------------------------------------------------------------------
(* a query: what it looks up *)

Ask(q, tree) ==
  /\ query[q].pc = "idle"
  /\ query' = [query EXCEPT ![q] = [Asked EXCEPT !.pc = "filter", !.tree = tree,
                                                 !.rest = Without(tree), !.tags = TagsIn(tree)]]
  /\ UNCHANGED <<shards, indexed, indexing, files, changes, m_mutex, m_row_nodes, torn, overlapped>>

\* filter_shards; the shards are sorted, and taken in their order from then on.
FilterShards(q) ==
  /\ query[q].pc = "filter"
  /\ m_mutex = Nobody
  /\ query' = [query EXCEPT ![q].todo = {s \in shards : Condition(query[q].rest, s)},
                            ![q].reached = {s \in shards : Reaches(query[q].rest, s)},
                            ![q].pc = "lookup"]
  /\ UNCHANGED <<shards, indexed, indexing, files, changes, m_mutex, m_row_nodes, torn, overlapped>>

\* get_series_key_by_tag inserts what it does not find, without the lock.
BeginLookup(q) ==
  /\ query[q].pc = "lookup"
  /\ query' = [query EXCEPT ![q].pc = "looking"]
  /\ LET others == {r \in Queries \ {q} : query[r].pc = "looking"}
     IN torn' = torn \cup others \cup (IF others # {} \/ indexing # Nobody THEN {q} ELSE {})
  /\ UNCHANGED <<shards, indexed, indexing, files, changes, m_mutex, m_row_nodes, overlapped>>

\* Mutant of Intersection: the series of any of the tags.
Intersection_Union(tags) == {s \in indexed : TagsOf[s] \cap tags # {}}

\* The series with all the tags, and none where there are no tags.
Intersection(tags) == {s \in indexed : tags # {} /\ tags \subseteq TagsOf[s]}

\* A torn lookup may find anything.
EndLookup(q) ==
  /\ query[q].pc = "looking"
  /\ \E series \in SUBSET indexed :
       /\ q \notin torn => series = Intersection(query[q].tags)
       /\ query' = [query EXCEPT ![q].series = series, ![q].pc = "build",
                                 ![q].indexedThen = indexed]
  /\ UNCHANGED <<shards, indexed, indexing, files, changes, m_mutex, m_row_nodes, torn, overlapped>>

-----------------------------------------------------------------------------
(* a query: the iterator tree *)

\* create_iterator_tree begins.
BeginBuild(q) ==
  /\ query[q].pc = "build"
  /\ m_mutex = Nobody
  /\ m_mutex' = q
  /\ query' = [query EXCEPT ![q].pc = "load"]
  /\ UNCHANGED <<shards, indexed, indexing, files, changes, m_row_nodes, torn, overlapped>>

\* load_tsm_index_entry: the index blocks of the shard's files, each with where it lies.
Loaded(shard) ==
  UNION {{[file |-> f, place |-> i, series |-> files[f].metas[i].series,
           field |-> files[f].metas[i].field, entries |-> files[f].metas[i].entries]
            : i \in DOMAIN files[f].metas} : f \in FilesOf(shard)}

\* One place more than the cache has is asked for.
Overfull(paths) == Cardinality(paths) > MaxSize

Earliest(some) == CHOOSE s \in some : \A r \in some : s <= r

NextUsed(q) == query[q].used \cup FilesOf(Earliest(query[q].todo))

Spoilt(shard) == {f \in FilesOf(shard) : files[f].spoilt}

\* The index of one shard is loaded.  Of a spoilt file some index blocks may be left, and
\* what lies over the others misleads the query.
LoadShard(q) ==
  /\ query[q].pc = "load"
  /\ query[q].todo # {}
  /\ ~Overfull(NextUsed(q))
  /\ LET shard == Earliest(query[q].todo) IN
     \E lost \in SUBSET {b \in Loaded(shard) : b.file \in Spoilt(shard)} :
       query' = [query EXCEPT ![q].todo = @ \ {shard}, ![q].used = NextUsed(q),
                              ![q].misled = @ \/ Spoilt(shard) # {},
                              ![q].index = [s \in DOMAIN @ \cup {shard} |->
                                              IF s = shard THEN Loaded(shard) \ lost ELSE @[s]]]
  /\ UNCHANGED <<shards, indexed, indexing, files, changes, m_mutex, m_row_nodes, torn, overlapped>>

\* The cache is full: the query waits for itself, and m_mutex stays locked.
LoadHangs(q) ==
  /\ query[q].pc = "load"
  /\ query[q].todo # {}
  /\ Overfull(NextUsed(q))
  /\ query' = [query EXCEPT ![q].pc = "hung"]
  /\ UNCHANGED <<shards, indexed, indexing, files, changes, m_mutex, m_row_nodes, torn, overlapped>>

\* The footer of a file is still 0 and its header and data blocks are read as index
\* blocks, or what was written over one is; past the end of the file tellg is -1 for ever.
LoadLoops(q) ==
  /\ query[q].pc = "load"
  /\ query[q].todo # {}
  /\ \E f \in FilesOf(Earliest(query[q].todo)) : files[f].metas = <<>> \/ files[f].spoilt
  /\ query' = [query EXCEPT ![q].pc = "looping"]
  /\ UNCHANGED <<shards, indexed, indexing, files, changes, m_mutex, m_row_nodes, torn, overlapped>>

\* Mutant of EndBuild: the mutex stays locked.
EndBuild_Locked(q) ==
  /\ query[q].pc = "load"
  /\ query[q].todo = {}
  /\ query' = [query EXCEPT ![q].pc = "read"]
  /\ UNCHANGED <<shards, indexed, indexing, files, changes, m_mutex, m_row_nodes, torn, overlapped>>

\* The tree is built; the result is cleared and has_next reads the first shard.
EndBuild(q) ==
  /\ query[q].pc = "load"
  /\ query[q].todo = {}
  /\ m_mutex' = Nobody
  /\ query' = [query EXCEPT ![q].pc = "read"]
  /\ UNCHANGED <<shards, indexed, indexing, files, changes, m_row_nodes, torn, overlapped>>

\* next reads the data block of the first entry of an index block only.
FirstBlock(b) == b.entries[1]
TimesOf(b) == {p.time : p \in FirstBlock(b)}

\* In the order they are read for a field: by series, then as they were loaded.
Precedes(a, b) ==
  \/ a.series < b.series
  \/ a.series = b.series /\ (a.file < b.file \/ (a.file = b.file /\ a.place < b.place))

\* The index blocks of a tag set iterator.
SeriesBlocks(index, s, x) == {b \in index : b.series = s /\ b.field = x}

\* TagSetIterator::next goes on behind a block only if the block has fewer points than
\* there are blocks.
BlocksRead(blocks) ==
  {b \in blocks : \A a \in blocks : Precedes(a, b) => Cardinality(FirstBlock(a)) < Cardinality(blocks)}

\* Its has_next goes on promising what next does not give.
Stalls(blocks) == BlocksRead(blocks) # blocks

\* The index blocks whose first data block load_curr_shard_data reads: for each field
\* those of the series up to the first that stalls.
ReadFor(q, index) ==
  {b \in index :
     /\ b.series \in query[q].series
     /\ b.field \in Fields
     /\ b \in BlocksRead(SeriesBlocks(index, b.series, b.field))
     /\ \A s \in query[q].series : s < b.series => ~Stalls(SeriesBlocks(index, s, b.field))}

\* What add_data_point left for a field and a time: the value of the last block read.
Column(read, x, t) ==
  LET with == {b \in read : b.field = x /\ t \in TimesOf(b)}
      last == CHOOSE b \in with : \A a \in with : a = b \/ Precedes(a, b)
  IN (CHOOSE p \in FirstBlock(last) : p.time = t).value

\* The rows of what was read, by time; one row for all series.
RowsOf(read) ==
  {[time |-> t,
    columns |-> [x \in {b.field : b \in {a \in read : t \in TimesOf(a)}} |-> Column(read, x, t)]]
     : t \in UNION {TimesOf(b) : b \in read}}

\* What load_curr_shard_data reads of the first shard.
FirstShard(q) ==
  IF DOMAIN query[q].index = {} THEN {}
  ELSE ReadFor(q, query[q].index[Earliest(DOMAIN query[q].index)])

\* The data blocks are read with streams that are not released: a second one from the
\* same file needs a new stream.
Rereads(read) == \E a, b \in read : a # b /\ a.file = b.file

ReadHangs(read, used) == Cardinality(used) = MaxSize /\ Rereads(read)

\* The result is cleared, has_next moves to the first shard and reads it whole.
ReadShard(q) ==
  /\ query[q].pc = "read"
  /\ LET read == FirstShard(q)
         hangs == ReadHangs(read, query[q].used)
     IN query' = [query EXCEPT ![q].pc = IF hangs THEN "hung" ELSE "rows",
                               ![q].rows = IF hangs THEN {} ELSE RowsOf(read),
                               ![q].used = {}, ![q].series = {}]
  /\ m_row_nodes' = {}
  /\ LET others == {r \in Queries \ {q} : query[r].pc = "rows"}
     IN overlapped' = overlapped \cup others \cup (IF others # {} THEN {q} ELSE {})
  /\ UNCHANGED <<shards, indexed, indexing, files, changes, m_mutex, torn>>

Kept(tree, rows) == {row \in rows : Verdict(tree, row) = "yes"}

\* The rows the condition holds for are kept and printed.  What compare_timestamps throws
\* ends the task, and nothing is printed.  Then has_next is false, whether or not there
\* are other shards.
Answer(q) ==
  /\ query[q].pc = "rows"
  /\ LET rows == query[q].rows IN
     IF \E row \in rows : Verdict(query[q].rest, row) = "throws"
     THEN /\ query' = [query EXCEPT ![q].rows = {}, ![q].pc = "failed"]
          /\ UNCHANGED m_row_nodes
     ELSE /\ m_row_nodes' = m_row_nodes \cup Kept(query[q].rest, rows)
          /\ query' = [query EXCEPT ![q].rows = {}, ![q].printed = m_row_nodes', ![q].pc = "done"]
  /\ UNCHANGED <<shards, indexed, indexing, files, changes, m_mutex, torn, overlapped>>

-----------------------------------------------------------------------------

QueryStep(q) ==
  \/ FilterShards(q) \/ BeginLookup(q) \/ EndLookup(q)
  \/ BeginBuild(q) \/ LoadShard(q) \/ LoadHangs(q) \/ LoadLoops(q) \/ EndBuild(q)
  \/ ReadShard(q) \/ Answer(q)

Next ==
  \/ \E s \in Series : BeginIndex(s)
  \/ EndIndex
  \/ \E shard \in Days : AddShard(shard) \/ CreateFile(shard)
  \/ \E s \in Series, x \in Fields, shard \in Days : WriteIndex(s, x, shard)
  \/ \E q \in Queries : (\E tree \in Trees : Ask(q, tree)) \/ QueryStep(q)

Spec == Init /\ [][Next]_vars

\* The threads of the pool run.
FairSpec == Spec /\ WF_vars(EndIndex) /\ \A q \in Queries : WF_vars(QueryStep(q))

-----------------------------------------------------------------------------
(* properties *)

\* A query that ended undisturbed, and read no index that was written over.
Sound(q) == query[q].pc = "done" /\ q \notin torn \cup overlapped /\ ~query[q].misled

\* The series a query is about: those that had all its tags when it looked them up.
About(q, s) == s \in query[q].indexedThen /\ query[q].tags \subseteq TagsOf[s]

\* Points of a field that the files give to the series a query is about.  The label of an
\* index block gives them: they are of that series only if it is the label's too.
GivenFor(q, x) ==
  {p \in Points :
     \E f \in DOMAIN files : \E i \in DOMAIN files[f].metas :
       LET meta == files[f].metas[i]
       IN /\ About(q, meta.series) /\ meta.field = x
          /\ \E j \in DOMAIN meta.entries : p \in meta.entries[j]}

\* Every value a query prints is that of a point of the field and of the time of its row,
\* flushed under a label that has every tag of the condition, and the row passes the rest
\* of the condition.
RowsWereFlushed ==
  \A q \in Queries : Sound(q) =>
    \A row \in query[q].printed :
      /\ Verdict(query[q].rest, row) = "yes"
      /\ \A x \in DOMAIN row.columns :
           \E p \in GivenFor(q, x) : p.time = row.time /\ p.field = x /\ p.value = row.columns[x]

\* The conditions a shard can be judged by: bounds on the time, and nothing else.
Bounds(tree) ==
  \A n \in Parts(tree) :
    LET node == tree.node[n]
    IN node.op = "and" \/ (node.op \in Comparisons \ {"!="} /\ node.name = "time")

Conjunctive(tree) == \A n \in Parts(tree) : tree.node[n].op \in Logical => tree.node[n].op = "and"

\* The blocks a query is about, of those loaded of a shard.
BlocksFor(q, shard) == {b \in query[q].index[shard] : About(q, b.series)}

PointsIn(blocks) == UNION UNION {Range(b.entries) : b \in blocks}

\* The series last written to a field was that of all the data blocks then indexed.
RightlyLabelled(blocks) ==
  \A b \in blocks : \A i \in DOMAIN b.entries : \A p \in b.entries[i] : p.series = b.series

\* Data as a query can read it: one data block per index block, the blocks of a series
\* and field smaller than their number, one value for a time and a field.
Readable(blocks) ==
  /\ \A b \in blocks : Len(b.entries) = 1
  /\ \A b \in blocks :
       LET all == SeriesBlocks(blocks, b.series, b.field)
       IN Cardinality(all) > 1 => Cardinality(FirstBlock(b)) < Cardinality(all)
  /\ \A p, r \in PointsIn(blocks) : p.time = r.time /\ p.field = r.field => p.value = r.value

\* A query by tags and bounds on the time that has ended undisturbed.
Plain(q) ==
  Sound(q) /\ query[q].tags # {} /\ Conjunctive(query[q].tree) /\ Bounds(query[q].rest)

InBounds(q, p) == Verdict(query[q].rest, [time |-> p.time, columns |-> <<>>]) = "yes"

\* The points a query asks for, of those loaded of a shard.
Wanted(q, shard) ==
  {p \in PointsIn(query[q].index[shard]) : About(q, p.series) /\ InBounds(q, p)}

\* Points in rows by their time, with one value for each field.
Aligned(points) ==
  LET At(t) == {p \in points : p.time = t}
  IN {[time |-> t, columns |-> [x \in {p.field : p \in At(t)} |->
                                  (CHOOSE p \in At(t) : p.field = x).value]]
        : t \in {p.time : p \in points}}

\* A shard as a query can answer for it.
Answerable(q, shard) ==
  RightlyLabelled(query[q].index[shard]) /\ Readable(BlocksFor(q, shard))

\* A query by tags and times loads every shard its times reach, and gives exactly the
\* points of the earliest, aligned by their time, of the series with the tags.
AnswerIsExact ==
  \A q \in Queries : Plain(q) =>
    /\ query[q].reached = DOMAIN query[q].index
    /\ IF query[q].reached = {} THEN query[q].printed = {}
       ELSE LET shard == Earliest(query[q].reached)
            IN Answerable(q, shard) => query[q].printed = Aligned(Wanted(q, shard))

\* iterator.cpp:253: when a shard has no more data, RootIterator changes to the next
\* ShardIterator.  So a query gives what is flushed in every shard its times reach.
EveryShardIsRead ==
  \A q \in Queries : Plain(q) =>
    \A shard \in DOMAIN query[q].index : \A p \in Wanted(q, shard) :
      Answerable(q, shard) => \E row \in query[q].printed : row.time = p.time

\* A query ends, if the engine never has as many files as a stream cache has places and
\* none is read before its first index block is written.
EveryQueryEnds ==
  (/\ [](Len(files) < MaxSize)
   /\ [](\A q \in Queries : query[q].pc # "looping"))
  => \A q \in Queries : query[q].pc # "idle" ~> query[q].pc \in {"done", "failed"}

=============================================================================
