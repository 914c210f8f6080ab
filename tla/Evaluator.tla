------------------------------- MODULE Evaluator -------------------------------
(***************************************************************************)
(* The loop of the SQL front end (eval_repl.cpp): a line is parsed, what   *)
(* the parser made of it is evaluated into an execution plan, which is a   *)
(* root with one child, and the plan is executed.  One thread does it all. *)
(*                                                                         *)
(* The parser is module Statement's; here a program is the nodes of its    *)
(* trees in the order eval comes to them, operands before what they belong *)
(* to.  A null pointer is None.  Engines are seen by the calls that reach  *)
(* them.                                                                   *)
(***************************************************************************)
EXTENDS Integers, Sequences, FiniteSets

CONSTANTS
  Lines,        \* what a user may type
  Parsed,       \* of a line: [nodes, errors, stop]
  StreamLimit,  \* how many open streams m_io_file keeps
  MaxLines      \* how many lines are typed

Engines == {"tsm", "clt"}

\* A node that is asked is an operand: what it gives is used, null or not.  A where that
\* is only converted is kept in its node, with the places of operands in it.
IsNode(node) ==
  /\ node.asked \in BOOLEAN
  /\ node.type = "create" => node.what \in {"database", "table"}
                             /\ (node.what = "table" => node.engine \in Engines)
  /\ node.type = "select" =>
       \A n \in 1..Len(node.where) :
         node.where[n].type = "infix" =>
           {node.where[n].left, node.where[n].right} \subseteq 1..n - 1

IsProgram(nodes) ==
  /\ nodes \in Seq({nodes[k] : k \in DOMAIN nodes})
  /\ \A k \in DOMAIN nodes : IsNode(nodes[k])

ASSUME EvaluatorAssumption ==
  /\ DOMAIN Parsed = Lines /\ \A text \in Lines : IsProgram(Parsed[text].nodes)
  /\ StreamLimit \in Nat

VARIABLES
  pc,              \* "prompt", "eval", "execute", "looping", "crashed", "hung" or "bye"
  line, program,   \* the line read last, and its nodes
  lines,           \* the databases that exist: what their sys-metadata says
  m_tab_eng_map,   \* the tables of the databases that are loaded, with their engines
  m_io_file,       \* the modes of the streams kept open, by the database they belong to
  m_curr_db_name,  \* the database the evaluator uses
  m_current_db,    \* the database the plan's nodes use
  child,           \* the root's child
  calls,           \* history: the calls that reached an engine
  strayed, lost,   \* history: tables created while the two differed; was a use replaced?
  unnoticed,       \* history: databases whose tables were read for no plan that is executed
  typed            \* lines typed

replVars == <<pc, line, program, lines, m_tab_eng_map, m_io_file, m_curr_db_name, m_current_db,
              child, calls, strayed, lost, unnoticed, typed>>

Changed(f, x, y) == [z \in DOMAIN f \cup {x} |-> IF z = x THEN y ELSE f[z]]

None == [type |-> "none"]
NoDatabase == ""

\* Names of directories that are no databases: they have no sys-metadata.
Directories == {"", ".", "..", "/"}

-----------------------------------------------------------------------------
(* the evaluator: w is what it works on *)

\* values: the types of what eval has returned and nobody has used; ended: "no", "error" or
\* "crashed" or "hung".
World == [lines |-> lines, map |-> m_tab_eng_map, io |-> m_io_file, curr |-> m_curr_db_name,
          child |-> None, strayed |-> strayed, lost |-> lost, unnoticed |-> unnoticed,
          values |-> <<>>, ended |-> "no"]

Gives(w, type) == [w EXCEPT !.values = Append(@, type)]
Crash(w) == [w EXCEPT !.ended = "crashed"]
Hang(w) == [w EXCEPT !.ended = "hung"]

\* is_error: an error ends the program.
Error(w) == [w EXCEPT !.ended = "error"]

\* Null is returned: whoever asks an operand whether it is an error follows the pointer.
GivesNull(node, w) == IF node.asked THEN Crash(w) ELSE w

\* root->set_child: the child there was is never executed.
SetChild(w, node) ==
  LET use == w.child.type = "use"
  IN [w EXCEPT !.child = node,
               !.lost = @ \/ use,
               !.unnoticed = IF use /\ w.child.loads # {} THEN @ \cup {w.child.db} ELSE @]

TablesOf(f, db) == IF db \in DOMAIN f THEN f[db] ELSE {}
Known(w, db) == TablesOf(w.map, db) # {}

\* get_file_stream, of a database's sys-metadata: to make room the thread waits for the
\* mutex it holds, and the stream of a file that is not there is null.
GetStream(w, db, mode) ==
  CASE db \in DOMAIN w.io /\ w.io[db] = mode -> w
    [] ~(db \in DOMAIN w.io /\ w.io[db] = mode) /\ Cardinality(DOMAIN w.io) >= StreamLimit -> Hang(w)
    [] OTHER ->
         IF db \in DOMAIN w.lines THEN [w EXCEPT !.io = Changed(@, db, mode)] ELSE Crash(w)

\* load_database_metadata
LoadMetadata(w, db) ==
  LET r == GetStream(w, db, "") IN
  CASE Known(w, db) -> w
    [] ~Known(w, db) /\ r.ended # "no" -> r
    [] OTHER -> [r EXCEPT !.map = Changed(@, db, w.lines[db])]

\* What it returns, the tables that are new, is dropped.
LoadForNobody(w, db) ==
  LET r == LoadMetadata(w, db)
  IN IF Known(r, db) /\ ~Known(w, db) THEN [r EXCEPT !.unnoticed = @ \cup {db}] ELSE r

\* An option shows nothing here: only the metadata is read, and there is no plan.
EvalShow(node, w) ==
  LET r == IF node.what = "option" /\ node.db # NoDatabase THEN LoadForNobody(w, node.db) ELSE w IN
  CASE node.what # "option" ->
         Gives(SetChild(w, [type |-> "show", what |-> node.what]), "show")
    [] node.what = "option" /\ r.ended # "no" -> r
    [] OTHER -> GivesNull(node, SetChild(r, None))

\* Any directory will do.  The engines are told of the tables when they are read for the
\* first time.
EvalUse(node, w) ==
  LET loads == IF Known(w, node.db) THEN {} ELSE {t[2] : t \in w.lines[node.db]}
      r == LoadMetadata([w EXCEPT !.curr = node.db], node.db)
      exists == node.db \in DOMAIN w.lines \cup Directories IN
  CASE ~exists -> GivesNull(node, SetChild(w, None))
    [] exists /\ r.ended # "no" -> r
    [] OTHER -> Gives(SetChild(r, [type |-> "use", db |-> node.db, loads |-> loads]), "use")

\* A database that is there stays as it is; a table is added to its file and to the map.
Created(node, w) ==
  LET t == <<node.name, node.engine>> IN
  CASE node.what = "database" ->
         [w EXCEPT !.lines = IF node.name \in DOMAIN @ \cup Directories THEN @
                             ELSE Changed(@, node.name, {})]
    [] OTHER ->
         [w EXCEPT !.lines = Changed(@, w.curr, TablesOf(@, w.curr) \cup {t}),
                   !.map = Changed(@, w.curr, TablesOf(@, w.curr) \cup {t}),
                   !.strayed = IF w.curr = m_current_db THEN @ ELSE @ \cup {<<w.curr, t>>}]

\* Null is not expected.  The type of a CreateNode is never set: it is zeroed memory,
\* OBJECT_ERROR.
EvalCreate(node, w) ==
  LET exists == \E u \in TablesOf(w.map, w.curr) : u[1] = node.name
      null == node.name = "" \/ (node.what = "table" /\ (w.curr = NoDatabase \/ exists))
      r == IF node.what = "table" THEN GetStream(w, w.curr, "append") ELSE w IN
  CASE null -> Crash(w)
    [] ~null /\ r.ended # "no" -> r
    [] OTHER -> Error(SetChild(Created(node, r), [type |-> "create", what |-> node.what,
                                                  name |-> node.name, engine |-> node.engine]))

\* convert_to_new_tree follows the operands of an operator, which may be null.
Converts(where) ==
  LET converts[n \in 1..Len(where)] ==
        where[n].type = "infix" =>
          \A m \in {where[n].left, where[n].right} : where[m].type # "none" /\ converts[m]
  IN where # <<>> => converts[Len(where)]

EvalSelect(node, w) ==
  LET r == IF node.db = NoDatabase THEN w ELSE LoadForNobody(w, node.db)
      db == IF w.curr = NoDatabase THEN node.db ELSE w.curr
      engines == {t[2] : t \in {u \in TablesOf(r.map, db) : u[1] = node.table}} IN
  CASE ~Converts(node.where) -> Crash(w)
    [] Converts(node.where) /\ r.ended # "no" -> r
    [] OTHER ->
         IF engines = {} THEN GivesNull(node, r)
         ELSE Gives(SetChild(r, [type |-> IF "tsm" \in engines THEN "query" ELSE "scan"]), "plan")

StringOperators == {"=", "<=", ">=", "<", ">", "and", "or"}

\* The last values, and those before them.
Top(w, n) == SubSeq(w.values, Len(w.values) - n + 1, Len(w.values))
Popped(w, n) == [w EXCEPT !.values = SubSeq(@, 1, Len(@) - n)]

EvalInfix(node, w) ==
  IF Top(w, 2) = <<"string", "string">> /\ node.op \in StringOperators
  THEN Gives(Popped(w, 2), "string") ELSE Error(w)

EvalPrefix(w) == IF Top(w, 1) = <<"integer">> THEN w ELSE Error(w)

\* The condition of a system statement is taken for an operator; its operands have been
\* evaluated.
EvalSystem(node, w) ==
  LET r == IF node.where = "infix" THEN Popped(w, 2) ELSE w
  IN IF node.where = "other" THEN Crash(w) ELSE Gives(SetChild(r, [type |-> "system"]), "plan")

\* A value is taken for every field.
EvalInsert(node, w) ==
  IF node.values < node.fields THEN Crash(w) ELSE Gives(SetChild(w, [type |-> "insert"]), "plan")

Eval(node, w) ==
  CASE node.type \in {"string", "integer", "float", "null"} -> Gives(w, node.type)
    [] node.type = "infix" -> EvalInfix(node, w)
    [] node.type = "prefix" -> EvalPrefix(w)
    [] node.type = "show" -> EvalShow(node, w)
    [] node.type = "use" -> EvalUse(node, w)
    [] node.type = "create" -> EvalCreate(node, w)
    [] node.type = "select" -> EvalSelect(node, w)
    [] node.type = "system" -> EvalSystem(node, w)
    [] node.type = "insert" -> EvalInsert(node, w)
    [] OTHER -> Crash(w)   \* a null pointer

\* eval_program: up to the first error.
EvalProgram(nodes, w) ==
  LET after[k \in 0..Len(nodes)] ==
        IF k = 0 THEN w
        ELSE IF after[k - 1].ended = "no" THEN Eval(nodes[k], after[k - 1]) ELSE after[k - 1]
  IN after[Len(nodes)]

-----------------------------------------------------------------------------
(* the loop *)

\* The databases there are: one with a table of each engine, and one without tables.
Old == [a |-> {<<"t", "tsm">>, <<"u", "clt">>}, b |-> {}]

ReplInit ==
  /\ pc = "prompt"
  /\ line = <<>> /\ program = <<>>
  /\ lines = Old
  /\ m_tab_eng_map = <<>> /\ m_io_file = <<>>
  /\ m_curr_db_name = NoDatabase /\ m_current_db = NoDatabase
  /\ child = None
  /\ calls = {} /\ strayed = {} /\ lost = FALSE /\ unnoticed = {}
  /\ typed = 0

\* A line is read and parsed.  Where parse_insert returned anything, the program may be
\* dropped with its errors or not survive.
Read(text) ==
  /\ pc = "prompt"
  /\ typed < MaxLines
  /\ typed' = typed + 1
  /\ line' = text
  /\ \E p \in {Parsed[text]} :
       /\ program' = IF p.errors THEN <<>> ELSE p.nodes
       /\ \/ p.stop = "loops" /\ pc' = "looping"
          \/ p.stop = "undefined" /\ pc' \in {"prompt", "crashed"}
          \/ p.stop = "no" /\ pc' = IF p.errors THEN "prompt" ELSE "eval"
  /\ UNCHANGED <<lines, m_tab_eng_map, m_io_file, m_curr_db_name, m_current_db, child, calls,
                 strayed, lost, unnoticed>>

Evaluate ==
  /\ pc = "eval"
  /\ LET w == EvalProgram(program, World) IN
       /\ lines' = w.lines
       /\ m_tab_eng_map' = w.map /\ m_io_file' = w.io
       /\ m_curr_db_name' = w.curr
       /\ child' = w.child
       /\ strayed' = w.strayed /\ lost' = w.lost /\ unnoticed' = w.unnoticed
       /\ pc' = IF w.ended \in {"crashed", "hung"} THEN w.ended ELSE "execute"
  /\ program' = <<>>
  /\ UNCHANGED <<line, m_current_db, calls, typed>>

\* Mutant of Executed: a use that loads nothing leaves the plan's database alone.
Executed_OnLoad(node) == node.type = "use" /\ node.loads # {}

Executed(node) == node.type = "use"

\* The calls execute_plan makes: show and use go to every engine, another node to the
\* engine it names, and only create names one.
CallsOf(node) ==
  CASE node.type = "show" ->
         {<<"show_table", e, m_current_db>> :
            e \in {e \in Engines : node.what = "table" /\ m_current_db # NoDatabase}}
    [] node.type = "use" -> {<<"load_database", e, node.db>> : e \in node.loads}
    [] node.type = "create" ->
         {<<"create_table", e, m_current_db, node.name>> : e \in {node.engine} \cap Engines}
    [] OTHER -> {}

Execute ==
  /\ pc = "execute"
  /\ calls' = calls \cup CallsOf(child)
  /\ m_current_db' = IF Executed(child) THEN child.db ELSE m_current_db
  /\ child' = None
  /\ pc' = "prompt"
  /\ UNCHANGED <<line, program, lines, m_tab_eng_map, m_io_file, m_curr_db_name, strayed, lost,
                 unnoticed, typed>>

Exit ==
  /\ pc = "prompt"
  /\ pc' = "bye"
  /\ UNCHANGED <<line, program, lines, m_tab_eng_map, m_io_file, m_curr_db_name, m_current_db,
                 child, calls, strayed, lost, unnoticed, typed>>

ReplNext == (\E text \in Lines : Read(text)) \/ Evaluate \/ Execute \/ Exit

ReplSpec == ReplInit /\ [][ReplNext]_replVars

-----------------------------------------------------------------------------

\* Between two lines the evaluator and the plan's nodes use the same database, unless a
\* use was replaced by a later statement of its line before it was executed.
DatabasesAgree == pc = "prompt" /\ m_current_db # m_curr_db_name => lost

\* Between two lines the engine of every table in the map was told to load its database
\* or to create it there, unless the two databases differed when it was made, or the
\* database was read first by a show, by a select or by a use that was replaced: then a
\* later use finds it in the map and tells nobody.
RegisteredTableIsTold ==
  pc = "prompt" =>
    \A db \in DOMAIN m_tab_eng_map : \A t \in m_tab_eng_map[db] :
      \/ <<"load_database", t[2], db>> \in calls
      \/ <<"create_table", t[2], db, t[1]>> \in calls
      \/ <<db, t>> \in strayed
      \/ db \in unnoticed

\* Between two lines the evaluator, the plan and the engines know of the same databases
\* and tables, but for a replaced use, what was created after it, and databases that were
\* read for a statement that uses none.
PlanReachesEngines == DatabasesAgree /\ RegisteredTableIsTold

\* What is wrong with a node that ends the process: a null pointer, a null that is asked
\* for, a directory that is no database, a database that is named and perhaps not there, a
\* name that is empty, a table that may exist already, the place of an operator taken by
\* something else, a value that is missing.
MayCrash(node) ==
  \/ node.type \notin {"string", "integer", "float", "null", "infix", "prefix", "show", "use",
                       "create", "select", "system", "insert"}
  \/ node.type = "use" /\ (node.asked \/ node.db \in Directories)
  \/ node.type = "show" /\ node.what = "option" /\ (node.asked \/ node.db # NoDatabase)
  \/ node.type = "create" /\ (node.what = "table" \/ node.name = "")
  \/ node.type = "select" /\ (node.asked \/ node.db # NoDatabase \/ ~Converts(node.where))
  \/ node.type = "system" /\ node.where = "other"
  \/ node.type = "insert" /\ node.values < node.fields

\* A node that opens the file of a database.
MayHang(node) ==
  \/ node.type = "use"
  \/ node.type = "show" /\ node.what = "option" /\ node.db # NoDatabase
  \/ node.type = "create" /\ node.what = "table"
  \/ node.type = "select" /\ node.db # NoDatabase

\* The process ends only in the parser of inserts or at such a node of the last line, and
\* it waits for itself only at a node that opens a file when all streams are taken.
CrashHasCause ==
  /\ pc = "crashed" =>
       \/ Parsed[line].stop = "undefined"
       \/ \E k \in DOMAIN Parsed[line].nodes : MayCrash(Parsed[line].nodes[k])
  /\ pc = "hung" =>
       /\ Cardinality(DOMAIN m_io_file) >= StreamLimit
       /\ \E k \in DOMAIN Parsed[line].nodes : MayHang(Parsed[line].nodes[k])

=============================================================================
