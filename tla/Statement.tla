------------------------------- MODULE Statement -------------------------------
(***************************************************************************)
(* The lexer and the parser of the SQL front end: a line is cut into       *)
(* tokens and parsed by precedence climbing.  What the loop does with the  *)
(* trees is module Evaluator.                                              *)
(*                                                                         *)
(* A line is a sequence of words, one for each token; TypeOf is what the   *)
(* lexer makes of a word.                                                  *)
(***************************************************************************)
EXTENDS Evaluator, SequencesExt

-----------------------------------------------------------------------------
(* the lexer *)

Keywords == {"null", "database", "databases", "table", "tables", "show", "use", "engine",
             "create", "insert", "into", "update", "select", "from", "where", "ttl", "and",
             "or", "tsm", "clt", "system"}
Reducers == {"sum", "count", "mean", "median", "min", "max", "mode", "stddev", "percentile",
             "first", "last"}
Signs == {"+", "-", "--", "*", "/", "%", ".", ",", "<", "<=", ">", ">=", "=", "(", ")", "EOF"}
Integral == {"7", "1702880186879347823"}
Fractions == {"7.5"}
Illegal == {";", "!"}

\* next_token: names and quoted texts are strings, whatever else is not known is illegal.
TypeOf(word) ==
  CASE word \in Keywords \cup Signs -> word
    [] word \in Reducers -> "reduce"
    [] word \in Integral -> "integer"
    [] word \in Fractions -> "float"
    [] word \in Illegal -> "illegal"
    [] OTHER -> "string"

\* Past the end of a line there is nothing but its end.
Tok(text, i) == IF i \in DOMAIN text THEN text[i] ELSE "EOF"
Is(text, i, type) == TypeOf(Tok(text, i)) = type

-----------------------------------------------------------------------------
(* the parser: at is where m_curr is *)

Precedence(word) ==
  CASE word \in {"and", "or"} -> 1
    [] word \in {"<", ">", "<=", ">=", "="} -> 2
    [] word \in {"+", "-"} -> 3
    [] word \in {"*", "/", "%"} -> 4
    [] OTHER -> 0
PREFIX == 5

Got(tree, at) == [tree |-> tree, at |-> at, errors |-> FALSE, stop |-> "no"]
Dropped(at) == Got(None, at)                           \* null, and no error is noted
Failed(at) == [Got(None, at) EXCEPT !.errors = TRUE]
Stopped(why) == [Got(None, 0) EXCEPT !.stop = why]

Leaf(text, i) == [type |-> TypeOf(text[i]), word |-> text[i]]
Infix(op, left, right) == [type |-> "infix", op |-> op, left |-> left, right |-> right]

ParseShow(text, i) ==
  CASE Is(text, i + 1, "databases") -> Got([type |-> "show", what |-> "database"], i + 1)
    [] Is(text, i + 1, "tables") -> Got([type |-> "show", what |-> "table"], i + 1)
    [] Is(text, i + 1, "string") ->
         LET dotted == Is(text, i + 2, ".")
             t == IF dotted THEN i + 3 ELSE i + 1 IN
         CASE dotted /\ ~Is(text, t, "string") -> Dropped(i + 2)
           [] (dotted => Is(text, t, "string")) /\ ~Is(text, t + 1, "--") -> Dropped(t)
           [] OTHER -> Got([type |-> "show", what |-> "option",
                            db |-> IF dotted THEN Tok(text, i + 1) ELSE NoDatabase], t + 2)
    [] OTHER -> Dropped(Len(text) + 1)

ParseUse(text, i) == Got([type |-> "use", db |-> Tok(text, i + 1)], i + 1)

\* The fields of a table in pairs; where the parenthesis is closed, or the end.
RECURSIVE ParseFields(_, _)
ParseFields(text, i) ==
  IF Tok(text, i) \in {")", "EOF"} THEN i
  ELSE ParseFields(text, IF Is(text, i + 2, ",") THEN i + 3 ELSE i + 2)

ParseCreate(text, i) ==
  LET Create(what, engine) == [type |-> "create", what |-> what, name |-> Tok(text, i + 2),
                               engine |-> engine]
      closed == ParseFields(text, i + 4)
      last == IF Is(text, closed + 1, ")") THEN closed + 1 ELSE closed IN
  CASE Is(text, i + 1, "database") -> Got(Create("database", ""), i + 2)
    [] ~Is(text, i + 1, "table") /\ ~Is(text, i + 1, "database") -> Dropped(i + 1)
    [] Is(text, i + 1, "table") /\ (~Is(text, i + 3, "(") \/ Is(text, last, "EOF")) ->
         Dropped(Len(text) + 1)
    [] OTHER ->
         CASE ~Is(text, last + 1, "engine") -> Got(Create("table", "tsm"), last)
           [] Is(text, last + 1, "engine") /\ Tok(text, last + 3) \in {"tsm", "clt"} ->
                Got(Create("table", Tok(text, last + 3)), last + 3)
           [] OTHER -> Dropped(last + 3)

\* Mutant of ParseColumns: the comma behind a name is left where it is.
RECURSIVE ParseColumns_Comma(_, _)
ParseColumns_Comma(text, i) ==
  CASE Is(text, i, "from") -> i
    [] Is(text, i, "*") -> i + 1
    [] Is(text, i, "string") -> ParseColumns_Comma(text, i + 1)
    [] OTHER -> 0

\* The columns of a select up to from; 0 if the loop stays where it is for ever.
RECURSIVE ParseColumns(_, _)
ParseColumns(text, i) ==
  LET Behind(j) == IF Is(text, j, ",") THEN j + 1 ELSE j IN
  CASE Is(text, i, "from") -> i
    [] Is(text, i, "*") -> i + 1
    [] Is(text, i, "reduce") -> ParseColumns(text, Behind(i + 4))
    [] Is(text, i, "string") -> ParseColumns(text, Behind(i + 1))
    [] OTHER -> 0

\* A list of name = value; the values of other types are not kept.
RECURSIVE ParsePairs(_, _, _, _)
ParsePairs(text, i, fields, values) ==
  IF ~Is(text, i + 1, "=") THEN [at |-> i, fields |-> fields, values |-> values]
  ELSE LET kept == IF TypeOf(Tok(text, i + 2)) \in {"string", "integer", "float"} THEN 1 ELSE 0 IN
       IF Is(text, i + 3, ",") THEN ParsePairs(text, i + 4, fields + 1, values + kept)
       ELSE [at |-> i + 3, fields |-> fields + 1, values |-> values + kept]

\* A time is a date or as long as a count of nanoseconds.
IsTime(word) == word \in {"2024-01-01", "1702880186879347823"}

\* Without a table parse_insert has no return statement: what it returns is anything.
ParseInsert(text, i) ==
  LET dotted == Is(text, i + 3, ".")
      from == IF dotted THEN i + 4 ELSE i + 2
      behind == IF Is(text, from + 1, ",") THEN ParsePairs(text, from + 2, 0, 0).at ELSE from + 1
      pairs == ParsePairs(text, behind, 0, 0) IN
  CASE ~Is(text, i + 1, "into") \/ ~Is(text, i + 2, "string") ->
         [Stopped("undefined") EXCEPT !.errors = TRUE]
    [] OTHER ->
         CASE dotted /\ ~Is(text, from, "string") -> Dropped(i + 3)
           [] /\ dotted => Is(text, from, "string")
              /\ Is(text, pairs.at, "EOF") \/ IsTime(Tok(text, pairs.at)) ->
                Got([type |-> "insert", fields |-> pairs.fields, values |-> pairs.values], pairs.at)
           [] OTHER -> Dropped(pairs.at)

\* Mutant of Climbs: equal precedence binds to the right.
Climbs_Right(precedence, word) == Precedence(word) # 0 /\ precedence <= Precedence(word)

Climbs(precedence, word) == precedence < Precedence(word)

RECURSIVE Expression(_, _, _), Operators(_, _, _), Prefix(_, _), Where(_, _, _)

\* parse_expression
Expression(text, i, precedence) == Operators(text, Prefix(text, i), precedence)

Operators(text, r, precedence) ==
  LET op == Tok(text, r.at + 1) IN
  IF r.stop # "no" \/ ~Climbs(precedence, op) THEN r
  ELSE LET right == Expression(text, r.at + 2, Precedence(op))
       IN Operators(text, [right EXCEPT !.tree = Infix(op, r.tree, right.tree),
                                        !.errors = right.errors \/ r.errors], precedence)

\* Behind a table: nothing, or a word that is taken for where, and a condition.
Where(text, i, tree) ==
  IF Is(text, i + 1, "EOF") THEN Got(tree @@ [where |-> None], i)
  ELSE LET e == Expression(text, i + 2, 0) IN [e EXCEPT !.tree = tree @@ [where |-> e.tree]]

ParseSelect(text, i) ==
  LET columns == ParseColumns(text, i + 1)
      from == columns + 1
      dotted == Is(text, from + 1, ".") IN
  CASE columns = 0 -> Stopped("loops")
    [] columns # 0 /\ dotted /\ ~Is(text, from + 2, "string") -> Dropped(from + 1)
    [] OTHER ->
         LET t == IF dotted THEN from + 2 ELSE from
         IN Where(text, t, [type |-> "select", table |-> Tok(text, t),
                            db |-> IF dotted THEN Tok(text, from) ELSE NoDatabase])

Prefix(text, i) ==
  LET type == TypeOf(Tok(text, i)) IN
  CASE type \in {"integer", "float", "string", "null"} -> Got(Leaf(text, i), i)
    [] type = "(" ->
         LET e == Expression(text, i + 1, 0)
         IN IF Is(text, e.at + 1, ")") THEN [e EXCEPT !.at = @ + 1]
            ELSE [e EXCEPT !.tree = None, !.errors = TRUE]
    [] type = "-" ->
         LET e == Expression(text, i + 1, PREFIX)
         IN [e EXCEPT !.tree = [type |-> "prefix", right |-> e.tree]]
    [] type = "show" -> ParseShow(text, i)
    [] type = "use" -> ParseUse(text, i)
    [] type = "create" -> ParseCreate(text, i)
    [] type = "select" -> ParseSelect(text, i)
    [] type = "insert" -> ParseInsert(text, i)
    [] type = "system" -> Where(text, i + 3, [type |-> "system"])
    [] OTHER -> Failed(i)

\* parse_program: the statements of a line, without those that are null.
RECURSIVE Program(_, _)
Program(text, i) ==
  IF Is(text, i, "EOF") THEN [trees |-> <<>>, errors |-> FALSE, stop |-> "no"]
  ELSE LET r == Expression(text, i, 0) IN
       IF r.stop # "no" THEN [trees |-> <<>>, errors |-> r.errors, stop |-> r.stop]
       ELSE LET rest == Program(text, r.at + 1)
            IN [rest EXCEPT !.trees = (IF r.tree = None THEN <<>> ELSE <<r.tree>>) \o @,
                            !.errors = @ \/ r.errors]

-----------------------------------------------------------------------------
(* what is evaluated *)

\* The nodes of a tree, the root last, behind n others.
RECURSIVE Placed(_, _)
Placed(tree, n) ==
  LET left == Placed(tree.left, n)
      right == Placed(tree.right, n + Len(left))
  IN IF tree.type # "infix" THEN <<[type |-> tree.type]>>
     ELSE left \o right \o <<[type |-> "infix", left |-> n + Len(left),
                              right |-> n + Len(left) + Len(right)]>>

\* The nodes of a tree in the order eval comes to them.  It asks of every operand whether
\* it is an error; the where of a select it only converts.
RECURSIVE Visits(_, _)
Visits(tree, asked) ==
  LET Operands(t) == Visits(t.left, TRUE) \o Visits(t.right, TRUE)
      Kind(where) == IF where.type \in {"none", "infix"} THEN where.type ELSE "other" IN
  CASE tree.type = "infix" ->
         Operands(tree) \o <<[type |-> "infix", op |-> tree.op, asked |-> asked]>>
    [] tree.type = "prefix" -> Visits(tree.right, TRUE) \o <<[type |-> "prefix", asked |-> asked]>>
    [] tree.type = "select" ->
         LET where == IF tree.where = None THEN <<>> ELSE Placed(tree.where, 0)
         IN <<[type |-> "select", db |-> tree.db, table |-> tree.table, where |-> where, asked |-> asked]>>
    [] tree.type = "system" ->
         (IF tree.where.type = "infix" THEN Operands(tree.where) ELSE <<>>)
           \o <<[type |-> "system", where |-> Kind(tree.where), asked |-> asked]>>
    [] OTHER -> <<tree @@ [asked |-> asked]>>

\* What the loop gets of what was parsed.
Laid(p) ==
  [nodes |-> FlattenSeq([i \in DOMAIN p.trees |-> Visits(p.trees[i], FALSE)]),
   errors |-> p.errors, stop |-> p.stop]
ProgramOf(text) == Laid(Program(text, 1))

ASSUME ParserAssumption == Parsed = [text \in Lines |-> ProgramOf(text)]

-----------------------------------------------------------------------------

\* The statements as the repository's texts write them.
Names(s) ==
  /\ Len(s) % 2 = 1
  /\ \A i \in DOMAIN s : IF i % 2 = 1 THEN TypeOf(s[i]) = "string" ELSE s[i] = ","
Comparing(s) ==
  /\ Len(s) % 4 = 3
  /\ \A i \in DOMAIN s :
       CASE i % 4 \in {1, 3} -> TypeOf(s[i]) = "string"
         [] i % 4 = 2 -> s[i] \in {"=", "<", ">", "<=", ">="}
         [] OTHER -> s[i] \in {"and", "or"}
Selecting(s) ==
  \E n \in 3..Len(s) :
    /\ s[n] = "from"
    /\ s[1] = "select" /\ (SubSeq(s, 2, n - 1) = <<"*">> \/ Names(SubSeq(s, 2, n - 1)))
    /\ Is(s, n + 1, "string")
    /\ \/ Len(s) = n + 1
       \/ Is(s, n + 2, "where") /\ Comparing(SubSeq(s, n + 3, Len(s)))
Naming(s) ==
  /\ Len(s) \in {2, 3} /\ SubSeq(s, 1, Len(s) - 1) \in {<<"use">>, <<"create", "database">>}
  /\ Last(s) \in Directories \/ Is(s, Len(s), "string")
Usual(s) == Selecting(s) \/ Naming(s) \/ s \in {<<"show", "databases">>, <<"show", "tables">>}

\* A line with one usual statement neither ends the program nor keeps it for ever, but for
\* a use or create of a name that is empty or of a directory that is no database, and for
\* the use of one more database when all streams are taken.
UsualLineSurvives ==
  pc \in {"crashed", "hung", "looping"} /\ Usual(line) =>
    /\ Naming(line) /\ pc \in {"crashed", "hung"}
    /\ pc = "crashed" => Last(line) \in Directories
    /\ pc = "hung" => /\ line[1] = "use"
                      /\ Last(line) \notin DOMAIN m_io_file
                      /\ Cardinality(DOMAIN m_io_file) = StreamLimit

\* The tree of a condition: split at its last operator of the lowest precedence outside
\* parentheses.
RECURSIVE Grouped(_)
Grouped(s) ==
  LET Depth(i) == Cardinality({j \in 1..i : s[j] = "("}) - Cardinality({j \in 1..i : s[j] = ")"})
      operators == {i \in DOMAIN s : Precedence(s[i]) # 0 /\ Depth(i) = 0}
  IN CASE Len(s) = 1 -> Leaf(s, 1)
       [] Len(s) > 1 /\ operators = {} -> Grouped(SubSeq(s, 2, Len(s) - 1))
       [] OTHER ->
            LET k == CHOOSE i \in operators : \A j \in operators :
                       \/ Precedence(s[i]) < Precedence(s[j])
                       \/ Precedence(s[i]) = Precedence(s[j]) /\ j <= i
            IN Infix(s[k], Grouped(SubSeq(s, 1, k - 1)), Grouped(SubSeq(s, k + 1, Len(s))))

\* The condition of a select, if it has nothing in it but names, operators and
\* parentheses, is taken as a whole and grouped as its operators bind.
ConditionIsGrouped ==
  LET head == <<"select", "*", "from", "t", "where">>
      condition == SubSeq(line, Len(head) + 1, Len(line))
  IN pc = "eval" /\ IsStrictPrefix(head, line)
     /\ (\A i \in DOMAIN condition :
           TypeOf(condition[i]) = "string" \/ Precedence(condition[i]) # 0 \/ condition[i] \in {"(", ")"})
       => \A trees \in {Program(line, 1).trees} :
            Len(trees) = 1 /\ trees[1].where = Grouped(condition)

=============================================================================
