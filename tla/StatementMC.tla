------------------------------ MODULE StatementMC ------------------------------
EXTENDS Statement

SomeLines == {
  <<"use", "a">>, <<"use", "b">>, <<"use", "c">>, <<"use", "a", "show", "tables">>,
  <<"show", "databases">>, <<"show", "tables">>, <<"show", "a", ".", "t", "--", "engine">>,
  <<"show", "c", ".", "t", "--", "engine">>, <<"show", "t", "--", "engine">>, <<"show", "t">>,
  <<"show", "7">>, <<"create", "database", "c">>, <<"create", "t">>,
  <<"use", "">>, <<"use", ".">>, <<"create", "database", "">>, <<"create", "database", ".">>,
  <<"create", "table", "t", "(", ")", "use", "b">>, <<"create", "table", "v", "(", ")">>,
  <<"create", "table", "v", "(", "x", "y", ",", "x", "y", ")", "engine", "=", "clt">>,
  <<"create", "table", "v", "(", "x">>, <<"create", "table", "v", "(", ")", "use", "b">>,
  <<"create", "table", "v", "(", ")", "engine", "=", "x">>, <<"use", "b", "create", "table", "v", "(", ")">>,
  <<"select", "*", "from", "t">>, <<"select", "x", ",", "y", "from", "u", "where", "x", "=", "y", "and", "x", "<", "y">>,
  <<"select", "sum", "(", "x", ")", "from", "c", ".", "t">>, <<"select", "x", "=", "from", "t">>,
  <<"select", "*", "from", "t", "where", "x", "=", "show", "t">>,
  <<"insert", "into", "t", ",", "k", "=", "y", "x", "=", "7", ",", "y", "=", "7.5", "1702880186879347823">>,
  <<"insert", "into", "t", "x", "=", "null">>, <<"insert", "t">>, <<"insert", "into", "t", "x", "=", "7", "7">>,
  <<"system", "update", "table", "t", "where", "x", "=", "7">>, <<"system", "show", "table", "t", "where", "x">>,
  <<"-", "7">>, <<"-", "use", "c">>, <<"x", "=", "y", ";">>, <<"(", "x">>, <<"x", "*", "7">>}

Flat(ops) == <<"x">> \o FlattenSeq([i \in DOMAIN ops |-> <<ops[i], "y">>])
SomeOps == {"and", "<", "+", "-", "*"}
Operations == UNION {[1..n -> SomeOps] : n \in 1..2}
Conditions ==
  {Flat(ops) : ops \in Operations}
    \cup {<<"(">> \o Flat(left) \o <<")", op>> \o Flat(right) :
            left \in Operations, op \in SomeOps, right \in {<<"<">>}}
    \cup {Flat(left) \o <<op, "(">> \o Flat(right) \o <<")">> :
            left \in Operations, op \in SomeOps, right \in {<<"<">>}}

LinesAndConditions ==
  SomeLines \cup {<<"select", "*", "from", "t", "where">> \o c : c \in Conditions}

\* What the parser makes of each line.
Programs == [text \in LinesAndConditions |-> ProgramOf(text)]
ParsedLines == Programs
=============================================================================
