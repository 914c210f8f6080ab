--------------------------------- MODULE QueryMC ---------------------------------
(* Instances of Query for TLC. *)
EXTENDS Query

CONSTANTS q1, q2, f1, f2

TwoQueries == {q1, q2}
sa == 1
sb == 2
TwoSeries == {sa, sb}
TwoFields == {f1, f2}

Tag(key, value) == [key |-> key, value |-> value]
SeriesTags == [s \in {sa, sb} |->
                 {Tag("dc", 0), IF s = sa THEN Tag("host", 1) ELSE Tag("host", 2)}]

Point(s, x, t, v) == [series |-> s, field |-> x, time |-> t, value |-> v]

\* Two days of two times; sa and sb meet at time 1, f1 and f2 at time 0.
SomePoints == {Point(sa, f1, 0, 7), Point(sa, f1, 1, 8), Point(sb, f1, 1, 9),
               Point(sa, f2, 0, 5), Point(sa, f1, 2, 6)}

Labelled(s, point) == [series |-> s, field |-> point.field, entries |-> <<{point}>>]
Block(s, x, t, v) == Labelled(s, Point(s, x, t, v))
File(shard, metas) == [shard |-> shard, metas |-> metas, spoilt |-> FALSE]

\* After a restart the index has only what was written since, whatever the files hold; in
\* the first past sa was written after sb's point and before its index block.
SomePasts ==
  {[shards |-> {0}, indexed |-> {sb},
    files |-> <<File(0, <<Labelled(sa, Point(sb, f1, 1, 9)), Block(sa, f2, 0, 5)>>)>>],
   [shards |-> {0}, indexed |-> {sa},
    files |-> <<File(0, <<Block(sa, f1, 1, 8), Block(sa, f1, 0, 7)>>), File(0, <<Block(sa, f2, 0, 5)>>)>>],
   [shards |-> {0, 1}, indexed |-> {sa, sb},
    files |-> <<File(0, <<Block(sb, f1, 1, 9)>>), File(1, <<Block(sa, f1, 2, 6)>>)>>]}

Nodes(node) == [node |-> node, root |-> Len(node)]
Leaf(op, name, value) ==
  Nodes(<<[op |-> op, name |-> name, value |-> value, left |-> 0, right |-> 0]>>)
Shifted(node, by) ==
  [n \in DOMAIN node |-> [node[n] EXCEPT !.left = IF @ = 0 THEN 0 ELSE @ + by,
                                         !.right = IF @ = 0 THEN 0 ELSE @ + by]]
Node(op, a, b) ==
  Nodes(a.node \o Shifted(b.node, Len(a.node)) \o
        <<[op |-> op, name |-> "", value |-> 0,
           left |-> Len(a.node), right |-> Len(a.node) + Len(b.node)]>>)

Host == Leaf("=", "host", 1)
Centre == Leaf("=", "dc", 0)

SomeTrees == {Centre,
              Node("and", Host, Centre),
              Node("and", Centre, Leaf(">=", "time", 1)),
              Node("or", Leaf("=", "time", 1), Node("or", Host, Leaf("<", "time", 1)))}
==================================================================================
