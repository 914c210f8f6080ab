-------------------------------- MODULE SkipList --------------------------------
(***************************************************************************)
(* The skip list of a field (engine/tsm/skip_list.h), pointer by pointer.  *)
(*                                                                         *)
(* put, get, del and cle hold m_sl_mutex, so each is one action.           *)
(* Iterators hold nothing: a reader moves while the list changes, and      *)
(* operator* writes the entry to a static variable of the class before its *)
(* caller copies it from there.                                            *)
(*                                                                         *)
(* Nodes are numbered in the order they are made, 0 is nullptr, and a node *)
(* of del is freed; the nodes of cle are not, since cle empties the head   *)
(* before it looks there for nodes to free.                                *)
(***************************************************************************)
EXTENDS Naturals, Sequences, FiniteSets

CONSTANTS Keys,      \* time stamps: natural numbers
          Values, MaxLevel,
          Readers,
          MaxNodes   \* bound on the nodes made

ASSUME ListAssumption ==
  /\ Keys \subseteq Nat
  /\ MaxLevel \in Nat \ {0}

VARIABLES
  node,         \* the nodes: [key, value, nexts]
  freed,
  head,         \* m_head->m_nexts
  m_bottom_level_node_count,
  reader,       \* an iteration: [at, from, seen, copy]
  placeholder,  \* of operator*: the node it was last written from, Nil if of another list
  raced         \* readers for which it changed before they copied it

listVars == <<node, freed, head, m_bottom_level_node_count, reader, placeholder, raced>>

Nil == 0

\* An iteration that has not begun, or has ended.
Out == [at |-> Nil, from |-> {}, seen |-> <<>>, state |-> "out"]

ListInit ==
  /\ node = <<>> /\ freed = {}
  /\ head = [i \in 1..MaxLevel |-> Nil]
  /\ m_bottom_level_node_count = 0
  /\ reader = [r \in Readers |-> Out]
  /\ placeholder = Nil /\ raced = {}

-----------------------------------------------------------------------------

\* current->m_nexts[i], for the head (Nil) or a node.
NextOf(current, i) == IF current = Nil THEN head[i] ELSE node[current].nexts[i]

\* Mutant of Before: it stops behind the key.
Before_Equal(n, key) == n # Nil /\ node[n].key <= key

Before(n, key) == n # Nil /\ node[n].key < key

\* The head and the nodes of a level.
Tall(i) == {Nil} \cup {n \in DOMAIN node : i \in DOMAIN node[n].nexts}

\* The loop along level i, from a node.
Walk(current, i, key) ==
  LET walk[n \in Tall(i)] ==
        IF Before(NextOf(n, i), key) THEN walk[NextOf(n, i)] ELSE n
  IN walk[current]

\* update[i]: the last node of level i before the key.  The loop goes down from the
\* highest level, and on from where it is.
Update(i, key) ==
  LET update[j \in 1..MaxLevel] ==
        Walk(IF j = MaxLevel THEN Nil ELSE update[j + 1], j, key)
  IN update[i]

\* The node with the key, or Nil.
Found(key) ==
  LET n == NextOf(Update(1, key), 1) IN IF n # Nil /\ node[n].key = key THEN n ELSE Nil

\* The nodes and the head after update[i]->m_nexts[i] = to(i) for the levels given.
Link(nodes, levels, key, to) ==
  [nodes |-> [n \in DOMAIN nodes |->
                [nodes[n] EXCEPT !.nexts =
                   [i \in DOMAIN @ |-> IF i \in levels /\ Update(i, key) = n THEN to[i] ELSE @[i]]]],
   head |-> [i \in 1..MaxLevel |->
               IF i \in levels /\ Update(i, key) = Nil THEN to[i] ELSE head[i]]]

\* put keeps the value of a key that is there.
Put(key, value) ==
  /\ Len(node) < MaxNodes
  /\ Found(key) = Nil
  /\ \E level \in 1..MaxLevel :
       LET new == [key |-> key, value |-> value,
                   nexts |-> [i \in 1..level |-> NextOf(Update(i, key), i)]]
           linked == Link(node, 1..level, key, [i \in 1..level |-> Len(node) + 1])
       IN /\ node' = Append(linked.nodes, new)
          /\ head' = linked.head
  /\ m_bottom_level_node_count' = m_bottom_level_node_count + 1
  /\ UNCHANGED <<freed, reader, placeholder, raced>>

\* The levels del takes a node from: up to the first it is not in.
Levels(n, key) == {i \in 1..MaxLevel : \A j \in 1..i : NextOf(Update(j, key), j) = n}

Del(key) ==
  /\ Found(key) # Nil
  /\ LET n == Found(key)
         linked == Link(node, Levels(n, key), key, node[n].nexts)
     IN node' = linked.nodes /\ head' = linked.head /\ freed' = freed \cup {n}
  /\ m_bottom_level_node_count' = m_bottom_level_node_count - 1
  /\ UNCHANGED <<reader, placeholder, raced>>

Cle ==
  /\ head' = [i \in 1..MaxLevel |-> Nil]
  /\ m_bottom_level_node_count' = 0
  /\ UNCHANGED <<node, freed, reader, placeholder, raced>>

-----------------------------------------------------------------------------
(* readers *)

Nodes(s) == {s[j] : j \in DOMAIN s}

\* The nodes behind a next pointer of the lowest level: those in every set that has what
\* it points to and, with a node, the next.
Chain(next) ==
  {n \in DOMAIN node :
     \A S \in SUBSET DOMAIN node :
       next \in S \cup {Nil} /\ (\A m \in S : node[m].nexts[1] \in S \cup {Nil}) => n \in S}

Listed == Chain(head[1])

\* begin()
Begin(r) ==
  /\ reader[r].state = "out"
  /\ head[1] # Nil
  /\ reader' = [reader EXCEPT ![r] = [at |-> head[1], from |-> Listed, seen |-> <<>>,
                                      state |-> "at"]]
  /\ UNCHANGED <<node, freed, head, m_bottom_level_node_count, placeholder, raced>>

\* Mutant of Advance: an iteration begins again after a change of the list.
Advance_Again(r) ==
  /\ reader[r].state = "copied"
  /\ LET next == IF head[1] = Nil THEN Nil ELSE node[reader[r].at].nexts[1]
     IN reader' = [reader EXCEPT ![r].at = next, ![r].state = IF next = Nil THEN "end" ELSE "at"]
  /\ UNCHANGED <<node, freed, head, m_bottom_level_node_count, placeholder, raced>>

\* operator* on a node that is there.
Deref(r) ==
  /\ reader[r].state = "at"
  /\ reader[r].at \notin freed
  /\ placeholder' = reader[r].at
  /\ raced' = raced \cup {other \in Readers \ {r} : reader[other].state = "deref"}
  /\ reader' = [reader EXCEPT ![r].state = "deref"]
  /\ UNCHANGED <<node, freed, head, m_bottom_level_node_count>>

\* operator* of an iteration over another list of the class.
Elsewhere ==
  /\ \E r \in Readers : reader[r].state = "deref"
  /\ placeholder' = Nil
  /\ raced' = raced \cup {r \in Readers : reader[r].state = "deref"}
  /\ UNCHANGED <<node, freed, head, m_bottom_level_node_count, reader>>

\* The caller copies what operator* returned a reference to.
Copy(r) ==
  /\ reader[r].state = "deref"
  /\ reader' = [reader EXCEPT ![r].seen = Append(@, placeholder), ![r].state = "copied"]
  /\ UNCHANGED <<node, freed, head, m_bottom_level_node_count, placeholder, raced>>

\* operator++; at the end the iteration stays until it begins again.
Advance(r) ==
  /\ reader[r].state = "copied"
  /\ reader[r].at \notin freed
  /\ LET next == node[reader[r].at].nexts[1]
     IN reader' = [reader EXCEPT ![r].at = next, ![r].state = IF next = Nil THEN "end" ELSE "at"]
  /\ UNCHANGED <<node, freed, head, m_bottom_level_node_count, placeholder, raced>>

Finish(r) ==
  /\ reader[r].state = "end"
  /\ reader' = [reader EXCEPT ![r] = Out]
  /\ raced' = raced \ {r}
  /\ UNCHANGED <<node, freed, head, m_bottom_level_node_count, placeholder>>

-----------------------------------------------------------------------------

ListNext ==
  \/ \E key \in Keys : (\E value \in Values : Put(key, value)) \/ Del(key)
  \/ Cle
  \/ Elsewhere
  \/ \E r \in Readers : Begin(r) \/ Deref(r) \/ Copy(r) \/ Advance(r) \/ Finish(r)

ListSpec == ListInit /\ [][ListNext]_listVars

-----------------------------------------------------------------------------

\* The list is the map of its lowest level.
Map == LET keys == {node[n].key : n \in Listed}
       IN [k \in keys |-> node[CHOOSE n \in Listed : node[n].key = k].value]

Abstract == INSTANCE OrderedMap WITH map <- Map, count <- m_bottom_level_node_count

\* Put, del and cle do what an ordered map does, whatever levels the nodes get.
ListIsAMap == Abstract!Spec

\* An iteration gives the entries in the order of their time stamps, each once, and all
\* that were there when it began and were not deleted, whatever is put or cleared
\* meanwhile and whatever other lists of the class do, unless another iteration
\* dereferenced between its operator* and its copy.
IterationSeesAll ==
  \A r \in Readers \ raced :
    LET seen == reader[r].seen
    IN /\ \A j, k \in DOMAIN seen : j < k => node[seen[j]].key < node[seen[k]].key
       /\ reader[r].state = "end" => reader[r].from \ freed \subseteq Nodes(seen)

=============================================================================
