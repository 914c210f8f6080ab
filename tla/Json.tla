---------------------------------- MODULE Json ----------------------------------
(***************************************************************************)
(* The JSON library (json/): the parser and the text of a value, and that  *)
(* Jsons are values.  Their memory is module JsonMemory's.                 *)
(*                                                                         *)
(* A text is a sequence of tokens: white space is skipped between them,    *)
(* and a string is one token, kept as it is written.                       *)
(***************************************************************************)
EXTENDS JsonMemory, SequencesExt

CONSTANTS Texts,       \* what is loaded
          Probes       \* texts the parser is compared with the grammar on

-----------------------------------------------------------------------------
(* the parser: a result is [ok, value, at], with the value a tree as in Documents *)

Fail == [ok |-> FALSE, value |-> JsonNull, at |-> 0]
Done(value, at) == [ok |-> TRUE, value |-> value, at |-> at]

Token(text, i) == IF i \in DOMAIN text THEN text[i] ELSE "end"

IsString(token) == token \in Labels

\* "1.0" stands for the doubles that are written as integers.
ScalarOf(token) ==
  CASE token = "null" -> JsonNull
    [] token = "true" -> Scalar("bool", 1)
    [] token = "1" -> Scalar("int", 1)
    [] token = "1.0" -> Scalar("double", 1)
    [] OTHER -> Scalar("string", token)

Scalars == {"null", "true", "1", "1.0"} \cup Labels

\* Mutant of Separates: a comma may be left out.
Separates_Loose(token) == token = "," \/ token = "1"

Separates(token) == token = ","

\* parse, parse_array and parse_object, from token i on.  Nothing looks at what follows.
RECURSIVE Parse(_, _), ParseItems(_, _, _), ParseMembers(_, _, _)

Parse(text, i) ==
  CASE Token(text, i) \in Scalars -> Done(ScalarOf(text[i]), i + 1)
    [] Token(text, i) = "[" ->
         IF Token(text, i + 1) = "]" THEN Done(Scalar("array", <<>>), i + 2)
         ELSE ParseItems(text, i + 1, <<>>)
    [] Token(text, i) = "{" ->
         IF Token(text, i + 1) = "}" THEN Done(Scalar("object", <<>>), i + 2)
         ELSE ParseMembers(text, i + 1, <<>>)
    [] OTHER -> Fail

ParseItems(text, i, items) ==
  LET item == Parse(text, i)
      longer == Append(items, item.value)
  IN IF ~item.ok THEN Fail
     ELSE IF Token(text, item.at) = "]" THEN Done(Scalar("array", longer), item.at + 1)
     ELSE IF Separates(Token(text, item.at)) THEN ParseItems(text, item.at + 1, longer)
     ELSE Fail

\* A key that comes again replaces the value of the first.
ParseMembers(text, i, members) ==
  LET member == Parse(text, i + 2)
      more == With(members, text[i], member.value)
  IN IF ~IsString(Token(text, i)) \/ Token(text, i + 1) # ":" \/ ~member.ok THEN Fail
     ELSE IF Token(text, member.at) = "}" THEN Done(Scalar("object", more), member.at + 1)
     ELSE IF Separates(Token(text, member.at)) THEN ParseMembers(text, member.at + 1, more)
     ELSE Fail

\* The members of an object in the order of their keys.
KeyOrder == SetToSeq(Labels)

Joined(parts) ==
  FlattenSeq([i \in DOMAIN parts |-> IF i = 1 THEN parts[i] ELSE <<",">> \o parts[i]])

\* str: a double that is an integer is written as one.
RECURSIVE Str(_)
Str(j) ==
  CASE j.type = "null" -> <<"null">>
       [] j.type = "bool" -> <<"true">>
       [] j.type \in {"int", "double"} -> <<"1">>
       [] j.type = "string" -> <<j.content>>
       [] j.type = "array" -> <<"[">> \o Joined([i \in DOMAIN j.content |-> Str(j.content[i])]) \o <<"]">>
       [] j.type = "object" ->
            LET keys == SelectSeq(KeyOrder, LAMBDA k : k \in DOMAIN j.content)
            IN <<"{">> \o Joined([i \in DOMAIN keys |-> <<keys[i], ":">> \o Str(j.content[keys[i]])])
                 \o <<"}">>

-----------------------------------------------------------------------------
(* values *)

\* The tree a Json stands for.
RECURSIVE Tree(_, _)
Tree(cells, j) ==
  LET content == cells[j.content].content IN
  CASE ~OnHeap(j.type) -> j
    [] j.type = "string" -> [j EXCEPT !.content = content]
    [] OTHER -> [j EXCEPT !.content = [i \in DOMAIN content |-> Tree(cells, content[i])]]

\* A tree put in memory: the cells after it, and the Json.
RECURSIVE New(_, _), NewAll(_, _, _, _)
New(cells, tree) ==
  LET parts == NewAll(cells, tree.content, DOMAIN tree.content, <<>>)
      Address(used) == Cardinality(DOMAIN used) + 1
  IN CASE ~OnHeap(tree.type) -> [cells |-> cells, json |-> tree]
       [] tree.type = "string" ->
            [cells |-> With(cells, Address(cells), tree), json |-> Scalar("string", Address(cells))]
       [] OTHER ->
            [cells |-> With(parts.cells, Address(parts.cells), Scalar(tree.type, parts.all)),
             json |-> Scalar(tree.type, Address(parts.cells))]

NewAll(cells, trees, todo, all) ==
  IF todo = {} THEN [cells |-> cells, all |-> all]
  ELSE LET i == CHOOSE x \in todo : TRUE
           new == New(cells, trees[i])
       IN NewAll(new.cells, trees, todo \ {i}, With(all, i, new.json))

\* What load gets of a text.
Taken == {text \in Texts : Parse(text, 1).ok}
ImageOf(text) == New(<<>>, Parse(text, 1).value)

ASSUME ParserAssumption == Loaded = [text \in Taken |-> ImageOf(text)]

-----------------------------------------------------------------------------

LoadedValues == {Parse(text, 1).value : text \in Taken}

JsonDocuments == INSTANCE Documents
                   WITH doc <- [n \in Names |-> Tree(memory, root[n])], Keys <- Labels,
                 Inputs <- LoadedValues

\* Json objects are values: an operation on one changes no other, but for a move.
JsonsAreValues == JsonDocuments!Spec

\* The text of a value is parsed to the same value, but that a double that is an
\* integer becomes one.
RECURSIVE Narrow(_)
Narrow(j) ==
  CASE j.type = "double" -> Scalar("int", j.content)
    [] j.type \in {"array", "object"} -> [j EXCEPT !.content = [i \in DOMAIN @ |-> Narrow(@[i])]]
    [] OTHER -> j

TextsRoundTrip ==
  \A n \in Names :
    LET tree == Tree(memory, root[n])
    IN Parse(Str(tree), 1) = Done(Narrow(tree), Len(Str(tree)) + 1)

\* The grammar of JSON: an array is a comma-separated sequence of values in brackets...
RECURSIVE IsValue(_), AreItems(_), AreMembers(_)
IsValue(t) ==
  \/ Len(t) = 1 /\ t[1] \in Scalars
  \/ Len(t) = 2 /\ t \in {<<"[", "]">>, <<"{", "}">>}
  \/ Len(t) > 2 /\ t[1] = "[" /\ Last(t) = "]" /\ AreItems(SubSeq(t, 2, Len(t) - 1))
  \/ Len(t) > 2 /\ t[1] = "{" /\ Last(t) = "}" /\ AreMembers(SubSeq(t, 2, Len(t) - 1))
AreItems(t) ==
  \/ IsValue(t)
  \/ \E i \in 2..Len(t) - 1 :
       t[i] = "," /\ IsValue(SubSeq(t, 1, i - 1)) /\ AreItems(SubSeq(t, i + 1, Len(t)))
AreMembers(t) ==
  \/ Len(t) > 2 /\ IsString(t[1]) /\ t[2] = ":" /\ IsValue(SubSeq(t, 3, Len(t)))
  \/ \E i \in 2..Len(t) - 1 :
       t[i] = "," /\ AreMembers(SubSeq(t, 1, i - 1)) /\ AreMembers(SubSeq(t, i + 1, Len(t)))

\* The parser takes the texts that begin with a value of the grammar, and no others.
ParserTakesGrammar ==
  \A text \in Probes :
    Parse(text, 1).ok <=> \E i \in DOMAIN text : IsValue(SubSeq(text, 1, i))

\* Text and value stand for each other: the parser takes the texts of the grammar and no
\* others, and gives back the value that a text was written from.
TextsAreValues == TextsRoundTrip /\ ParserTakesGrammar

=============================================================================
