------------------------------- MODULE JsonMemory -------------------------------
(***************************************************************************)
(* Who owns what in the JSON library (json/json.cpp).  A Json is           *)
(* [type, content]: content is a scalar, or the address of a string, an    *)
(* array or an object in memory.  A cell of memory knows what it is for;   *)
(* that of an array has a sequence of Jsons, that of an object a function  *)
(* from keys to Jsons.                                                     *)
(*                                                                         *)
(* What the parser makes of a text is a constant here, as an image: a      *)
(* memory of its own, and a Json in it.                                    *)
(***************************************************************************)
EXTENDS Naturals, Sequences

CONSTANTS Names,       \* Json variables
          Labels,      \* keys of members
          Loaded,      \* the texts the parser takes, with their images
          MaxCells, MaxItems   \* bounds on the memory in use and on the length of an array

VARIABLES memory, root

jsonVars == <<memory, root>>

Scalar(type, content) == [type |-> type, content |-> content]
JsonNull == Scalar("null", 0)

OnHeap(type) == type \in {"string", "array", "object"}

\* The addresses in Jsons, and those in a cell.
AddressesIn(f) == {f[i].content : i \in {i \in DOMAIN f : OnHeap(f[i].type)}}
Below(cell) == IF cell.type = "string" THEN {} ELSE AddressesIn(cell.content)

Closed(cells, S) == \A a \in S : Below(cells[a]) \subseteq S

\* clear follows the addresses down from a Json.
Owned(cells, j) ==
  {a \in DOMAIN cells : /\ OnHeap(j.type)
                        /\ \A S \in SUBSET DOMAIN cells : j.content \in S /\ Closed(cells, S) => a \in S}

\* Jsons refer to cells of their type, and no two of them to one.
Refers(cells, f) ==
  /\ \A i \in DOMAIN f : OnHeap(f[i].type) =>
       f[i].content \in DOMAIN cells /\ cells[f[i].content].type = f[i].type
  /\ \A i, k \in DOMAIN f : OnHeap(f[i].type) /\ i # k => f[k].content # f[i].content \/ ~OnHeap(f[k].type)

\* A cell is referred to from one place, reached from the tops.
IsForest(cells, tops) ==
  /\ tops \subseteq DOMAIN cells
  /\ \A a \in DOMAIN cells : Below(cells[a]) \cap tops = {}
  /\ \A a, b \in DOMAIN cells : a # b => Below(cells[a]) \cap Below(cells[b]) = {}
  /\ \A S \in SUBSET DOMAIN cells : tops \subseteq S /\ Closed(cells, S) => S = DOMAIN cells

IsCell(cells, cell) ==
  /\ cell = Scalar(cell.type, cell.content)
  /\ cell.type = "array" => cell.content \in Seq({cell.content[i] : i \in DOMAIN cell.content})
  /\ cell.type # "string" => Refers(cells, cell.content)

IsHeap(cells, tops) ==
  IsForest(cells, tops) /\ \A a \in DOMAIN cells : OnHeap(cells[a].type) /\ IsCell(cells, cells[a])

IsImage(image) ==
  LET f == <<image.json>> IN Refers(image.cells, f) /\ IsHeap(image.cells, AddressesIn(f))

ASSUME JsonAssumption == \A text \in DOMAIN Loaded : IsImage(Loaded[text])

JsonInit == memory = <<>> /\ root = [n \in Names |-> JsonNull]

-----------------------------------------------------------------------------
(* memory *)

With(f, k, x) == [y \in DOMAIN f \cup {k} |-> IF y = k THEN x ELSE f[y]]

\* clear
Free(cells, j) == [a \in DOMAIN cells \ Owned(cells, j) |-> cells[a]]

\* A Json with the memory it owns.
Image(cells, j) == [cells |-> [a \in Owned(cells, j) |-> cells[a]], json |-> j]

\* What new may return for the cells of an image.
Unused(cells) == 1..MaxCells \ DOMAIN cells
Places(cells, image) ==
  {at \in [DOMAIN image.cells -> Unused(cells)] : \A a, b \in DOMAIN at : at[a] = at[b] => a = b}

Renamed(at, j) == IF OnHeap(j.type) THEN Scalar(j.type, at[j.content]) ELSE j

\* A cell of an image as it is written to memory.
Rewritten(at, cell) ==
  IF cell.type = "string" THEN cell
  ELSE Scalar(cell.type, [i \in DOMAIN cell.content |-> Renamed(at, cell.content[i])])

\* copy: an image is written to memory.
Copied(cells, image, at) ==
  [b \in DOMAIN cells \cup {at[a] : a \in DOMAIN at} |->
     IF b \in DOMAIN cells THEN cells[b]
     ELSE Rewritten(at, image.cells[CHOOSE a \in DOMAIN at : at[a] = b])]

-----------------------------------------------------------------------------

\* Json n is cleared and becomes what is in the image.
Becomes(n, image) ==
  LET cells == Free(memory, root[n]) IN
  \E at \in Places(cells, image) :
    /\ memory' = Copied(cells, image, at)
    /\ root' = [root EXCEPT ![n] = Renamed(at, image.json)]

\* load: the value parsed is swapped in, and the old one destroyed with the temporary;
\* if the parser throws, nothing changes.
Load(n, text) == Becomes(n, Loaded[text])

\* operator = (const Json &)
CopyAssign(n, m) == n # m /\ Becomes(n, Image(Free(memory, root[n]), root[m]))

\* operator = (Json &&) swaps.
MoveAssign(n, m) ==
  /\ n # m
  /\ root' = [root EXCEPT ![n] = root[m], ![m] = root[n]]
  /\ UNCHANGED memory

Emptied(n, type) ==
  LET cells == Free(memory, root[n])
  IN {[cells |-> With(cells, a, Scalar(type, <<>>)), json |-> Scalar(type, a)] : a \in Unused(cells)}

\* Mutant of Containers: made anew even if it is one.
Containers_Always(n, type) == Emptied(n, type)

\* Memory and the Json n made a container of the type if it is not, as append and
\* operator [] do.
Containers(n, type) ==
  IF root[n].type = type THEN {[cells |-> memory, json |-> root[n]]} ELSE Emptied(n, type)

HasRoom(n) == root[n].type = "array" => Len(memory[root[n].content].content) < MaxItems

\* append(const Json &), also of itself.
AppendCopy(n, m) ==
  /\ HasRoom(n)
  /\ \E c \in Containers(n, "array") :
       LET image == Image(c.cells, IF n = m THEN c.json ELSE root[m]) IN
       \E at \in Places(c.cells, image) :
         /\ memory' = [Copied(c.cells, image, at) EXCEPT
                         ![c.json.content].content = Append(@, Renamed(at, image.json))]
         /\ root' = [root EXCEPT ![n] = c.json]

\* append(Json &&) leaves null behind.
AppendMove(n, m) ==
  /\ n # m /\ HasRoom(n)
  /\ \E c \in Containers(n, "array") :
       /\ memory' = [c.cells EXCEPT ![c.json.content].content = Append(@, root[m])]
       /\ root' = [root EXCEPT ![n] = c.json, ![m] = JsonNull]

\* (*this)[key] = m
Set(n, k, m) ==
  /\ n # m
  /\ \E c \in Containers(n, "object") :
       LET members == c.cells[c.json.content].content
           cells == Free(c.cells, IF k \in DOMAIN members THEN members[k] ELSE JsonNull)
           image == Image(cells, root[m]) IN
       \E at \in Places(cells, image) :
         /\ memory' = [Copied(cells, image, at) EXCEPT
                         ![c.json.content].content = With(@, k, Renamed(at, image.json))]
         /\ root' = [root EXCEPT ![n] = c.json]

\* Mutant of Erased: what the element owned is not cleared.
Erased_Leak(cells, j) == cells

Erased(cells, j) == Free(cells, j)

\* remove
RemoveMember(n, k) ==
  /\ root[n].type = "object" /\ k \in DOMAIN memory[root[n].content].content
  /\ memory' = [Erased(memory, memory[root[n].content].content[k]) EXCEPT
                  ![root[n].content].content = [x \in DOMAIN @ \ {k} |-> @[x]]]
  /\ UNCHANGED root

RemoveElement(n, i) ==
  /\ root[n].type = "array" /\ i \in DOMAIN memory[root[n].content].content
  /\ memory' = [Erased(memory, memory[root[n].content].content[i]) EXCEPT
                  ![root[n].content].content =
                     [x \in 1..Len(@) - 1 |-> IF x < i THEN @[x] ELSE @[x + 1]]]
  /\ UNCHANGED root

Clear(n) == memory' = Free(memory, root[n]) /\ root' = [root EXCEPT ![n] = JsonNull]

JsonNext ==
  \E n \in Names :
    \/ \E text \in DOMAIN Loaded : Load(n, text)
    \/ \E m \in Names : CopyAssign(n, m) \/ MoveAssign(n, m) \/ AppendCopy(n, m) \/ AppendMove(n, m)
    \/ \E k \in Labels : RemoveMember(n, k) \/ \E m \in Names : Set(n, k, m)
    \/ RemoveElement(n, 1)
    \/ Clear(n)

JsonSpec == JsonInit /\ [][JsonNext]_jsonVars

-----------------------------------------------------------------------------

\* Every piece of memory has one owner: none is lost, none belongs to two Json variables,
\* and none is referred to twice within one of them, so none is freed twice.
OneOwner ==
  /\ \A n, m \in Names : n # m => Owned(memory, root[n]) \cap Owned(memory, root[m]) = {}
  /\ UNION {Owned(memory, root[n]) : n \in Names} = DOMAIN memory
  /\ \A a, b \in DOMAIN memory : a # b => Below(memory[a]) \cap Below(memory[b]) = {}
  /\ \A a \in DOMAIN memory : memory[a].type # "string" => Refers(memory, memory[a].content)

=============================================================================
