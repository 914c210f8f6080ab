-------------------------------- MODULE Documents --------------------------------
(***************************************************************************)
(* What Json objects promise (json/json.h): each is a value of its own,    *)
(* and no operation on one changes another but a move.                     *)
(*                                                                         *)
(* A value is [type, content]: content is a scalar, or for an array a sequence and for *)
(* an object a function from keys to values.                               *)
(***************************************************************************)
EXTENDS Naturals, Sequences

CONSTANTS Names, Keys, Inputs   \* Inputs: the values of texts that are loaded

VARIABLE doc

Null == [type |-> "null", content |-> 0]
Array(items) == [type |-> "array", content |-> items]
Object(members) == [type |-> "object", content |-> members]

Init == doc = [n \in Names |-> Null]

Become(n, value) == doc' = [doc EXCEPT ![n] = value]

\* Anything but an array becomes one when a value is appended, and anything but an
\* object when a member is set.
Items(n) == IF doc[n].type = "array" THEN doc[n].content ELSE <<>>
Members(n) == IF doc[n].type = "object" THEN doc[n].content ELSE <<>>

Load(n) == \E value \in Inputs : Become(n, value)
Copy(n, m) == Become(n, doc[m])
Swap(n, m) == doc' = [doc EXCEPT ![n] = doc[m], ![m] = doc[n]]
AppendValue(n, m) == Become(n, Array(Append(Items(n), IF n = m THEN Array(Items(n)) ELSE doc[m])))
AppendMove(n, m) ==
  n # m /\ doc' = [doc EXCEPT ![n] = Array(Append(Items(n), doc[m])), ![m] = Null]
Set(n, k, m) ==
  n # m /\ Become(n, Object([x \in DOMAIN Members(n) \cup {k} |->
                               IF x = k THEN doc[m] ELSE Members(n)[x]]))
RemoveMember(n, k) ==
  doc[n].type = "object" /\ Become(n, Object([x \in DOMAIN doc[n].content \ {k} |-> doc[n].content[x]]))
RemoveElement(n, i) ==
  /\ doc[n].type = "array" /\ i \in DOMAIN doc[n].content
  /\ Become(n, Array([j \in 1..Len(doc[n].content) - 1 |-> doc[n].content[IF j < i THEN j ELSE j + 1]]))
Clear(n) == Become(n, Null)

Next == \E n, m \in Names :
  \/ Load(n) \/ Copy(n, m) \/ Swap(n, m) \/ AppendValue(n, m) \/ AppendMove(n, m) \/ Clear(n)
  \/ \E k \in Keys : Set(n, k, m) \/ RemoveMember(n, k)
  \/ RemoveElement(n, 1)

Spec == Init /\ [][Next]_doc

=============================================================================
