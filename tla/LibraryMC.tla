-------------------------------- MODULE LibraryMC --------------------------------
(* Two threads on two files, with a limit of two that is reached; three time stamps at *)
(* two levels; two Jsons with one key.                                                 *)
EXTENDS Library

CONSTANTS u1, u2, p1, p2, r1, v

TwoUsers == {u1, u2}
TwoPaths == {p1, p2}
ThreeStamps == 1..3
OneReader == {r1}
Written == {v}
TwoNames == {"x", "y"}
OneLabel == {"k"}
Letters == {"1", "k", "[", "]", "{", "}", ",", ":"}
SomeTexts == {<<"1.0">>, <<"[", "k", "]">>,
              <<"{", "k", ":", "1", ",", "k", ":", "k", "}">>, <<"[", "k", "1">>}
\* What the parser makes of them.
SomeImages == [text \in {t \in SomeTexts : Parse(t, 1).ok} |-> ImageOf(text)]
AllTexts == BoundedSeq(Letters, 5)
=============================================================================
