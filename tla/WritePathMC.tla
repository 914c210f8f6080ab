------------------------------ MODULE WritePathMC ------------------------------
(***************************************************************************)
(* Instances of WritePath for TLC.                                         *)
(***************************************************************************)
EXTENDS WritePath, TLC

CONSTANTS w1, w2, f1, l1, s1, p1, p2, p3

OneWorker == {w1}
TwoWorkers == {w1, w2}
OneField == {f1}
OneList == {l1}
OneShard == {s1}
TwoPoints == {p1, p2}
ThreePoints == {p1, p2, p3}

OneFieldOf == [l \in Lists |-> f1]
OneShardOf == [l \in Lists |-> s1]

\* One list for the whole field; the points after p1 share their timestamp.
OneListOf == [p \in Points |-> l1]
OneTimeOf == [p \in Points |-> IF p = p1 THEN 1 ELSE 2]

Symmetry == Permutations(Workers)

\* p2 and p3 are alike in list and timestamp.
PointSymmetry == Permutations(Points \ {p1})

===============================================================================
