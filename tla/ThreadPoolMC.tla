----------------------------- MODULE ThreadPoolMC -----------------------------
(***************************************************************************)
(* Instances of ThreadPool for TLC.                                        *)
(***************************************************************************)
EXTENDS ThreadPool

CONSTANTS w1, w2, w3, c1, c2, t1, t2, t3

ThreeWorkers == {w1, w2, w3}
TwoCallers == {c1, c2}
ThreeTasks == {t1, t2, t3}

===============================================================================
