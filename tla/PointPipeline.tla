---------------------------- MODULE PointPipeline ----------------------------
(***************************************************************************)
(* What the TSM engine promises for one inserted point while it runs: the  *)
(* point moves from the client to the insert queue, to memory, to a cut    *)
(* block, to a file and to the file's index, one station at a time and     *)
(* never back.  A point whose timestamp is already in memory for its       *)
(* series is left behind, and index entries are lost when a file is left   *)
(* for a new one while entries are still in memory.                        *)
(***************************************************************************)
CONSTANTS Points, ListOf, TimeOf

VARIABLE station

Route == {<<"client", "queue">>, <<"queue", "memory">>, <<"queue", "shadowed">>,
          <<"memory", "block">>, <<"block", "file">>, <<"file", "indexed">>,
          <<"file", "lost">>, <<"indexed", "lost">>}

Init == station = [p \in Points |-> "client"]

SameSlot(p, q) == ListOf[p] = ListOf[q] /\ TimeOf[p] = TimeOf[q]

\* A data block is written while an earlier one waits for its index entry.
BlockOverEntries ==
  /\ \E q \in Points : station[q] = "block" /\ station'[q] = "file"
  /\ \E q \in Points : station[q] = "file"

Moves(p) ==
  \/ station'[p] = station[p]
  \/ /\ <<station[p], station'[p]>> \in Route
     /\ station'[p] = "shadowed" =>
          \E q \in Points : station[q] = "memory" /\ SameSlot(p, q)
     /\ station'[p] = "lost" => BlockOverEntries

Next ==
  /\ DOMAIN station' = Points
  /\ \A p \in Points : Moves(p)

Spec == Init /\ [][Next]_station

===============================================================================
