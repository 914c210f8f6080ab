----------------------------- MODULE FlushDiskMC -----------------------------
(* Instances of FlushDisk for TLC.  A file has the 512 bytes of               *)
(* DATA_BLOCK_MARGIN; keys are named for their field.                          *)
EXTENDS FlushDisk

CONSTANTS k1, j1, s1

ASSUME MCAssumption == Keys \subseteq {k1, j1}

\* k1 is a series of field 1, j1 one of field 2.
MCFieldOf == [k \in Keys |-> IF k = j1 THEN 2 ELSE 1]

MCKeySize == [k \in Keys |-> 20]

=============================================================================
