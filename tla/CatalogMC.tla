-------------------------------- MODULE CatalogMC --------------------------------
(* A database with two tables, new or left by an earlier run. *)
EXTENDS Catalog

CONSTANTS d1, w1, w2, f1

OneDatabase == {d1}
TwoTables == {<<d1, 1>>, <<d1, 2>>}
TwoWorkers == {w1, w2}
OneField == {f1}
=============================================================================
