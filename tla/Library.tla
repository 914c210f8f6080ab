--------------------------------- MODULE Library ---------------------------------
(***************************************************************************)
(* Three parts that share nothing with each other: the cache of file       *)
(* streams, the skip list and the JSON library.  A behaviour is one of one *)
(* of them; the other two stay as they were made.                          *)
(***************************************************************************)
EXTENDS FileIOManager, SkipList, Json

VARIABLE part    \* "streams", "list" or "json"

libraryVars == <<part, vars, listVars, jsonVars>>

LibraryInit ==
  /\ part \in {"streams", "list", "json"}
  /\ Init /\ ListInit /\ JsonInit

\* A thread's call of the cache.
Call(u) ==
  /\ part = "streams"
  /\ GetFileStream(u)
  /\ UNCHANGED <<part, listVars, jsonVars>>

LibraryNext ==
  /\ UNCHANGED part
  /\ \/ part = "streams" /\ Next /\ UNCHANGED <<listVars, jsonVars>>
     \/ part = "list" /\ ListNext /\ UNCHANGED <<vars, jsonVars>>
     \/ part = "json" /\ JsonNext /\ UNCHANGED <<vars, listVars>>

\* A thread in a call of the cache goes on, as in FileIOManager.
LibrarySpec ==
  LibraryInit /\ [][LibraryNext]_libraryVars /\ \A u \in Users : WF_libraryVars(Call(u))

-----------------------------------------------------------------------------
(* The properties are those of FileIOManager, SkipList and Json.                        *)

=============================================================================
