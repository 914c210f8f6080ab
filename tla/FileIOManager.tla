------------------------------ MODULE FileIOManager ------------------------------
(***************************************************************************)
(* The cache of open file streams (file_manager/file_io_manager.cpp) and   *)
(* the threads that use it: the query threads that read TSM files, or the  *)
(* threads that edit the metadata of databases and tables.                 *)
(*                                                                         *)
(* m_mutex is not recursive.  get_file_stream holds it when it calls       *)
(* evict_least_used, which calls close_file_stream, which locks it again:  *)
(* the thread then waits for itself and the mutex is never free again.     *)
(* Every other call is one critical section, hence one action.             *)
(***************************************************************************)
EXTENDS Naturals, Sequences, SequencesExt, FiniteSets

CONSTANTS Users,      \* threads that call the manager
          Paths,      \* files
          Modes,      \* the strings that name an open mode
          MaxSize,    \* m_max_size
          MaxStreams, \* bound on the streams opened in a behaviour
          Nobody

ASSUME CacheAssumption ==
  /\ Nobody \notin Users
  /\ MaxSize \in Nat \ {0}
  /\ MaxStreams \in Nat

VARIABLES
  m_mutex,       \* the thread that holds the mutex between two actions, or Nobody
  m_file_stream, \* path |-> [stream, node, in_use, mode], for the paths with an entry
  m_usage_order, \* nodes [path, node] of the list, the most recently used first
  opened,        \* number of streams opened; they are numbered from 1
  want,          \* what each thread asks for
  hold,          \* path and stream of each thread
  contested,     \* paths opened while a thread was using them
  misreleased    \* streams marked as free by a thread that was not using them

vars == <<m_mutex, m_file_stream, m_usage_order, opened, want, hold, contested, misreleased>>
cacheVars == <<m_mutex, m_file_stream, m_usage_order, opened>>

Streams == 1..MaxStreams
Nothing == [path |-> Nobody, mode |-> Nobody]
NoStream == [path |-> Nobody, stream |-> 0]

Entries == DOMAIN m_file_stream
Holders(s) == {u \in Users : hold[u].stream = s}
UsersOf(p) == {u \in Users : hold[u].path = p}

Init ==
  /\ m_mutex = Nobody
  /\ m_file_stream = <<>>
  /\ m_usage_order = <<>>
  /\ opened = 0
  /\ want = [u \in Users |-> Nothing]
  /\ hold = [u \in Users |-> NoStream]
  /\ contested = {}
  /\ misreleased = {}

-----------------------------------------------------------------------------
(* the usage order *)

\* A node that no element of the list has.
FreshNode(order) ==
  CHOOSE n \in 1..Len(order) + 1 : \A i \in DOMAIN order : order[i].node # n

\* Mutant of PushFront: the wrong end of the list.
PushFront_Back(order, p) == Append(order, [path |-> p, node |-> FreshNode(order)])

PushFront(order, p) == <<[path |-> p, node |-> FreshNode(order)]>> \o order

\* list::erase, by the iterator to the element.
EraseNode(order, n) == RemoveAt(order, CHOOSE i \in DOMAIN order : order[i].node = n)

\* update_usage_order: erases the entry's own node and pushes a new one.
Moved(order, p, n) == PushFront(EraseNode(order, n), p)

-----------------------------------------------------------------------------
(* calls *)

Ask(u, p, mode) ==
  /\ want[u] = Nothing
  /\ hold[u] = NoStream
  /\ want' = [want EXCEPT ![u] = [path |-> p, mode |-> mode]]
  /\ UNCHANGED <<cacheVars, hold, contested, misreleased>>

\* The path has an entry that is free and was opened in the mode asked for.
Fits(u) ==
  /\ want[u].path \in Entries
  /\ ~m_file_stream[want[u].path].in_use
  /\ m_file_stream[want[u].path].mode = want[u].mode

\* Mutant of Full: one entry too early.
Full_Early == Cardinality(Entries) + 1 >= MaxSize

Full == Cardinality(Entries) >= MaxSize

Asking(u) == want[u] # Nothing /\ m_mutex = Nobody

Given(u, s) ==
  /\ hold' = [hold EXCEPT ![u] = [path |-> want[u].path, stream |-> s]]
  /\ want' = [want EXCEPT ![u] = Nothing]

\* get_file_stream finds a stream it can hand out.
Hit(u) ==
  /\ Asking(u)
  /\ Fits(u)
  /\ LET p == want[u].path
         order == Moved(m_usage_order, p, m_file_stream[p].node)
     IN /\ m_usage_order' = order
        /\ m_file_stream' = [m_file_stream EXCEPT ![p].in_use = TRUE,
                                                  ![p].node = order[1].node]
        /\ Given(u, m_file_stream[p].stream)
  /\ UNCHANGED <<m_mutex, opened, contested, misreleased>>

\* It opens a new stream.  An entry the path has is overwritten, its node stays
\* in the list and its stream belongs to those who hold it.
Open(u) ==
  /\ Asking(u)
  /\ ~Fits(u)
  /\ ~Full
  /\ opened < MaxStreams
  /\ LET p == want[u].path
         order == PushFront(m_usage_order, p)
         entry == [stream |-> opened + 1, node |-> order[1].node,
                   in_use |-> TRUE, mode |-> want[u].mode]
     IN /\ m_usage_order' = order
        /\ m_file_stream' = [q \in Entries \cup {p} |-> IF q = p THEN entry ELSE m_file_stream[q]]
        /\ contested' = IF UsersOf(p) # {} THEN contested \cup {p} ELSE contested
        /\ Given(u, opened + 1)
  /\ opened' = opened + 1
  /\ UNCHANGED <<m_mutex, misreleased>>

\* The file cannot be opened: the caller gets a null pointer.
OpenFails(u) ==
  /\ Asking(u)
  /\ ~Fits(u)
  /\ ~Full
  /\ want' = [want EXCEPT ![u] = Nothing]
  /\ UNCHANGED <<cacheVars, hold, contested, misreleased>>

\* evict_least_used: close_file_stream locks the mutex its caller holds.
Evict(u) ==
  /\ Asking(u)
  /\ ~Fits(u)
  /\ Full
  /\ m_usage_order # <<>>
  /\ m_mutex' = u
  /\ UNCHANGED <<m_file_stream, m_usage_order, opened, want, hold, contested, misreleased>>

\* release_file_stream: it frees whatever stream the path has now.
Release(u) ==
  /\ m_mutex = Nobody
  /\ hold[u] # NoStream
  /\ LET p == hold[u].path IN
       IF p \in Entries
       THEN LET entry == m_file_stream[p]
                order == Moved(m_usage_order, p, entry.node)
            IN /\ m_usage_order' = order
               /\ m_file_stream' = [m_file_stream EXCEPT ![p].in_use = FALSE,
                                                         ![p].node = order[1].node]
               /\ misreleased' = IF entry.stream # hold[u].stream
                                 THEN misreleased \cup {entry.stream} ELSE misreleased
       ELSE UNCHANGED <<m_usage_order, m_file_stream, misreleased>>
  /\ hold' = [hold EXCEPT ![u] = NoStream]
  /\ UNCHANGED <<m_mutex, opened, want, contested>>

\* TagSetIterator::load_data lets its stream go without a call: the entry stays in use.
Forget(u) ==
  /\ hold[u] # NoStream
  /\ hold' = [hold EXCEPT ![u] = NoStream]
  /\ UNCHANGED <<cacheVars, want, contested, misreleased>>

\* The destructor: streams and entries go.
Destroy ==
  /\ m_mutex = Nobody
  /\ \A u \in Users : want[u] = Nothing /\ hold[u] = NoStream
  /\ m_file_stream' = <<>>
  /\ m_usage_order' = <<>>
  /\ UNCHANGED <<m_mutex, opened, want, hold, contested, misreleased>>

-----------------------------------------------------------------------------

GetFileStream(u) == Hit(u) \/ Open(u) \/ OpenFails(u) \/ Evict(u)

Next ==
  \/ \E u \in Users, p \in Paths, mode \in Modes : Ask(u, p, mode)
  \/ \E u \in Users : GetFileStream(u) \/ Release(u) \/ Forget(u)
  \/ Destroy

Spec == Init /\ [][Next]_vars

\* A thread in a call goes on, unless it waits for the mutex for ever.
FairSpec == Spec /\ \A u \in Users : WF_vars(GetFileStream(u))

-----------------------------------------------------------------------------

EntryType == [stream : Nat, node : Nat, in_use : BOOLEAN, mode : Modes]

TypeOK ==
  /\ m_mutex \in Users \cup {Nobody}
  /\ Entries \subseteq Paths
  /\ \A p \in Entries : m_file_stream[p] \in EntryType
  /\ m_usage_order \in Seq([path : Paths, node : Nat])
  /\ opened \in Nat
  /\ want \in [Users -> [path : Paths, mode : Modes] \cup {Nothing}]
  /\ hold \in [Users -> [path : Paths, stream : Nat] \cup {NoStream}]
  /\ contested \subseteq Paths
  /\ misreleased \subseteq Nat

\* The iterator an entry keeps into m_usage_order always points to a node of the
\* list, one for the entry's own path, and the nodes that overwritten entries left
\* behind are older.  Otherwise update_usage_order erases through a dangling iterator.
EntryHasItsNode ==
  \A p \in Entries :
    \E i \in DOMAIN m_usage_order :
      /\ m_usage_order[i] = [path |-> p, node |-> m_file_stream[p].node]
      /\ \A j \in DOMAIN m_usage_order :
           j # i => /\ m_usage_order[j].node # m_file_stream[p].node
                    /\ m_usage_order[j].path = p => j > i

\* Two threads have one fstream only if a third call freed it for a thread that was
\* not using it, which needs a path opened while in use: threads that take turns
\* on a path never share a stream, whatever they do on others.
SharedOnlyAfterMisrelease ==
  \A u, v \in Users :
    u # v /\ hold[u] # NoStream /\ hold[u].stream = hold[v].stream
      => hold[u].stream \in misreleased /\ hold[u].path \in contested

\* An entry keeps its own node of the usage order, and a stream its one user, unless a
\* third has freed it.
StreamsAreExclusive == TypeOK /\ EntryHasItsNode /\ SharedOnlyAfterMisrelease

\* While the cache has room for another entry, every request for a stream is
\* answered: a thread can only be left waiting for the mutex by an eviction.
AnsweredBelowTheLimit ==
  [](Cardinality(Entries) < MaxSize)
    => \A u \in Users : want[u] # Nothing /\ opened < MaxStreams
                           ~> want[u] = Nothing \/ opened = MaxStreams

=============================================================================
