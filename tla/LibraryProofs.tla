----------------------------- MODULE LibraryProofs -----------------------------
(***************************************************************************)
(* The parts that stand alone, for any threads, paths, limits, keys,       *)
(* levels, readers, lines and texts.  The cache of file streams: two       *)
(* threads share a stream only after a wrong release, and an entry keeps   *)
(* its node of the usage order.  The skip list: it is an ordered map, and  *)
(* an iteration sees all that stays.  The loop of the SQL front end: what  *)
(* it takes for a table has been told to an engine.  The JSON library:     *)
(* every piece of memory has one owner.                                    *)
(***************************************************************************)
EXTENDS FileIOManager, SkipList, Evaluator, JsonMemory, SequenceTheorems, FiniteSetTheorems,
        NaturalsInduction, WellFoundedInduction, TLAPS

(* The cache.  The first part tracks entries by their streams alone, the second by     *)
(* their nodes.                                                                         *)

Holds(u) == hold[u] # NoStream

\* A record of a stream; nothing is said of its node and its mode.
Parts == {"stream", "node", "in_use", "mode"}
IsEntry(entry) == entry = [part \in Parts |-> entry[part]]

\* The streams that occur have been opened.
StreamsAreOpened ==
  /\ opened \in Nat
  /\ hold \in [Users -> [path : Paths, stream : 1..opened] \cup {NoStream}]
  /\ want \in [Users -> [path : Paths, mode : Modes] \cup {Nothing}]
  /\ misreleased \subseteq 1..opened
  /\ m_file_stream = [p \in Entries |-> m_file_stream[p]]
  /\ \A p \in Entries : IsEntry(m_file_stream[p]) /\ m_file_stream[p].stream \in 1..opened

\* A stream belongs to one path, in the map and in the hands of threads.
StreamHasOnePath ==
  /\ \A p, q \in Entries : m_file_stream[p].stream = m_file_stream[q].stream => p = q
  /\ \A u \in Users, p \in Entries :
       Holds(u) /\ hold[u].stream = m_file_stream[p].stream => hold[u].path = p

\* A stream marked as free is in nobody's hands, or was freed by a thread not using it.
FreeMeansUnheld ==
  \A p \in Entries, u \in Users :
    ~m_file_stream[p].in_use /\ Holds(u) /\ hold[u].stream = m_file_stream[p].stream
      => m_file_stream[p].stream \in misreleased

\* A thread whose stream is not the one in the map has a path that was opened while in
\* use, and only such paths have streams freed by others.
StrayIsContested ==
  /\ \A u \in Users :
       Holds(u) /\ hold[u].path \in Entries /\ m_file_stream[hold[u].path].stream # hold[u].stream
         => hold[u].path \in contested
  /\ \A u \in Users : Holds(u) /\ hold[u].stream \in misreleased => hold[u].path \in contested
  /\ \A p \in Entries : m_file_stream[p].stream \in misreleased => p \in contested

CacheInv ==
  /\ StreamsAreOpened
  /\ StreamHasOnePath
  /\ FreeMeansUnheld
  /\ StrayIsContested
  /\ SharedOnlyAfterMisrelease

-----------------------------------------------------------------------------

\* Nothing is open at the start.
LEMMA CacheInit == Init => CacheInv
<1> SUFFICES ASSUME Init PROVE CacheInv
  OBVIOUS
<1>1. Entries = {}
  BY DEF Init, Entries
<1>2. StreamsAreOpened
  <2>1. m_file_stream = [p \in Entries |-> m_file_stream[p]]
    BY <1>1 DEF Init
  <2> QED
    BY <1>1, <2>1 DEF Init, StreamsAreOpened
<1> QED
  BY <1>1, <1>2 DEF Init, CacheInv, StreamHasOnePath, FreeMeansUnheld, StrayIsContested,
                    SharedOnlyAfterMisrelease, Holds

\* What Hit and Release do to the entry of a path.
LEMMA MarkedPath ==
  ASSUME CacheInv, NEW p \in Entries, NEW n, NEW used,
         m_file_stream' = [m_file_stream EXCEPT ![p].in_use = used, ![p].node = n]
  PROVE  /\ Entries' = Entries
         /\ m_file_stream' = [q \in Entries' |-> m_file_stream'[q]]
         /\ m_file_stream'[p].in_use = used
         /\ \A q \in Entries :
              /\ IsEntry(m_file_stream'[q])
              /\ m_file_stream'[q].stream = m_file_stream[q].stream
              /\ q # p => m_file_stream'[q] = m_file_stream[q]
<1> DEFINE marked == [m_file_stream[p] EXCEPT !.in_use = used, !.node = n]
<1>1. m_file_stream' = [m_file_stream EXCEPT ![p] = marked]
  BY Zenon DEF Entries
<1>2. IsEntry(marked) /\ marked.stream = m_file_stream[p].stream /\ marked.in_use = used
  <2> DEFINE entry == m_file_stream[p]
  <2>1. IsEntry(entry)
    BY DEF CacheInv, StreamsAreOpened
  <2> HIDE DEF entry
  <2>2. DOMAIN entry = Parts
    BY <2>1 DEF IsEntry
  <2> DEFINE result == [entry EXCEPT !.in_use = used, !.node = n]
  <2>3. IsEntry(result) /\ result.stream = entry.stream /\ result.in_use = used
    BY <2>1, <2>2 DEF IsEntry, Parts
  <2> QED
    BY <2>3 DEF entry
<1> HIDE DEF marked
<1> QED
  BY <1>1, <1>2 DEF CacheInv, StreamsAreOpened, Entries

\* A call that gives away nothing leaves the streams as they are.
LEMMA SameStreams ==
  ASSUME CacheInv,
         UNCHANGED <<m_file_stream, opened, hold, contested, misreleased>>,
         want' \in [Users -> [path : Paths, mode : Modes] \cup {Nothing}]
  PROVE  CacheInv'
BY DEF CacheInv, StreamsAreOpened, StreamHasOnePath, FreeMeansUnheld, StrayIsContested,
       SharedOnlyAfterMisrelease, Holds, Entries

\* A thread asks.
LEMMA AskKeeps ==
  ASSUME CacheInv, NEW u \in Users, NEW p \in Paths, NEW mode \in Modes, Ask(u, p, mode)
  PROVE  CacheInv'
<1>1. want' \in [Users -> [path : Paths, mode : Modes] \cup {Nothing}]
  BY DEF CacheInv, StreamsAreOpened, Ask
<1> QED
  BY <1>1, SameStreams DEF Ask, cacheVars

\* The file cannot be opened.
LEMMA OpenFailsKeeps ==
  ASSUME CacheInv, NEW u \in Users, OpenFails(u)
  PROVE  CacheInv'
<1>1. want' \in [Users -> [path : Paths, mode : Modes] \cup {Nothing}]
  BY DEF CacheInv, StreamsAreOpened, OpenFails
<1> QED
  BY <1>1, SameStreams DEF OpenFails, cacheVars

\* The thread waits for ever.
LEMMA EvictKeeps ==
  ASSUME CacheInv, NEW u \in Users, Evict(u)
  PROVE  CacheInv'
<1>1. want' \in [Users -> [path : Paths, mode : Modes] \cup {Nothing}]
  BY DEF CacheInv, StreamsAreOpened, Evict
<1> QED
  BY <1>1, SameStreams DEF Evict

\* A thread may let go of its stream at any time.
LEMMA LetGoKeeps ==
  ASSUME CacheInv, NEW u \in Users, hold' = [hold EXCEPT ![u] = NoStream],
         UNCHANGED <<m_file_stream, opened, want, contested, misreleased>>
  PROVE  CacheInv'
<1>1. Entries' = Entries
  BY DEF Entries
<1>2. /\ hold' \in [Users -> [path : Paths, stream : 1..opened] \cup {NoStream}]
      /\ \A v \in Users : hold'[v] = IF v = u THEN NoStream ELSE hold[v]
  BY DEF CacheInv, StreamsAreOpened
<1>3. \A v \in Users : Holds(v)' => Holds(v) /\ hold'[v] = hold[v]
  BY <1>2 DEF Holds
<1>4. StreamsAreOpened'
  BY <1>1, <1>2 DEF CacheInv, StreamsAreOpened
<1>5. StreamHasOnePath' /\ FreeMeansUnheld' /\ StrayIsContested'
  BY <1>1, <1>3 DEF CacheInv, StreamHasOnePath, FreeMeansUnheld, StrayIsContested
<1>6. SharedOnlyAfterMisrelease'
  <2> SUFFICES ASSUME NEW v \in Users, NEW w \in Users, v # w,
                      hold'[v] # NoStream, hold'[v].stream = hold'[w].stream
               PROVE  hold'[v].stream \in misreleased /\ hold'[v].path \in contested
    BY <1>1 DEF SharedOnlyAfterMisrelease
  <2>1. hold'[v] = hold[v] /\ hold[v] # NoStream /\ hold[v].stream \in 1..opened
    BY <1>2 DEF CacheInv, StreamsAreOpened
  <2>2. hold'[w] = hold[w]
    BY <1>2, <2>1 DEF NoStream
  <2> QED
    BY <2>1, <2>2 DEF CacheInv, SharedOnlyAfterMisrelease
<1> QED
  BY <1>4, <1>5, <1>6 DEF CacheInv

\* Nobody holds a stream when the cache goes.
LEMMA DestroyKeeps ==
  ASSUME CacheInv, Destroy
  PROVE  CacheInv'
<1>1. Entries' = {} /\ m_file_stream' = <<>>
  BY DEF Destroy, Entries
<1>2. UNCHANGED <<opened, want, hold, contested, misreleased>>
  BY DEF Destroy
<1>3. \A u \in Users : hold[u] = NoStream
  BY DEF Destroy
<1>4. m_file_stream' = [p \in Entries' |-> m_file_stream'[p]]
  BY <1>1
<1> QED
  BY <1>1, <1>2, <1>3, <1>4
     DEF CacheInv, StreamsAreOpened, StreamHasOnePath, FreeMeansUnheld, StrayIsContested,
         SharedOnlyAfterMisrelease, Holds

\* A stream is given to one more thread.
LEMMA HitKeeps ==
  ASSUME CacheInv, NEW u \in Users, Hit(u)
  PROVE  CacheInv'
<1> DEFINE p == want[u].path
           entry == m_file_stream[p]
<1>1. /\ p \in Paths /\ p \in Entries /\ ~entry.in_use
      /\ entry.stream \in 1..opened
  BY DEF Hit, Asking, Fits, CacheInv, StreamsAreOpened
<1>2. /\ hold' = [hold EXCEPT ![u] = [path |-> p, stream |-> entry.stream]]
      /\ want' = [want EXCEPT ![u] = Nothing]
      /\ UNCHANGED <<opened, contested, misreleased>>
  BY DEF Hit, Given
<1>3. PICK n : m_file_stream' = [m_file_stream EXCEPT ![p].in_use = TRUE, ![p].node = n]
  BY DEF Hit
<1>4. /\ Entries' = Entries
      /\ m_file_stream' = [q \in Entries' |-> m_file_stream'[q]]
      /\ m_file_stream'[p].in_use = TRUE
      /\ \A q \in Entries :
           /\ IsEntry(m_file_stream'[q])
           /\ m_file_stream'[q].stream = m_file_stream[q].stream
           /\ q # p => m_file_stream'[q] = m_file_stream[q]
  <2> HIDE DEF p
  <2> QED
    BY <1>1, <1>3, MarkedPath
<1>5. /\ \A v \in Users : v # u => hold'[v] = hold[v]
      /\ hold'[u] = [path |-> p, stream |-> entry.stream] /\ Holds(u)'
  BY <1>1, <1>2 DEF CacheInv, StreamsAreOpened, Holds, NoStream
<1> HIDE DEF p, entry
<1>6. StreamsAreOpened'
  <2>1. hold' \in [Users -> [path : Paths, stream : 1..opened] \cup {NoStream}]
    BY <1>1, <1>2 DEF CacheInv, StreamsAreOpened
  <2>2. want' \in [Users -> [path : Paths, mode : Modes] \cup {Nothing}]
    BY <1>2 DEF CacheInv, StreamsAreOpened
  <2> QED
    BY <1>2, <1>4, <2>1, <2>2 DEF CacheInv, StreamsAreOpened
\* Whoever holds the stream given away has the path of its entry.
<1>7. \A v \in Users : Holds(v) /\ hold[v].stream = entry.stream => hold[v].path = p
  BY <1>1 DEF CacheInv, StreamHasOnePath, entry
<1>8. StreamHasOnePath'
  <2>1. \A q \in Entries : entry.stream = m_file_stream[q].stream => p = q
    BY <1>1 DEF CacheInv, StreamHasOnePath, entry
  <2> QED
    BY <1>4, <1>5, <2>1 DEF CacheInv, StreamHasOnePath, Holds
<1>9. FreeMeansUnheld'
  <2> SUFFICES ASSUME NEW q \in Entries, NEW v \in Users, ~m_file_stream'[q].in_use,
                      Holds(v)', hold'[v].stream = m_file_stream'[q].stream
               PROVE  m_file_stream'[q].stream \in misreleased
    BY <1>2, <1>4 DEF FreeMeansUnheld
  <2>1. q # p
    BY <1>4
  <2>2. v # u
    BY <1>1, <1>4, <1>5, <2>1 DEF CacheInv, StreamHasOnePath, entry
  <2> QED
    BY <1>4, <1>5, <2>1, <2>2 DEF CacheInv, FreeMeansUnheld, Holds
<1>10. StrayIsContested'
  <2>1. entry.stream \in misreleased => p \in contested
    BY <1>1 DEF CacheInv, StrayIsContested, entry
  <2>2. m_file_stream[p].stream = entry.stream
    BY DEF entry
  <2> QED
    BY <1>2, <1>4, <1>5, <2>1, <2>2 DEF CacheInv, StrayIsContested, Holds
<1>11. SharedOnlyAfterMisrelease'
  \* The stream was free: if somebody held it, it had been freed by another.
  <2>1. \A v \in Users : Holds(v) /\ hold[v].stream = entry.stream
           => entry.stream \in misreleased /\ p \in contested
    BY <1>1 DEF CacheInv, FreeMeansUnheld, StrayIsContested, entry
  <2> SUFFICES ASSUME NEW v \in Users, NEW w \in Users, v # w,
                      hold'[v] # NoStream, hold'[v].stream = hold'[w].stream
               PROVE  hold'[v].stream \in misreleased /\ hold'[v].path \in contested
    BY <1>2 DEF SharedOnlyAfterMisrelease
  <2>2. CASE v = u
    <3>1. hold[w].stream = entry.stream /\ Holds(w)
      BY <1>1, <1>5, <2>2 DEF Holds, NoStream
    <3> QED
      BY <1>5, <2>1, <2>2, <3>1
  <2>3. CASE w = u
    <3>1. hold'[v] = hold[v] /\ hold[v].stream = entry.stream /\ Holds(v)
      BY <1>5, <2>3 DEF Holds
    <3> QED
      BY <1>7, <2>1, <3>1
  <2>4. CASE v # u /\ w # u
    BY <1>5, <2>4 DEF CacheInv, SharedOnlyAfterMisrelease
  <2> QED
    BY <2>2, <2>3, <2>4
<1> QED
  BY <1>6, <1>8, <1>9, <1>10, <1>11 DEF CacheInv

\* A stream nobody has is given away.
LEMMA OpenKeeps ==
  ASSUME CacheInv, NEW u \in Users, Open(u)
  PROVE  CacheInv'
<1> DEFINE p == want[u].path
           s == opened + 1
<1>1. p \in Paths /\ s \notin 1..opened /\ s \in 1..opened' /\ 1..opened \subseteq 1..opened'
      /\ opened' \in Nat
  BY DEF Open, Asking, CacheInv, StreamsAreOpened
<1>2. PICK n, mode : m_file_stream' =
        [q \in Entries \cup {p} |->
           IF q = p THEN [stream |-> s, node |-> n, in_use |-> TRUE, mode |-> mode]
                    ELSE m_file_stream[q]]
  BY DEF Open
<1>3. /\ hold' = [hold EXCEPT ![u] = [path |-> p, stream |-> s]]
      /\ want' = [want EXCEPT ![u] = Nothing]
      /\ misreleased' = misreleased
      /\ contested \subseteq contested'
      /\ UsersOf(p) # {} => p \in contested'
  BY DEF Open, Given
<1> DEFINE made == [stream |-> s, node |-> n, in_use |-> TRUE, mode |-> mode]
<1>4. IsEntry(made) /\ made.stream = s /\ made.in_use
  BY DEF IsEntry, Parts
<1>5. /\ Entries' = Entries \cup {p}
      /\ m_file_stream' = [q \in Entries' |-> m_file_stream'[q]]
      /\ IsEntry(m_file_stream'[p])
      /\ m_file_stream'[p].stream = s
      /\ m_file_stream'[p].in_use
      /\ \A q \in Entries : q # p => m_file_stream'[q] = m_file_stream[q]
  <2> HIDE DEF made
  <2>1. m_file_stream' = [q \in Entries \cup {p} |-> IF q = p THEN made ELSE m_file_stream[q]]
    BY <1>2 DEF made
  <2> QED
    BY <2>1, <1>4 DEF Entries
<1>6. /\ \A v \in Users : v # u => hold'[v] = hold[v]
      /\ hold'[u] = [path |-> p, stream |-> s] /\ Holds(u)'
  BY <1>1, <1>3 DEF CacheInv, StreamsAreOpened, Holds, NoStream
<1>7. \A v \in Users : Holds(v) => hold[v].stream \in 1..opened
  BY DEF CacheInv, StreamsAreOpened, Holds
<1>8. \A v \in Users : Holds(v) /\ hold[v].path = p => p \in contested'
  BY <1>3 DEF UsersOf
<1> HIDE DEF p, s, made
<1>9. StreamsAreOpened'
  <2>1. hold' \in [Users -> [path : Paths, stream : 1..opened'] \cup {NoStream}]
    BY <1>1, <1>3 DEF CacheInv, StreamsAreOpened
  <2>2. want' \in [Users -> [path : Paths, mode : Modes] \cup {Nothing}]
    BY <1>3 DEF CacheInv, StreamsAreOpened
  <2> QED
    BY <1>1, <1>3, <1>5, <2>1, <2>2 DEF CacheInv, StreamsAreOpened
\* The new stream is nobody's: neither of another entry nor of another thread.
<1>10. StreamHasOnePath'
  <2>1. \A q \in Entries : q # p => m_file_stream'[q].stream # s
    BY <1>1, <1>5 DEF CacheInv, StreamsAreOpened
  <2> QED
    BY <1>1, <1>5, <1>6, <1>7, <2>1 DEF CacheInv, StreamHasOnePath, Holds
<1>11. FreeMeansUnheld'
  <2> SUFFICES ASSUME NEW q \in Entries', NEW v \in Users, ~m_file_stream'[q].in_use,
                      Holds(v)', hold'[v].stream = m_file_stream'[q].stream
               PROVE  m_file_stream'[q].stream \in misreleased
    BY <1>3 DEF FreeMeansUnheld
  <2>1. q # p /\ q \in Entries
    BY <1>5
  <2>2. v # u
    BY <1>1, <1>5, <1>6, <2>1 DEF CacheInv, StreamsAreOpened
  <2> QED
    BY <1>5, <1>6, <2>1, <2>2 DEF CacheInv, FreeMeansUnheld, Holds
<1>12. StrayIsContested'
  <2>1. s \notin misreleased
    BY <1>1 DEF CacheInv, StreamsAreOpened
  <2> QED
    BY <1>3, <1>5, <1>6, <1>8, <2>1 DEF CacheInv, StrayIsContested, Holds
<1>13. SharedOnlyAfterMisrelease'
  <2> SUFFICES ASSUME NEW v \in Users, NEW w \in Users, v # w,
                      hold'[v] # NoStream, hold'[v].stream = hold'[w].stream
               PROVE  hold'[v].stream \in misreleased /\ hold'[v].path \in contested'
    BY <1>3 DEF SharedOnlyAfterMisrelease
  <2>1. v # u /\ w # u
    <3>1. s # 0
      BY DEF s, CacheInv, StreamsAreOpened
    <3> QED
      BY <1>1, <1>6, <1>7, <3>1 DEF Holds, NoStream
  <2> QED
    BY <1>3, <1>6, <2>1 DEF CacheInv, SharedOnlyAfterMisrelease
<1> QED
  BY <1>9, <1>10, <1>11, <1>12, <1>13 DEF CacheInv

\* The stream of the path is freed, whoever has it.
LEMMA ReleaseKeeps ==
  ASSUME CacheInv, NEW u \in Users, Release(u)
  PROVE  CacheInv'
<1> DEFINE p == hold[u].path
           entry == m_file_stream[p]
<1>1. /\ Holds(u) /\ hold' = [hold EXCEPT ![u] = NoStream]
      /\ UNCHANGED <<opened, want, contested>>
  BY DEF Release, Holds
<1>2. CASE p \notin Entries
  <2>1. UNCHANGED <<m_file_stream, misreleased>>
    BY <1>2 DEF Release
  <2> QED
    BY <1>1, <2>1, LetGoKeeps
<1>3. CASE p \in Entries
  <2>1. PICK n : m_file_stream' = [m_file_stream EXCEPT ![p].in_use = FALSE, ![p].node = n]
    BY <1>3 DEF Release
  <2>2. misreleased' = IF entry.stream # hold[u].stream
                       THEN misreleased \cup {entry.stream} ELSE misreleased
    BY <1>3 DEF Release
  <2>3. /\ Entries' = Entries
        /\ m_file_stream' = [q \in Entries' |-> m_file_stream'[q]]
        /\ \A q \in Entries :
             /\ IsEntry(m_file_stream'[q])
             /\ m_file_stream'[q].stream = m_file_stream[q].stream
             /\ q # p => m_file_stream'[q] = m_file_stream[q]
    <3> HIDE DEF p
    <3> QED
      BY <1>3, <2>1, MarkedPath
  <2>4. \A v \in Users : hold'[v] = IF v = u THEN NoStream ELSE hold[v]
    BY <1>1 DEF CacheInv, StreamsAreOpened
  <2>5. \A v \in Users : Holds(v)' => v # u /\ Holds(v) /\ hold'[v] = hold[v]
    BY <2>4 DEF Holds
  \* Whoever is left with the entry's stream has its path, and if the stream was not u's
  \* then the path was opened while in use.
  <2>6. \A v \in Users : Holds(v) /\ hold[v].stream = entry.stream => hold[v].path = p
    BY <1>3 DEF CacheInv, StreamHasOnePath
  <2>7. entry.stream # hold[u].stream => p \in contested
    BY <1>1, <1>3 DEF CacheInv, StrayIsContested
  <2>8. \A q \in Entries : m_file_stream[q].stream = entry.stream => q = p
    BY <1>3 DEF CacheInv, StreamHasOnePath
  <2>9. entry.stream \in 1..opened
    BY <1>3 DEF CacheInv, StreamsAreOpened
  \* If it was u's, another holder had it only because a third had freed it.
  <2>10. \A v \in Users : v # u /\ Holds(v) /\ hold[v].stream = entry.stream
           => entry.stream \in misreleased'
    BY <1>1, <2>2 DEF CacheInv, SharedOnlyAfterMisrelease, Holds
  <2> HIDE DEF p, entry
  <2>11. StreamsAreOpened'
    <3>1. hold' \in [Users -> [path : Paths, stream : 1..opened] \cup {NoStream}]
      BY <1>1 DEF CacheInv, StreamsAreOpened
    <3> QED
      BY <1>1, <2>2, <2>3, <2>9, <3>1 DEF CacheInv, StreamsAreOpened
  <2>12. StreamHasOnePath'
    BY <2>3, <2>5 DEF CacheInv, StreamHasOnePath
  <2>13. FreeMeansUnheld'
    <3> SUFFICES ASSUME NEW q \in Entries, NEW v \in Users, ~m_file_stream'[q].in_use,
                        Holds(v)', hold'[v].stream = m_file_stream'[q].stream
                 PROVE  m_file_stream'[q].stream \in misreleased'
      BY <2>3 DEF FreeMeansUnheld
    <3>1. CASE q = p
      BY <2>3, <2>5, <2>10, <3>1 DEF entry
    <3>2. CASE q # p
      BY <2>2, <2>3, <2>5, <3>2 DEF CacheInv, FreeMeansUnheld
    <3> QED
      BY <3>1, <3>2
  <2>14. StrayIsContested'
    BY <1>1, <2>2, <2>3, <2>5, <2>6, <2>7, <2>8 DEF CacheInv, StrayIsContested
  <2>15. SharedOnlyAfterMisrelease'
    <3> SUFFICES ASSUME NEW v \in Users, NEW w \in Users, v # w,
                        hold'[v] # NoStream, hold'[v].stream = hold'[w].stream
                 PROVE  hold'[v].stream \in misreleased' /\ hold'[v].path \in contested'
      BY DEF SharedOnlyAfterMisrelease
    <3>1. hold'[v] = hold[v] /\ hold[v] # NoStream /\ hold[v].stream \in 1..opened
      BY <2>4 DEF CacheInv, StreamsAreOpened
    <3>2. hold'[w] = hold[w]
      BY <2>4, <3>1 DEF NoStream
    <3> QED
      BY <1>1, <2>2, <3>1, <3>2 DEF CacheInv, SharedOnlyAfterMisrelease
  <2> QED
    BY <2>11, <2>12, <2>13, <2>14, <2>15 DEF CacheInv
<1> QED
  BY <1>2, <1>3

-----------------------------------------------------------------------------

\* CacheInv holds of every behaviour of the cache, whatever the constants are.
THEOREM CacheInvariant == Spec => []CacheInv
<1>1. Init => CacheInv
  BY CacheInit
<1>2. CacheInv /\ [Next]_vars => CacheInv'
  <2> SUFFICES ASSUME CacheInv, [Next]_vars PROVE CacheInv'
    OBVIOUS
  <2>1. ASSUME NEW u \in Users, NEW p \in Paths, NEW mode \in Modes, Ask(u, p, mode)
        PROVE  CacheInv'
    BY <2>1, AskKeeps
  <2>2. ASSUME NEW u \in Users, GetFileStream(u) PROVE CacheInv'
    BY <2>2, HitKeeps, OpenKeeps, OpenFailsKeeps, EvictKeeps DEF GetFileStream
  <2>3. ASSUME NEW u \in Users, Release(u) PROVE CacheInv'
    BY <2>3, ReleaseKeeps
  <2>4. ASSUME NEW u \in Users, Forget(u) PROVE CacheInv'
    BY <2>4, LetGoKeeps DEF Forget, cacheVars
  <2>5. CASE Destroy
    BY <2>5, DestroyKeeps
  <2>6. CASE UNCHANGED vars
    <3>1. want' \in [Users -> [path : Paths, mode : Modes] \cup {Nothing}]
      BY <2>6 DEF vars, CacheInv, StreamsAreOpened
    <3> QED
      BY <2>6, <3>1, SameStreams DEF vars
  <2> QED
    BY <2>1, <2>2, <2>3, <2>4, <2>5, <2>6 DEF Next
<1> QED
  BY <1>1, <1>2, PTL DEF Spec

\* Two threads hold one stream only after a release by a thread that was not using it, on a
\* path that had been opened while in use: of any number of threads, those that take
\* turns on a path never read and write through one fstream (file_io_manager.cpp:50-120).
THEOREM StreamsAreShared == Spec => []SharedOnlyAfterMisrelease
<1>1. CacheInv => SharedOnlyAfterMisrelease
  BY DEF CacheInv
<1> QED
  BY <1>1, CacheInvariant, PTL

-----------------------------------------------------------------------------
(* the usage order *)

OrderNodes == [path : Paths, node : Nat]

\* Node n of the order is the one of path p, and the latest.
IsNodeOf(order, p, n) ==
  \E i \in DOMAIN order :
    /\ order[i] = [path |-> p, node |-> n]
    /\ \A j \in DOMAIN order :
         j # i => /\ order[j].node # n
                  /\ order[j].path = p => j > i

\* Of one number more than there are nodes, one is free.
LEMMA FreshIsFresh ==
  ASSUME NEW order \in Seq(OrderNodes)
  PROVE  /\ FreshNode(order) \in Nat
         /\ \A i \in DOMAIN order : order[i].node # FreshNode(order)
<1>1. PICK n \in Nat : n = Len(order) /\ DOMAIN order = 1..n
  OBVIOUS
<1> DEFINE F == [i \in 1..n |-> order[i].node]
           T == {order[i].node : i \in 1..n}
<1>2. IsFiniteSet(T) /\ Cardinality(T) <= n
  <2>1. IsFiniteSet(1..n) /\ Cardinality(1..n) = n
    BY FS_Interval
  <2>2. F \in [1..n -> T] /\ \A t \in T : \E i \in 1..n : F[i] = t
    OBVIOUS
  <2> HIDE DEF F, T
  <2>3. F \in Surjection(1..n, T)
    BY <2>2 DEF Surjection
  <2> QED
    BY <2>1, <2>3, FS_Surjection
<1>3. \E m \in 1..n + 1 : m \notin T
  <2>1. SUFFICES ASSUME 1..n + 1 \subseteq T PROVE FALSE
    OBVIOUS
  <2>2. PICK m \in Nat : m = n + 1
    OBVIOUS
  <2>3. Cardinality(1..m) = m /\ IsFiniteSet(1..m)
    BY FS_Interval
  <2>4. Cardinality(1..m) <= Cardinality(T) /\ Cardinality(T) \in Nat
    <3> HIDE DEF T
    <3> QED
      BY <1>2, <2>1, <2>2, FS_Subset, FS_CardinalityType
  <2> QED
    BY <1>2, <2>2, <2>3, <2>4
<1>4. \E m \in 1..Len(order) + 1 : \A i \in DOMAIN order : order[i].node # m
  BY <1>1, <1>3
<1>5. /\ FreshNode(order) \in 1..Len(order) + 1
      /\ \A i \in DOMAIN order : order[i].node # FreshNode(order)
  BY <1>4, Zenon DEF FreshNode
<1> QED
  BY <1>1, <1>5

\* The new node is the first, the others move up by one.
LEMMA PushedFront ==
  ASSUME NEW order \in Seq(OrderNodes), NEW p \in Paths
  PROVE  /\ PushFront(order, p) \in Seq(OrderNodes)
         /\ Len(PushFront(order, p)) = Len(order) + 1
         /\ PushFront(order, p)[1] = [path |-> p, node |-> FreshNode(order)]
         /\ \A i \in 2..Len(order) + 1 : PushFront(order, p)[i] = order[i - 1]
<1>1. PICK x \in OrderNodes : x = [path |-> p, node |-> FreshNode(order)]
  BY FreshIsFresh DEF OrderNodes
<1>2. <<x>> \in Seq(OrderNodes) /\ Len(<<x>>) = 1 /\ <<x>>[1] = x
  OBVIOUS
<1>3. PICK s \in Seq(OrderNodes) : s = <<x>>
  BY <1>2
<1>4. PushFront(order, p) = s \o order
  BY <1>1, <1>3 DEF PushFront
<1>5. /\ s \o order \in Seq(OrderNodes) /\ Len(s \o order) = Len(s) + Len(order)
      /\ \A i \in 1..Len(s) + Len(order) :
           (s \o order)[i] = IF i <= Len(s) THEN s[i] ELSE order[i - Len(s)]
  BY ConcatProperties, Zenon
<1>6. PICK w : w = s \o order
  OBVIOUS
<1>7. PICK n \in Nat : n = Len(order)
  OBVIOUS
<1>8. /\ w \in Seq(OrderNodes) /\ Len(w) = 1 + n
      /\ \A i \in 1..1 + n : w[i] = IF i <= 1 THEN x ELSE order[i - 1]
  BY <1>2, <1>3, <1>5, <1>6, <1>7
<1> QED
  BY <1>1, <1>4, <1>6, <1>7, <1>8

\* The node erased is one of its path, the others keep their order.
LEMMA ErasedNode ==
  ASSUME NEW order \in Seq(OrderNodes), NEW p, NEW n, IsNodeOf(order, p, n)
  PROVE  \E i \in 1..Len(order) :
           /\ order[i].path = p
           /\ EraseNode(order, n) \in Seq(OrderNodes)
           /\ Len(EraseNode(order, n)) = Len(order) - 1
           /\ \A j \in 1..Len(order) - 1 :
                EraseNode(order, n)[j] = IF j < i THEN order[j] ELSE order[j + 1]
<1>1. PICK i \in DOMAIN order :
        /\ order[i] = [path |-> p, node |-> n]
        /\ \A j \in DOMAIN order : j # i => order[j].node # n
  BY DEF IsNodeOf
<1>2. (CHOOSE j \in DOMAIN order : order[j].node = n) = i
  <2>1. order[i].node = n
    BY <1>1
  <2> QED
    BY <1>1, <2>1
<1>3. PICK l \in Nat : l = Len(order) /\ i \in 1..l
  OBVIOUS
<1>4. EraseNode(order, n) = SubSeq(order, 1, i - 1) \o SubSeq(order, i + 1, l)
  BY <1>2, <1>3, Zenon DEF EraseNode, RemoveAt
<1>5. PICK a : a = SubSeq(order, 1, i - 1)
  OBVIOUS
<1>6. PICK c : c = SubSeq(order, i + 1, l)
  OBVIOUS
<1>7. a \in Seq(OrderNodes) /\ Len(a) = i - 1 /\ \A j \in 1..i - 1 : a[j] = order[j]
  <2>1. \A j \in 1..i - 1 : order[j] \in OrderNodes
    BY <1>3
  <2> QED
    BY <1>3, <1>5, <2>1, SubSeqProperties
<1>8. c \in Seq(OrderNodes) /\ Len(c) = l - i /\ \A j \in 1..l - i : c[j] = order[i + j]
  <2>1. \A j \in i + 1..l : order[j] \in OrderNodes
    BY <1>3
  <2> QED
    BY <1>3, <1>6, <2>1, SubSeqProperties
<1>9. /\ a \o c \in Seq(OrderNodes) /\ Len(a \o c) = Len(a) + Len(c)
      /\ \A j \in 1..Len(a) + Len(c) :
           (a \o c)[j] = IF j <= Len(a) THEN a[j] ELSE c[j - Len(a)]
  BY <1>7, <1>8, ConcatProperties, Zenon
<1>10. PICK w : w = a \o c
  OBVIOUS
<1>11. /\ w \in Seq(OrderNodes) /\ Len(w) = l - 1
       /\ \A j \in 1..l - 1 : w[j] = IF j < i THEN order[j] ELSE order[j + 1]
  <2>1. /\ w \in Seq(OrderNodes) /\ Len(w) = (i - 1) + (l - i)
        /\ \A j \in 1..(i - 1) + (l - i) : w[j] = IF j <= i - 1 THEN a[j] ELSE c[j - (i - 1)]
    BY <1>7, <1>8, <1>9, <1>10
  <2>2. (i - 1) + (l - i) = l - 1
    BY <1>3
  <2>3. ASSUME NEW j \in 1..l - 1 PROVE w[j] = IF j < i THEN order[j] ELSE order[j + 1]
    <3>1. CASE j < i
      BY <1>3, <1>7, <2>1, <2>2, <3>1
    <3>2. CASE ~(j < i)
      <4>1. j - (i - 1) \in 1..l - i /\ i + (j - (i - 1)) = j + 1 /\ ~(j <= i - 1)
        BY <1>3, <3>2
      <4>2. w[j] = c[j - (i - 1)]
        BY <2>1, <2>2, <4>1
      <4> QED
        BY <1>8, <3>2, <4>1, <4>2
    <3> QED
      BY <3>1, <3>2
  <2> QED
    BY <2>1, <2>2, <2>3
<1>12. order[i].path = p
  BY <1>1
<1> QED
  BY <1>3, <1>4, <1>5, <1>6, <1>10, <1>11, <1>12

\* A node pushed is its path's latest.
LEMMA PushedIsNode ==
  ASSUME NEW order \in Seq(OrderNodes), NEW p \in Paths
  PROVE  IsNodeOf(PushFront(order, p), p, PushFront(order, p)[1].node)
<1>1. PICK w \in Seq(OrderNodes) : w = PushFront(order, p)
  BY PushedFront
<1>2. PICK n \in Nat : n = Len(order)
  OBVIOUS
<1>3. PICK k : k = FreshNode(order)
  OBVIOUS
<1>4. /\ DOMAIN w = 1..n + 1 /\ w[1] = [path |-> p, node |-> k]
      /\ \A i \in 2..n + 1 : w[i] = order[i - 1]
  BY <1>1, <1>2, <1>3, PushedFront
<1>5. \A i \in 1..n : order[i].node # k
  BY <1>2, <1>3, FreshIsFresh
<1>6. ASSUME NEW j \in 1..n + 1, j # 1 PROVE w[j].node # k /\ j > 1
  <2>1. j \in 2..n + 1 /\ j - 1 \in 1..n
    BY <1>6
  <2> QED
    BY <1>4, <1>5, <2>1
<1>7. 1 \in 1..n + 1 /\ w[1].node = k
  BY <1>4
<1> QED
  BY <1>1, <1>4, <1>6, <1>7 DEF IsNodeOf

\* The nodes of other paths stay theirs.
LEMMA PushedOther ==
  ASSUME NEW order \in Seq(OrderNodes), NEW p \in Paths, NEW q, q # p, NEW n, IsNodeOf(order, q, n)
  PROVE  IsNodeOf(PushFront(order, p), q, n)
<1>1. PICK w \in Seq(OrderNodes) : w = PushFront(order, p)
  BY PushedFront
<1>2. PICK l \in Nat : l = Len(order) /\ DOMAIN order = 1..l
  OBVIOUS
<1>3. PICK k : k = FreshNode(order)
  OBVIOUS
<1>4. /\ DOMAIN w = 1..l + 1 /\ w[1] = [path |-> p, node |-> k]
      /\ \A i \in 2..l + 1 : w[i] = order[i - 1]
  BY <1>1, <1>2, <1>3, PushedFront
<1>5. PICK i \in 1..l : /\ order[i] = [path |-> q, node |-> n]
                        /\ \A j \in 1..l : j # i => /\ order[j].node # n
                                                    /\ order[j].path = q => j > i
  BY <1>2 DEF IsNodeOf
<1>6. n # k
  BY <1>2, <1>3, <1>5, FreshIsFresh
<1>7. i + 1 \in 1..l + 1 /\ i + 1 \in 2..l + 1 /\ (i + 1) - 1 = i
  OBVIOUS
<1>8. w[i + 1] = [path |-> q, node |-> n]
  BY <1>4, <1>5, <1>7
<1>9. ASSUME NEW j \in 1..l + 1, j # i + 1
      PROVE  w[j].node # n /\ (w[j].path = q => j > i + 1)
  <2>1. CASE j = 1
    BY <1>4, <1>6, <2>1
  <2>2. CASE j # 1
    <3>1. j \in 2..l + 1 /\ j - 1 \in 1..l /\ j - 1 # i /\ (j - 1 > i => j > i + 1)
      BY <1>9, <2>2
    <3>2. w[j] = order[j - 1]
      BY <1>4, <3>1
    <3> QED
      BY <1>5, <3>1, <3>2
  <2> QED
    BY <2>1, <2>2
<1> QED
  BY <1>1, <1>4, <1>7, <1>8, <1>9 DEF IsNodeOf

\* So do they when a node of another path is erased.
LEMMA ErasedOther ==
  ASSUME NEW order \in Seq(OrderNodes), NEW p, NEW m, IsNodeOf(order, p, m),
         NEW q, q # p, NEW n, IsNodeOf(order, q, n)
  PROVE  IsNodeOf(EraseNode(order, m), q, n)
<1>1. PICK w : w = EraseNode(order, m)
  OBVIOUS
<1>2. PICK l \in Nat : l = Len(order) /\ DOMAIN order = 1..l
  OBVIOUS
<1>3. PICK e \in 1..l :
        /\ order[e].path = p /\ w \in Seq(OrderNodes) /\ Len(w) = l - 1
        /\ \A j \in 1..l - 1 : w[j] = IF j < e THEN order[j] ELSE order[j + 1]
  <2>1. PICK e \in 1..Len(order) :
          /\ order[e].path = p
          /\ EraseNode(order, m) \in Seq(OrderNodes)
          /\ Len(EraseNode(order, m)) = Len(order) - 1
          /\ \A j \in 1..Len(order) - 1 :
               EraseNode(order, m)[j] = IF j < e THEN order[j] ELSE order[j + 1]
    BY ErasedNode
  <2>2. /\ order[e].path = p /\ w \in Seq(OrderNodes) /\ Len(w) = l - 1
        /\ \A j \in 1..l - 1 : w[j] = IF j < e THEN order[j] ELSE order[j + 1]
    BY <1>1, <1>2, <2>1
  <2> QED
    BY <1>2, <2>2
<1>4. DOMAIN w = 1..l - 1
  BY <1>3
<1>5. PICK i \in 1..l : /\ order[i] = [path |-> q, node |-> n]
                        /\ \A j \in 1..l : j # i => /\ order[j].node # n
                                                    /\ order[j].path = q => j > i
  BY <1>2 DEF IsNodeOf
<1>6. i # e
  BY <1>3, <1>5
<1>7. PICK a \in 1..l - 1 : a = IF i < e THEN i ELSE i - 1
  BY <1>6
<1>8. w[a] = order[i]
  <2>1. CASE i < e
    BY <1>3, <1>7, <2>1
  <2>2. CASE ~(i < e)
    <3>1. ~(a < e) /\ a + 1 = i
      BY <1>6, <1>7, <2>2
    <3> QED
      BY <1>3, <3>1
  <2> QED
    BY <2>1, <2>2
<1>9. ASSUME NEW j \in 1..l - 1, j # a
      PROVE  w[j].node # n /\ (w[j].path = q => j > a)
  <2>1. PICK b \in 1..l : b = (IF j < e THEN j ELSE j + 1) /\ w[j] = order[b]
    BY <1>3
  <2>2. b # i /\ (b > i => j > a)
    BY <1>6, <1>7, <1>9, <2>1
  <2> QED
    BY <1>5, <2>1, <2>2
<1> QED
  BY <1>1, <1>4, <1>5, <1>8, <1>9 DEF IsNodeOf

-----------------------------------------------------------------------------
(* the entries and the usage order *)

\* EntryHasItsNode, node by node.
LEMMA NodesOfEntries ==
  EntryHasItsNode <=> \A p \in Entries : IsNodeOf(m_usage_order, p, m_file_stream[p].node)
BY DEF EntryHasItsNode, IsNodeOf

\* What Hit and Release do to the entry and the node of a path.
LEMMA MarkedNode ==
  ASSUME CacheInv, TypeOK, EntryHasItsNode, NEW p \in Entries, NEW used \in BOOLEAN,
         m_usage_order' = Moved(m_usage_order, p, m_file_stream[p].node),
         m_file_stream' = [m_file_stream EXCEPT ![p].in_use = used,
                                                ![p].node = m_usage_order'[1].node]
  PROVE  /\ EntryHasItsNode' /\ m_usage_order' \in Seq(OrderNodes)
         /\ Entries' = Entries /\ \A q \in Entries : m_file_stream'[q] \in EntryType
<1> DEFINE erased == EraseNode(m_usage_order, m_file_stream[p].node)
           n == m_usage_order'[1].node
<1>1. /\ m_usage_order \in Seq(OrderNodes) /\ p \in Paths
      /\ \A q \in Entries : IsNodeOf(m_usage_order, q, m_file_stream[q].node)
      /\ \A q \in Entries : m_file_stream[q] \in EntryType
  BY NodesOfEntries DEF TypeOK, OrderNodes
<1>2. erased \in Seq(OrderNodes)
  BY <1>1, ErasedNode
<1>3. m_usage_order' = PushFront(erased, p)
  BY DEF Moved
<1> HIDE DEF erased
<1>4. m_usage_order' \in Seq(OrderNodes) /\ n \in Nat
  <2>1. PICK w \in Seq(OrderNodes) : w = PushFront(erased, p)
    BY <1>1, <1>2, PushedFront
  <2>2. w[1] = [path |-> p, node |-> FreshNode(erased)]
    BY <1>1, <1>2, <2>1, PushedFront
  <2>3. FreshNode(erased) \in Nat
    BY <1>2, FreshIsFresh
  <2> QED
    BY <1>3, <2>1, <2>2, <2>3
<1>5. IsNodeOf(m_usage_order', p, n)
  BY <1>1, <1>2, <1>3, PushedIsNode
<1>6. ASSUME NEW q \in Entries, q # p
      PROVE  IsNodeOf(m_usage_order', q, m_file_stream[q].node)
  <2>1. IsNodeOf(erased, q, m_file_stream[q].node)
    BY <1>1, <1>6, ErasedOther DEF erased
  <2> QED
    BY <1>1, <1>2, <1>3, <1>6, <2>1, PushedOther
<1> DEFINE marked == [m_file_stream[p] EXCEPT !.in_use = used, !.node = n]
<1> HIDE DEF n
<1>7. m_file_stream' = [m_file_stream EXCEPT ![p] = marked]
  BY Zenon DEF Entries, n
<1>8. marked \in EntryType /\ marked.node = n
  <2>1. PICK entry \in EntryType : entry = m_file_stream[p]
    BY <1>1
  <2>2. marked = [entry EXCEPT !.in_use = used, !.node = n]
    BY <2>1
  <2> HIDE DEF marked
  <2> QED
    BY <1>4, <2>1, <2>2 DEF EntryType, n
<1> HIDE DEF marked
<1>9. /\ Entries' = Entries /\ m_file_stream'[p] = marked
      /\ \A q \in Entries : q # p => m_file_stream'[q] = m_file_stream[q]
  BY <1>7 DEF CacheInv, StreamsAreOpened, Entries
<1>10. \A q \in Entries' : IsNodeOf(m_usage_order', q, m_file_stream'[q].node)
  BY <1>5, <1>6, <1>8, <1>9
<1>11. EntryHasItsNode'
  BY <1>10 DEF EntryHasItsNode, IsNodeOf
<1> QED
  BY <1>1, <1>4, <1>8, <1>9, <1>11

NodesInv == TypeOK /\ EntryHasItsNode

\* What a call leaves alone keeps its type.
LEMMA SameNodes ==
  ASSUME NodesInv, UNCHANGED <<m_file_stream, m_usage_order>>,
         m_mutex' \in Users \cup {Nobody},
         opened' \in Nat, contested' \subseteq Paths, misreleased' \subseteq Nat,
         want' \in [Users -> [path : Paths, mode : Modes] \cup {Nothing}],
         hold' \in [Users -> [path : Paths, stream : Nat] \cup {NoStream}]
  PROVE  NodesInv'
BY DEF NodesInv, TypeOK, EntryHasItsNode, Entries

\* A hit moves its node to the front.
LEMMA HitNodes ==
  ASSUME CacheInv, NodesInv, NEW u \in Users, Hit(u)
  PROVE  NodesInv'
<1>1. PICK p : p = want[u].path
  OBVIOUS
<1>2. /\ p \in Entries /\ p \in Paths
      /\ m_usage_order' = Moved(m_usage_order, p, m_file_stream[p].node)
      /\ m_file_stream' = [m_file_stream EXCEPT ![p].in_use = TRUE,
                                                ![p].node = m_usage_order'[1].node]
  BY <1>1 DEF Hit, Fits, NodesInv, TypeOK
<1>3. PICK s \in Nat : s = m_file_stream[p].stream
  BY <1>2 DEF NodesInv, TypeOK, EntryType
<1>4. /\ hold' = [hold EXCEPT ![u] = [path |-> p, stream |-> s]]
      /\ want' = [want EXCEPT ![u] = Nothing]
      /\ UNCHANGED <<m_mutex, opened, contested, misreleased>>
  BY <1>1, <1>3 DEF Hit, Given
<1>5. /\ hold' \in [Users -> [path : Paths, stream : Nat] \cup {NoStream}]
      /\ want' \in [Users -> [path : Paths, mode : Modes] \cup {Nothing}]
  BY <1>2, <1>4 DEF NodesInv, TypeOK
<1>6. /\ EntryHasItsNode' /\ m_usage_order' \in Seq(OrderNodes)
      /\ Entries' = Entries /\ \A q \in Entries : m_file_stream'[q] \in EntryType
  BY <1>2, MarkedNode DEF NodesInv
<1> QED
  BY <1>4, <1>5, <1>6 DEF NodesInv, TypeOK, OrderNodes

\* So does a release, if the path still has an entry.
LEMMA ReleaseNodes ==
  ASSUME CacheInv, NodesInv, NEW u \in Users, Release(u)
  PROVE  NodesInv'
<1>1. PICK p : p = hold[u].path
  OBVIOUS
<1>2. /\ hold' = [hold EXCEPT ![u] = NoStream]
      /\ UNCHANGED <<m_mutex, opened, want, contested>>
  BY DEF Release
<1>3. /\ hold' \in [Users -> [path : Paths, stream : Nat] \cup {NoStream}]
      /\ m_mutex' \in Users \cup {Nobody} /\ opened' \in Nat /\ contested' \subseteq Paths
      /\ want' \in [Users -> [path : Paths, mode : Modes] \cup {Nothing}]
  BY <1>2 DEF NodesInv, TypeOK
<1>4. CASE p \notin Entries
  <2>1. UNCHANGED <<m_usage_order, m_file_stream, misreleased>>
    BY <1>1, <1>4 DEF Release
  <2>2. misreleased' \subseteq Nat
    BY <2>1 DEF NodesInv, TypeOK
  <2> QED
    BY <1>3, <2>1, <2>2, SameNodes
<1>5. CASE p \in Entries
  <2>1. /\ m_usage_order' = Moved(m_usage_order, p, m_file_stream[p].node)
        /\ m_file_stream' = [m_file_stream EXCEPT ![p].in_use = FALSE,
                                                  ![p].node = m_usage_order'[1].node]
        /\ misreleased' \subseteq misreleased \cup {m_file_stream[p].stream}
    BY <1>1, <1>5 DEF Release
  <2>2. misreleased' \subseteq Nat
    BY <1>5, <2>1 DEF NodesInv, TypeOK, EntryType
  <2>3. /\ EntryHasItsNode' /\ m_usage_order' \in Seq(OrderNodes)
        /\ Entries' = Entries /\ \A q \in Entries : m_file_stream'[q] \in EntryType
    BY <1>5, <2>1, MarkedNode DEF NodesInv
  <2> QED
    BY <1>3, <2>2, <2>3 DEF NodesInv, TypeOK, OrderNodes
<1> QED
  BY <1>4, <1>5

\* A new entry gets a new node; the node of one it replaces stays behind, older.
LEMMA OpenNodes ==
  ASSUME CacheInv, NodesInv, NEW u \in Users, Open(u)
  PROVE  NodesInv'
<1>1. PICK p, mode : p = want[u].path /\ mode = want[u].mode
  OBVIOUS
<1>2. p \in Paths /\ mode \in Modes
  BY <1>1 DEF Open, Asking, NodesInv, TypeOK
<1>3. PICK s \in Nat : s = opened + 1
  BY DEF NodesInv, TypeOK
<1>4. PICK n : n = m_usage_order'[1].node
  OBVIOUS
<1>5. PICK made : made = [stream |-> s, node |-> n, in_use |-> TRUE, mode |-> mode]
  OBVIOUS
<1>6. /\ m_usage_order' = PushFront(m_usage_order, p)
      /\ m_file_stream' = [q \in Entries \cup {p} |-> IF q = p THEN made ELSE m_file_stream[q]]
      /\ contested' \subseteq contested \cup {p} /\ opened' = s
      /\ hold' = [hold EXCEPT ![u] = [path |-> p, stream |-> s]]
      /\ want' = [want EXCEPT ![u] = Nothing]
      /\ UNCHANGED <<m_mutex, misreleased>>
  BY <1>1, <1>3, <1>4, <1>5 DEF Open, Given
<1>7. /\ hold' \in [Users -> [path : Paths, stream : Nat] \cup {NoStream}]
      /\ want' \in [Users -> [path : Paths, mode : Modes] \cup {Nothing}]
      /\ contested' \subseteq Paths
  BY <1>2, <1>6 DEF NodesInv, TypeOK
<1>8. /\ m_usage_order \in Seq(OrderNodes)
      /\ \A q \in Entries : IsNodeOf(m_usage_order, q, m_file_stream[q].node)
      /\ \A q \in Entries : m_file_stream[q] \in EntryType /\ q \in Paths
  BY NodesOfEntries DEF NodesInv, TypeOK, OrderNodes
<1>9. m_usage_order' \in Seq(OrderNodes) /\ n \in Nat
  <2>1. PICK w \in Seq(OrderNodes) : w = PushFront(m_usage_order, p)
    BY <1>2, <1>8, PushedFront
  <2>2. w[1] = [path |-> p, node |-> FreshNode(m_usage_order)]
    BY <1>2, <1>8, <2>1, PushedFront
  <2>3. FreshNode(m_usage_order) \in Nat
    BY <1>8, FreshIsFresh
  <2> QED
    BY <1>4, <1>6, <2>1, <2>2, <2>3
<1>10. made \in EntryType /\ made.node = n
  BY <1>2, <1>5, <1>9 DEF EntryType
<1>11. /\ Entries' = Entries \cup {p} /\ m_file_stream'[p] = made
       /\ \A q \in Entries : q # p => m_file_stream'[q] = m_file_stream[q]
  BY <1>6 DEF Entries
<1>12. IsNodeOf(m_usage_order', p, n)
  BY <1>2, <1>4, <1>6, <1>8, PushedIsNode
<1>13. ASSUME NEW q \in Entries, q # p
       PROVE  IsNodeOf(m_usage_order', q, m_file_stream[q].node)
  BY <1>2, <1>6, <1>8, <1>13, PushedOther
<1>14. \A q \in Entries' : IsNodeOf(m_usage_order', q, m_file_stream'[q].node)
  BY <1>10, <1>11, <1>12, <1>13
<1>15. EntryHasItsNode'
  BY <1>14 DEF EntryHasItsNode, IsNodeOf
<1> QED
  BY <1>2, <1>6, <1>7, <1>8, <1>9, <1>10, <1>11, <1>15 DEF NodesInv, TypeOK, OrderNodes

\* The other calls leave entries and order alone.
LEMMA OtherNodes ==
  ASSUME NodesInv, NEW u \in Users,
         \/ \E p \in Paths, mode \in Modes : Ask(u, p, mode)
         \/ OpenFails(u) \/ Evict(u) \/ Forget(u)
  PROVE  NodesInv'
<1>1. UNCHANGED <<m_file_stream, m_usage_order, opened, contested, misreleased>>
  BY DEF Ask, OpenFails, Evict, Forget, cacheVars
<1>2. m_mutex' \in Users \cup {Nobody}
  BY DEF NodesInv, TypeOK, Ask, OpenFails, Evict, Forget, cacheVars
<1>3. want' \in [Users -> [path : Paths, mode : Modes] \cup {Nothing}]
  BY DEF NodesInv, TypeOK, Ask, OpenFails, Evict, Forget, Nothing
<1>4. hold' \in [Users -> [path : Paths, stream : Nat] \cup {NoStream}]
  BY DEF NodesInv, TypeOK, Ask, OpenFails, Evict, Forget
<1>5. opened' \in Nat /\ contested' \subseteq Paths /\ misreleased' \subseteq Nat
  BY <1>1 DEF NodesInv, TypeOK
<1> QED
  BY <1>1, <1>2, <1>3, <1>4, <1>5, SameNodes

\* Nothing is left.
LEMMA DestroyNodes ==
  ASSUME NodesInv, Destroy
  PROVE  NodesInv'
<1>1. Entries' = {} /\ m_usage_order' = <<>>
  BY DEF Destroy, Entries
<1>2. UNCHANGED <<m_mutex, opened, want, hold, contested, misreleased>>
  BY DEF Destroy
<1>3. <<>> \in Seq([path : Paths, node : Nat])
  OBVIOUS
<1> QED
  BY <1>1, <1>2, <1>3 DEF NodesInv, TypeOK, EntryHasItsNode

\* There is nothing yet.
LEMMA NodesInit == Init => NodesInv
<1> SUFFICES ASSUME Init PROVE NodesInv
  OBVIOUS
<1>1. Entries = {} /\ m_usage_order = <<>>
  BY DEF Init, Entries
<1>2. <<>> \in Seq([path : Paths, node : Nat])
  OBVIOUS
<1> QED
  BY <1>1, <1>2 DEF Init, NodesInv, TypeOK, EntryHasItsNode

\* An entry's iterator always points to the node of its path in m_usage_order, so that
\* update_usage_order never erases through a dangling one, and streams are shared only
\* after a wrong release, for any number of threads, paths, modes and streams.
THEOREM ExclusiveStreams == Spec => []StreamsAreExclusive
<1>1. CacheInv /\ NodesInv /\ [Next]_vars => NodesInv'
  <2> SUFFICES ASSUME CacheInv, NodesInv, [Next]_vars PROVE NodesInv'
    OBVIOUS
  <2>1. ASSUME NEW u \in Users, NEW p \in Paths, NEW mode \in Modes, Ask(u, p, mode)
        PROVE  NodesInv'
    BY <2>1, OtherNodes
  <2>2. ASSUME NEW u \in Users, GetFileStream(u) PROVE NodesInv'
    BY <2>2, HitNodes, OpenNodes, OtherNodes DEF GetFileStream
  <2>3. ASSUME NEW u \in Users, Release(u) PROVE NodesInv'
    BY <2>3, ReleaseNodes
  <2>4. ASSUME NEW u \in Users, Forget(u) PROVE NodesInv'
    BY <2>4, OtherNodes
  <2>5. CASE Destroy
    BY <2>5, DestroyNodes
  <2>6. CASE UNCHANGED vars
    BY <2>6, SameNodes DEF vars, NodesInv, TypeOK
  <2> QED
    BY <2>1, <2>2, <2>3, <2>4, <2>5, <2>6 DEF Next
<1>2. CacheInv /\ NodesInv => StreamsAreExclusive
  BY DEF CacheInv, NodesInv, StreamsAreExclusive
<1> QED
  BY <1>1, <1>2, NodesInit, CacheInvariant, PTL DEF Spec

-----------------------------------------------------------------------------
(* counting *)

\* A set that has 0 and the successor of each of its numbers has them all.
LEMMA Counting ==
  ASSUME NEW S, 0 \in S, \A n \in Nat : n \in S => n + 1 \in S
  PROVE  Nat \subseteq S
<1> DEFINE T == Nat \ S
<1>1. SUFFICES ASSUME T # {} PROVE FALSE
  OBVIOUS
<1> DEFINE R == OpToRel(<, Nat)
<1>0. IsWellFoundedOn(R, Nat) /\ T \subseteq Nat
  BY NatLessThanWellFounded, Zenon
<1>5. ASSUME NEW a \in Nat, NEW b \in Nat, a < b PROVE <<a, b>> \in R
  BY <1>5 DEF OpToRel
<1> HIDE DEF R
<1>2. PICK x \in T : \A y \in T : ~ (<<y, x>> \in R)
  BY <1>0, <1>1, WFMin
<1>3. x \in Nat /\ x # 0 /\ x - 1 \in Nat /\ x - 1 < x /\ x - 1 + 1 = x
  BY DEF T
<1>4. x - 1 \in T
  BY <1>3 DEF T
<1> QED
  BY <1>2, <1>3, <1>4, <1>5

-----------------------------------------------------------------------------
(* the skip list: its shape *)

NodeType == [key : Keys, value : Values, nexts : UNION {[1..l -> Nat] : l \in 1..MaxLevel}]

\* The place of a node in the order of the keys; the head is before all.
Rank(nodes, c) == IF c = Nil THEN 0 ELSE nodes[c].key + 1

After(nodes, heads, c, i) == IF c = Nil THEN heads[i] ELSE nodes[c].nexts[i]

\* Of some nodes those of a level, and the head.
Of(nodes, L, i) == {Nil} \cup {n \in L : i \in DOMAIN nodes[n].nexts}

\* Pointers of a level lead to nodes of the level, of a greater key.
Upward(nodes, heads) ==
  \A i \in 1..MaxLevel : \A c \in Of(nodes, DOMAIN nodes, i) :
    LET d == After(nodes, heads, c, i)
    IN d \in Of(nodes, DOMAIN nodes, i) /\ (d # Nil => Rank(nodes, c) < Rank(nodes, d))

\* Every level links the nodes that have it, of those in L, in the order of their keys.
Chained(nodes, heads, L) ==
  /\ L \subseteq DOMAIN nodes
  /\ \A a, b \in L : nodes[a].key = nodes[b].key => a = b
  /\ \A i \in 1..MaxLevel : \A c \in Of(nodes, L, i) :
       LET d == After(nodes, heads, c, i)
       IN /\ d \in Of(nodes, L, i)
          /\ d # Nil => Rank(nodes, c) < Rank(nodes, d)
          /\ \A e \in Of(nodes, L, i) :
               Rank(nodes, c) < Rank(nodes, e) => d # Nil /\ Rank(nodes, d) <= Rank(nodes, e)

Shape(nodes, heads) ==
  /\ nodes \in Seq(NodeType)
  /\ heads \in [1..MaxLevel -> Nat]
  /\ Upward(nodes, heads)

\* What is known of a node.
LEMMA NodesAre ==
  ASSUME NEW nodes, NEW heads, Shape(nodes, heads)
  PROVE  /\ Len(nodes) \in Nat /\ DOMAIN nodes = 1..Len(nodes) /\ Nil \notin DOMAIN nodes
         /\ \A n \in DOMAIN nodes :
              /\ nodes[n].key \in Keys /\ nodes[n].key \in Nat /\ nodes[n].value \in Values
              /\ \E l \in 1..MaxLevel : nodes[n].nexts \in [1..l -> Nat]
              /\ 1 \in DOMAIN nodes[n].nexts
              /\ DOMAIN nodes[n].nexts \subseteq 1..MaxLevel
              /\ nodes[n] = [key |-> nodes[n].key, value |-> nodes[n].value,
                             nexts |-> nodes[n].nexts]
         /\ \A c \in {Nil} \cup DOMAIN nodes :
              Rank(nodes, c) \in Nat /\ (c # Nil => Rank(nodes, c) > 0)
<1>1. nodes \in Seq(NodeType)
  BY DEF Shape
<1>2. Len(nodes) \in Nat /\ DOMAIN nodes = 1..Len(nodes) /\ \A n \in DOMAIN nodes : nodes[n] \in NodeType
  BY <1>1
<1>3. Nil \notin DOMAIN nodes
  BY <1>2 DEF Nil
<1>4. ASSUME NEW n \in DOMAIN nodes
      PROVE  /\ nodes[n].key \in Keys /\ nodes[n].key \in Nat /\ nodes[n].value \in Values
             /\ \E l \in 1..MaxLevel : nodes[n].nexts \in [1..l -> Nat]
             /\ 1 \in DOMAIN nodes[n].nexts
             /\ DOMAIN nodes[n].nexts \subseteq 1..MaxLevel
             /\ nodes[n] = [key |-> nodes[n].key, value |-> nodes[n].value, nexts |-> nodes[n].nexts]
  <2>1. nodes[n] \in NodeType
    BY <1>2
  <2>2. PICK l \in 1..MaxLevel : nodes[n].nexts \in [1..l -> Nat]
    BY <2>1 DEF NodeType
  <2>3. DOMAIN nodes[n].nexts = 1..l /\ 1 \in 1..l /\ 1..l \subseteq 1..MaxLevel
    BY <2>2, ListAssumption
  <2>4. nodes[n].key \in Keys /\ nodes[n].value \in Values
    BY <2>1 DEF NodeType
  <2>5. nodes[n] = [key |-> nodes[n].key, value |-> nodes[n].value, nexts |-> nodes[n].nexts]
    BY <2>1 DEF NodeType
  <2> QED
    BY <2>2, <2>3, <2>4, <2>5, ListAssumption
<1>5. \A c \in {Nil} \cup DOMAIN nodes : Rank(nodes, c) \in Nat /\ (c # Nil => Rank(nodes, c) > 0)
  BY <1>4 DEF Rank
<1> QED
  BY <1>2, <1>3, <1>4, <1>5

-----------------------------------------------------------------------------
(* the search *)

\* The loop along a level, as far as it is known where it ends.
Walks(f, i, key) ==
  f = [n \in Tall(i) |-> IF Before(NextOf(n, i), key) THEN f[NextOf(n, i)] ELSE n]

\* What Before says, by the places.
LEMMA BeforeIs ==
  ASSUME Shape(node, head), NEW i \in 1..MaxLevel, NEW key \in Nat, NEW n \in Tall(i)
  PROVE  /\ NextOf(n, i) \in Tall(i) /\ NextOf(n, i) = After(node, head, n, i)
         /\ Before(NextOf(n, i), key) <=> NextOf(n, i) # Nil /\ Rank(node, NextOf(n, i)) <= key
         /\ NextOf(n, i) # Nil => Rank(node, n) < Rank(node, NextOf(n, i))
         /\ Rank(node, n) \in Nat /\ Rank(node, NextOf(n, i)) \in Nat
<1>1. Tall(i) = Of(node, DOMAIN node, i) /\ NextOf(n, i) = After(node, head, n, i)
  BY DEF Tall, Of, NextOf, After
<1>2. /\ NextOf(n, i) \in Tall(i)
      /\ NextOf(n, i) # Nil => Rank(node, n) < Rank(node, NextOf(n, i))
  BY <1>1 DEF Shape, Upward
<1>3. Tall(i) \subseteq {Nil} \cup DOMAIN node
  BY DEF Tall
<1>4. Rank(node, n) \in Nat /\ Rank(node, NextOf(n, i)) \in Nat
  BY <1>2, <1>3, NodesAre
<1>5. NextOf(n, i) # Nil => node[NextOf(n, i)].key \in Nat
  BY <1>2, <1>3, NodesAre
<1>6. Before(NextOf(n, i), key) <=> NextOf(n, i) # Nil /\ Rank(node, NextOf(n, i)) <= key
  BY <1>5 DEF Before, Rank
<1> QED
  BY <1>1, <1>2, <1>4, <1>6

\* The loop ends.
LEMMA WalkExists ==
  ASSUME Shape(node, head), NEW i \in 1..MaxLevel, NEW key \in Nat
  PROVE  \E f : Walks(f, i, key)
<1> DEFINE Near(m) == {n \in Tall(i) : Rank(node, n) + m > key}
           On(f, n) == IF Before(NextOf(n, i), key) THEN f[NextOf(n, i)] ELSE n
           Sol(f, m) == f = [n \in Near(m) |-> On(f, n)]
           S == {m \in Nat : \E f : Sol(f, m)}
<1>1. 0 \in S
  <2> DEFINE f == [n \in Near(0) |-> n]
  <2>1. \A n \in Near(0) : On(f, n) = n
    BY BeforeIs
  <2>2. Sol(f, 0)
    BY <2>1
  <2> QED
    BY <2>2
<1>2. ASSUME NEW m \in Nat, m \in S PROVE m + 1 \in S
  <2>1. PICK f : Sol(f, m)
    BY <1>2
  <2> DEFINE g == [n \in Near(m + 1) |-> On(f, n)]
  <2>2. ASSUME NEW n \in Near(m + 1), Before(NextOf(n, i), key)
        PROVE  NextOf(n, i) \in Near(m) /\ NextOf(n, i) \in Near(m + 1)
    BY <2>2, BeforeIs
  <2>3. \A n \in Near(m) : f[n] = On(f, n)
    BY <2>1
  <2>4. \A n \in Near(m) : n \in Near(m + 1) => g[n] = f[n]
    BY <2>3
  <2>5. \A n \in Near(m + 1) : On(f, n) = On(g, n)
    <3> HIDE DEF g, Near
    <3> QED
      BY <2>2, <2>4
  <2>6. Sol(g, m + 1)
    BY <2>5
  <2> HIDE DEF Sol, g
  <2> QED
    BY <2>6
<1> HIDE DEF S
<1>3. key + 1 \in S
  BY <1>1, <1>2, Counting
<1>4. Near(key + 1) = Tall(i)
  <2>1. \A n \in Tall(i) : Rank(node, n) \in Nat
    BY BeforeIs
  <2> QED
    BY <2>1
<1> QED
  BY <1>3, <1>4 DEF S, Walks

\* c is the last of the nodes L of level i before the key.
LastBefore(L, c, i, key) ==
  /\ c \in Of(node, L, i) /\ Rank(node, c) <= key
  /\ After(node, head, c, i) # Nil => Rank(node, After(node, head, c, i)) > key

\* The nodes of a chain are in the list's memory.
LEMMA OfIsTall ==
  ASSUME NEW L, L \subseteq DOMAIN node, NEW i
  PROVE  Of(node, L, i) \subseteq Tall(i)
BY DEF Of, Tall

\* The loop along a level ends at the last node before the key.
LEMMA WalkIs ==
  ASSUME Shape(node, head), NEW L, Chained(node, head, L), NEW i \in 1..MaxLevel, NEW key \in Nat,
         NEW from \in Of(node, L, i), Rank(node, from) <= key
  PROVE  LastBefore(L, Walk(from, i, key), i, key)
<1> DEFINE walk == CHOOSE f : Walks(f, i, key)
<1>1. Walks(walk, i, key)
  <2>1. \E f : Walks(f, i, key)
    BY WalkExists
  <2> QED
    BY <2>1, Zenon
<1>2. Walk(from, i, key) = walk[from]
  BY DEF Walk, Walks
<1> HIDE DEF walk
<1>3. \A n \in Tall(i) : walk[n] = IF Before(NextOf(n, i), key) THEN walk[NextOf(n, i)] ELSE n
  BY <1>1 DEF Walks
<1>4. Of(node, L, i) \subseteq Tall(i)
  BY OfIsTall DEF Chained
<1> DEFINE T == {m \in Nat : \A c \in Of(node, L, i) :
                   Rank(node, c) <= key /\ Rank(node, c) + m > key => LastBefore(L, walk[c], i, key)}
<1>5. 0 \in T
  <2>1. \A c \in Of(node, L, i) : Rank(node, c) \in Nat
    BY <1>4, BeforeIs
  <2> QED
    BY <2>1
<1>6. ASSUME NEW m \in Nat, m \in T PROVE m + 1 \in T
  <2>1. SUFFICES ASSUME NEW c \in Of(node, L, i), Rank(node, c) <= key, Rank(node, c) + (m + 1) > key
                 PROVE  LastBefore(L, walk[c], i, key)
    BY <1>4, BeforeIs
  <2>2. /\ NextOf(c, i) = After(node, head, c, i) /\ NextOf(c, i) \in Of(node, L, i)
        /\ Before(NextOf(c, i), key) <=> NextOf(c, i) # Nil /\ Rank(node, NextOf(c, i)) <= key
        /\ NextOf(c, i) # Nil => Rank(node, c) < Rank(node, NextOf(c, i))
        /\ Rank(node, c) \in Nat /\ Rank(node, NextOf(c, i)) \in Nat
    BY <1>4, BeforeIs DEF Chained
  <2>3. CASE Before(NextOf(c, i), key)
    <3>1. walk[c] = walk[NextOf(c, i)]
      BY <1>3, <1>4, <2>3
    <3>2. Rank(node, NextOf(c, i)) <= key /\ Rank(node, NextOf(c, i)) + m > key
      BY <2>1, <2>2, <2>3
    <3> QED
      BY <1>6, <2>2, <3>1, <3>2
  <2>4. CASE ~Before(NextOf(c, i), key)
    <3>1. walk[c] = c
      BY <1>3, <1>4, <2>4
    <3> QED
      BY <2>1, <2>2, <2>4, <3>1 DEF LastBefore
  <2> QED
    BY <2>3, <2>4
<1> HIDE DEF T
<1>7. key + 1 \in T
  BY <1>5, <1>6, Counting
<1>8. Rank(node, from) \in Nat
  BY <1>4, BeforeIs
<1> QED
  BY <1>2, <1>7, <1>8 DEF T

\* The loop over the levels, down to level i.
Updates(f, i, key) ==
  f = [j \in i..MaxLevel |-> Walk(IF j = MaxLevel THEN Nil ELSE f[j + 1], j, key)]

\* It goes on from the highest level to the lowest.
LEMMA UpdatesExist ==
  ASSUME NEW key
  PROVE  \E f : Updates(f, 1, key)
<1> DEFINE On(f, j) == Walk(IF j = MaxLevel THEN Nil ELSE f[j + 1], j, key)
           Sol(f, m) == f = [j \in MaxLevel - m..MaxLevel |-> On(f, j)]
           S == {m \in Nat : m < MaxLevel => \E f : Sol(f, m)}
<1>0. MaxLevel \in Nat \ {0}
  BY ListAssumption
<1>1. 0 \in S
  <2> DEFINE f == [j \in MaxLevel - 0..MaxLevel |-> Walk(Nil, j, key)]
  <2>1. \A j \in MaxLevel - 0..MaxLevel : j = MaxLevel
    BY <1>0
  <2>2. \A j \in MaxLevel - 0..MaxLevel : On(f, j) = Walk(Nil, j, key)
    BY <2>1
  <2>3. Sol(f, 0)
    BY <2>2
  <2> QED
    BY <2>3
<1>2. ASSUME NEW m \in Nat, m \in S PROVE m + 1 \in S
  <2>1. SUFFICES ASSUME m + 1 < MaxLevel PROVE \E f : Sol(f, m + 1)
    OBVIOUS
  <2>2. PICK f : Sol(f, m)
    BY <1>0, <1>2, <2>1
  <2>3. PICK low \in Nat : low = MaxLevel - m /\ low - 1 = MaxLevel - (m + 1) /\ low <= MaxLevel /\ low > 0
    BY <1>0, <2>1
  <2> DEFINE g == [j \in low - 1..MaxLevel |-> On(f, j)]
  <2>4. \A j \in low..MaxLevel : f[j] = On(f, j)
    BY <2>2, <2>3
  <2>5. \A j \in low..MaxLevel : g[j] = f[j]
    BY <2>3, <2>4
  <2>6. ASSUME NEW j \in low - 1..MaxLevel PROVE On(f, j) = On(g, j)
    <3>1. CASE j = MaxLevel
      BY <3>1
    <3>2. CASE j # MaxLevel
      <4>1. j + 1 \in low..MaxLevel
        BY <1>0, <2>3, <3>2
      <4> HIDE DEF g
      <4>2. g[j + 1] = f[j + 1]
        BY <2>5, <4>1
      <4> QED
        BY <4>2
    <3> QED
      BY <3>1, <3>2
  <2>7. g = [j \in low - 1..MaxLevel |-> On(g, j)]
    BY <2>6
  <2> HIDE DEF g
  <2>8. Sol(g, m + 1)
    BY <2>3, <2>7
  <2> QED
    BY <2>8
<1> HIDE DEF S
<1>3. MaxLevel - 1 \in S
  BY <1>0, <1>1, <1>2, Counting
<1>4. PICK f : Sol(f, MaxLevel - 1)
  BY <1>0, <1>3 DEF S
<1>5. MaxLevel - (MaxLevel - 1) = 1
  BY <1>0
<1> QED
  BY <1>4, <1>5 DEF Updates

\* update[i] is the last node of level i before the key.
LEMMA UpdateIs ==
  ASSUME Shape(node, head), NEW L, Chained(node, head, L), NEW key \in Nat
  PROVE  \A i \in 1..MaxLevel : LastBefore(L, Update(i, key), i, key)
<1> DEFINE update == CHOOSE f : Updates(f, 1, key)
<1>1. Updates(update, 1, key)
  <2>1. \E f : Updates(f, 1, key)
    BY UpdatesExist
  <2> QED
    BY <2>1, Zenon
<1>2. \A i : Update(i, key) = update[i]
  BY DEF Update, Updates
<1> HIDE DEF update
<1>3. \A j \in 1..MaxLevel : update[j] = Walk(IF j = MaxLevel THEN Nil ELSE update[j + 1], j, key)
  BY <1>1 DEF Updates
<1>0. MaxLevel \in Nat \ {0}
  BY ListAssumption
<1> DEFINE Right(j) == LastBefore(L, update[j], j, key)
           T == {m \in Nat : m < MaxLevel => Right(MaxLevel - m)}
<1>4. ASSUME NEW j \in 1..MaxLevel, NEW c \in Of(node, L, j), Rank(node, c) <= key
      PROVE  LastBefore(L, Walk(c, j, key), j, key)
  BY <1>4, WalkIs
<1>5. 0 \in T
  <2>1. Nil \in Of(node, L, MaxLevel) /\ Rank(node, Nil) <= key
    BY DEF Of, Rank
  <2>2. update[MaxLevel] = Walk(Nil, MaxLevel, key) /\ MaxLevel \in 1..MaxLevel
    BY <1>0, <1>3
  <2>3. Right(MaxLevel)
    BY <1>4, <2>1, <2>2
  <2>4. MaxLevel - 0 = MaxLevel
    BY <1>0
  <2> QED
    BY <2>3, <2>4
<1>6. ASSUME NEW m \in Nat, m \in T PROVE m + 1 \in T
  <2>1. SUFFICES ASSUME m + 1 < MaxLevel PROVE Right(MaxLevel - (m + 1))
    OBVIOUS
  <2>2. PICK j \in 1..MaxLevel : j = MaxLevel - (m + 1) /\ j + 1 = MaxLevel - m /\ j # MaxLevel
    BY <1>0, <2>1
  <2>3. Right(j + 1)
    BY <1>0, <1>6, <2>1, <2>2
  <2>4. update[j + 1] \in Of(node, L, j) /\ Rank(node, update[j + 1]) <= key
    <3>1. update[j + 1] \in Of(node, L, j + 1) /\ Rank(node, update[j + 1]) <= key
      BY <2>3 DEF LastBefore
    <3>2. ASSUME NEW n \in L, j + 1 \in DOMAIN node[n].nexts PROVE j \in DOMAIN node[n].nexts
      <4>1. n \in DOMAIN node
        BY DEF Chained
      <4>2. PICK l \in 1..MaxLevel : node[n].nexts \in [1..l -> Nat]
        BY <4>1, NodesAre
      <4> QED
        BY <1>0, <2>2, <3>2, <4>2
    <3> QED
      BY <3>1, <3>2 DEF Of
  <2>5. update[j] = Walk(update[j + 1], j, key)
    BY <1>3, <2>2
  <2> QED
    BY <1>4, <2>2, <2>4, <2>5
<1> HIDE DEF T
<1>7. ASSUME NEW i \in 1..MaxLevel PROVE LastBefore(L, Update(i, key), i, key)
  <2>1. PICK m \in Nat : i = MaxLevel - m /\ m < MaxLevel
    <3>1. MaxLevel - i \in Nat /\ i = MaxLevel - (MaxLevel - i) /\ MaxLevel - i < MaxLevel
      BY <1>0
    <3> QED
      BY <3>1
  <2>2. m \in T
    BY <1>5, <1>6, Counting
  <2> QED
    BY <1>2, <2>1, <2>2 DEF T
<1> QED
  BY <1>7

\* There is one such node.
LEMMA LastIsOne ==
  ASSUME Shape(node, head), NEW L, Chained(node, head, L), NEW key \in Nat, NEW i \in 1..MaxLevel,
         NEW c, NEW d, LastBefore(L, c, i, key), LastBefore(L, d, i, key)
  PROVE  c = d
<1>1. /\ c \in Of(node, L, i) /\ d \in Of(node, L, i)
      /\ Rank(node, c) \in Nat /\ Rank(node, d) \in Nat
  <2>1. c \in Of(node, L, i) /\ d \in Of(node, L, i)
    BY DEF LastBefore
  <2> QED
    BY <2>1, NodesAre DEF Of, Chained
<1>2. ASSUME NEW a \in Of(node, L, i), NEW b \in Of(node, L, i), LastBefore(L, a, i, key),
             LastBefore(L, b, i, key), Rank(node, a) < Rank(node, b)
      PROVE  FALSE
  <2> DEFINE next == After(node, head, a, i)
  <2>1. next # Nil /\ Rank(node, next) <= Rank(node, b) /\ next \in Of(node, L, i)
    BY <1>2 DEF Chained
  <2>2. Rank(node, next) > key /\ Rank(node, b) <= key
    BY <1>2, <2>1 DEF LastBefore
  <2>3. Rank(node, next) \in Nat /\ Rank(node, b) \in Nat
    BY <2>1, NodesAre DEF Of, Chained
  <2> QED
    BY <2>1, <2>2, <2>3
<1>3. Rank(node, c) = Rank(node, d)
  BY <1>1, <1>2
<1>4. CASE c = Nil \/ d = Nil
  BY <1>1, <1>3, <1>4, NodesAre DEF Of, Chained, Rank
<1>5. CASE c # Nil /\ d # Nil
  <2>1. c \in L /\ d \in L
    BY <1>1, <1>5 DEF Of
  <2>2. node[c].key \in Nat /\ node[d].key \in Nat
    BY <2>1, NodesAre DEF Chained
  <2>3. node[c].key = node[d].key
    BY <1>3, <1>5, <2>2 DEF Rank
  <2> QED
    BY <2>1, <2>3 DEF Chained
<1> QED
  BY <1>4, <1>5

\* What is found is the node of the key, if there is one.
LEMMA FoundIs ==
  ASSUME Shape(node, head), NEW L, Chained(node, head, L), NEW key \in Nat
  PROVE  /\ Found(key) # Nil => Found(key) \in L /\ node[Found(key)].key = key
         /\ Found(key) = Nil => \A n \in L : node[n].key # key
<1>0. 1 \in 1..MaxLevel
  BY ListAssumption
<1> DEFINE u == Update(1, key)
           n == After(node, head, u, 1)
<1>1. LastBefore(L, u, 1, key)
  BY <1>0, UpdateIs
<1>2. /\ u \in Of(node, L, 1) /\ Rank(node, u) <= key
      /\ n # Nil => Rank(node, n) > key
  BY <1>1 DEF LastBefore
<1>3. Found(key) = IF n # Nil /\ node[n].key = key THEN n ELSE Nil
  BY DEF Found, NextOf, After
<1>4. n \in Of(node, L, 1)
  BY <1>0, <1>2 DEF Chained
<1>5. ASSUME NEW m \in L, node[m].key = key PROVE m = n /\ n # Nil
  <2>1. m \in Of(node, L, 1) /\ m # Nil
    BY <1>5, NodesAre DEF Of, Chained
  <2>2. Rank(node, m) = key + 1
    BY <1>5, <2>1 DEF Rank
  <2>3. Rank(node, u) \in Nat
    BY <1>2, NodesAre DEF Of, Chained
  <2>4. n # Nil /\ Rank(node, n) <= Rank(node, m)
    BY <1>0, <1>2, <2>1, <2>2, <2>3 DEF Chained
  <2>5. n \in L
    BY <1>4, <2>4 DEF Of
  <2>6. node[n].key \in Nat
    BY <2>5, NodesAre DEF Chained
  <2>7. node[n].key = key
    BY <1>2, <2>2, <2>4, <2>6 DEF Rank
  <2> QED
    BY <1>5, <2>4, <2>5, <2>7 DEF Chained
<1> HIDE DEF n
<1>6. CASE n # Nil /\ node[n].key = key
  BY <1>3, <1>4, <1>6 DEF Of
<1>7. CASE ~(n # Nil /\ node[n].key = key)
  BY <1>3, <1>5, <1>7
<1> QED
  BY <1>6, <1>7

-----------------------------------------------------------------------------
(* what is behind a pointer *)

\* Nodes with what they point to on the lowest level.
ClosedIn(nodes, S) == \A m \in S : nodes[m].nexts[1] \in S \cup {Nil}

ChainOf(nodes, next) ==
  {n \in DOMAIN nodes :
     \A S \in SUBSET DOMAIN nodes : next \in S \cup {Nil} /\ ClosedIn(nodes, S) => n \in S}

\* What is behind a pointer, in the nodes of the state.
LEMMA ChainIsOf == \A next : Chain(next) = ChainOf(node, next)
BY DEF Chain, ChainOf, ClosedIn

\* A chain is in every such set that has its start.
LEMMA ChainWithin ==
  ASSUME NEW nodes, NEW next, NEW S, S \subseteq DOMAIN nodes, next \in S \cup {Nil}, ClosedIn(nodes, S)
  PROVE  ChainOf(nodes, next) \subseteq S
BY DEF ChainOf

\* Pointers of the lowest level lead to nodes of greater keys.
LEMMA NextIs ==
  ASSUME NEW nodes, NEW heads, Shape(nodes, heads)
  PROVE  /\ heads[1] \in {Nil} \cup DOMAIN nodes
         /\ \A n \in DOMAIN nodes :
              /\ nodes[n].nexts[1] \in {Nil} \cup DOMAIN nodes
              /\ nodes[n].nexts[1] # Nil => nodes[n].key < nodes[nodes[n].nexts[1]].key
<1>0. 1 \in 1..MaxLevel
  BY ListAssumption
<1>1. heads[1] \in {Nil} \cup DOMAIN nodes
  BY <1>0 DEF Shape, Upward, Of, After
<1>2. ASSUME NEW n \in DOMAIN nodes
      PROVE  /\ nodes[n].nexts[1] \in {Nil} \cup DOMAIN nodes
             /\ nodes[n].nexts[1] # Nil => nodes[n].key < nodes[nodes[n].nexts[1]].key
  <2>1. n \in Of(nodes, DOMAIN nodes, 1) /\ n # Nil
    BY NodesAre DEF Of
  <2>2. After(nodes, heads, n, 1) = nodes[n].nexts[1]
    BY <2>1 DEF After
  <2>3. /\ nodes[n].nexts[1] \in Of(nodes, DOMAIN nodes, 1)
        /\ nodes[n].nexts[1] # Nil => Rank(nodes, n) < Rank(nodes, nodes[n].nexts[1])
    BY <1>0, <2>1, <2>2 DEF Shape, Upward
  <2>4. nodes[n].nexts[1] \in {Nil} \cup DOMAIN nodes
    BY <2>3 DEF Of
  <2>5. nodes[n].key \in Nat /\ (nodes[n].nexts[1] # Nil => nodes[nodes[n].nexts[1]].key \in Nat)
    BY <2>4, NodesAre
  <2> QED
    BY <2>1, <2>3, <2>4, <2>5 DEF Rank
<1> QED
  BY <1>1, <1>2

\* A chain is its first node and the chain behind that.
LEMMA ChainStep ==
  ASSUME NEW nodes, NEW heads, Shape(nodes, heads), NEW n \in DOMAIN nodes
  PROVE  ChainOf(nodes, n) \subseteq {n} \cup ChainOf(nodes, nodes[n].nexts[1])
<1> DEFINE rest == ChainOf(nodes, nodes[n].nexts[1])
           S == {n} \cup rest
<1>1. rest \subseteq DOMAIN nodes
  BY DEF ChainOf
<1>2. nodes[n].nexts[1] \in rest \cup {Nil}
  <2>1. nodes[n].nexts[1] \in {Nil} \cup DOMAIN nodes
    BY NextIs
  <2> QED
    BY <2>1 DEF ChainOf
<1>3. ASSUME NEW m \in rest PROVE nodes[m].nexts[1] \in rest \cup {Nil}
  <2>1. m \in DOMAIN nodes /\ nodes[m].nexts[1] \in {Nil} \cup DOMAIN nodes
    BY <1>1, NextIs
  <2> QED
    BY <2>1 DEF ChainOf, ClosedIn
<1>4. ClosedIn(nodes, S)
  BY <1>2, <1>3 DEF ClosedIn
<1>5. S \subseteq DOMAIN nodes /\ n \in S
  BY <1>1
<1> HIDE DEF S
<1>6. ChainOf(nodes, n) \subseteq S
  BY <1>4, <1>5, ChainWithin
<1> QED
  BY <1>6 DEF S

\* Nothing is behind a null pointer.
LEMMA ChainOfNil ==
  ASSUME NEW nodes
  PROVE  ChainOf(nodes, Nil) = {}
<1>1. {} \in SUBSET DOMAIN nodes /\ Nil \in {} \cup {Nil} /\ ClosedIn(nodes, {})
  BY DEF ClosedIn
<1> QED
  BY <1>1 DEF ChainOf

\* What is behind the head are the nodes that are chained.
LEMMA ListedAre ==
  ASSUME NEW nodes, NEW heads, Shape(nodes, heads), NEW L, Chained(nodes, heads, L)
  PROVE  ChainOf(nodes, heads[1]) = L
<1>0. 1 \in 1..MaxLevel
  BY ListAssumption
<1>1. Of(nodes, L, 1) = {Nil} \cup L /\ L \subseteq DOMAIN nodes /\ Nil \notin L
  <2>1. L \subseteq DOMAIN nodes
    BY DEF Chained
  <2>2. Nil \notin DOMAIN nodes /\ \A n \in DOMAIN nodes : 1 \in DOMAIN nodes[n].nexts
    BY NodesAre
  <2> QED
    BY <2>1, <2>2 DEF Of
<1>2. \A c \in {Nil} \cup L : Rank(nodes, c) \in Nat
  BY <1>1, NodesAre
<1>3. heads[1] \in L \cup {Nil} /\ ClosedIn(nodes, L)
  <2>1. ASSUME NEW c \in {Nil} \cup L PROVE After(nodes, heads, c, 1) \in {Nil} \cup L
    BY <1>0, <1>1 DEF Chained
  <2>2. heads[1] = After(nodes, heads, Nil, 1)
    BY DEF After
  <2>3. \A m \in L : nodes[m].nexts[1] = After(nodes, heads, m, 1)
    BY <1>1 DEF After
  <2> QED
    BY <2>1, <2>2, <2>3 DEF ClosedIn
<1>4. ChainOf(nodes, heads[1]) \subseteq L
  BY <1>1, <1>3, ChainWithin
<1>5. ASSUME NEW S \in SUBSET DOMAIN nodes, heads[1] \in S \cup {Nil}, ClosedIn(nodes, S), NEW n \in L
      PROVE  n \in S
  <2>1. SUFFICES ASSUME n \notin S PROVE FALSE
    OBVIOUS
  <2> DEFINE K == {k \in Nat : \E c \in {Nil} \cup (L \cap S) :
                     k <= Rank(nodes, c) /\ Rank(nodes, c) < Rank(nodes, n)}
  <2>2. 0 \in K
    <3>1. Rank(nodes, Nil) = 0
      BY DEF Rank
    <3>2. Rank(nodes, n) \in Nat /\ Rank(nodes, n) > 0
      BY <1>1, NodesAre
    <3> QED
      BY <3>1, <3>2
  <2>3. ASSUME NEW k \in Nat, k \in K PROVE k + 1 \in K
    <3>1. PICK c \in {Nil} \cup (L \cap S) : k <= Rank(nodes, c) /\ Rank(nodes, c) < Rank(nodes, n)
      BY <2>3
    <3> DEFINE d == After(nodes, heads, c, 1)
    <3>2. /\ d \in {Nil} \cup L
          /\ d # Nil => Rank(nodes, c) < Rank(nodes, d)
          /\ d # Nil /\ Rank(nodes, d) <= Rank(nodes, n)
      BY <1>0, <1>1, <3>1 DEF Chained
    <3>3. d \in S
      BY <1>1, <1>5, <3>1, <3>2 DEF After, ClosedIn
    <3> HIDE DEF d
    <3>4. d # n /\ d \in L
      BY <2>1, <3>2, <3>3
    <3>5. nodes[d].key # nodes[n].key /\ nodes[d].key \in Nat /\ nodes[n].key \in Nat
      BY <1>1, <3>4, NodesAre DEF Chained
    <3>6. Rank(nodes, d) < Rank(nodes, n)
      BY <1>1, <3>2, <3>5 DEF Rank
    <3> QED
      BY <1>2, <3>1, <3>2, <3>3, <3>4, <3>6
  <2> HIDE DEF K
  <2>4. Rank(nodes, n) \in K
    BY <1>2, <2>2, <2>3, Counting
  <2> QED
    BY <1>1, <1>2, <2>4 DEF K
<1>6. L \subseteq ChainOf(nodes, heads[1])
  BY <1>1, <1>5 DEF ChainOf
<1> QED
  BY <1>4, <1>6

-----------------------------------------------------------------------------
(* a new node *)

\* The nodes and the head with a node of the key linked at its place on some levels.
Inserted(nodes, heads, key, level) ==
  /\ nodes \in Seq(NodeType) /\ heads \in [1..MaxLevel -> Nat]
  /\ Len(nodes) = Len(node) + 1
  /\ \A n \in DOMAIN node :
       nodes[n].key = node[n].key /\ nodes[n].value = node[n].value
       /\ DOMAIN nodes[n].nexts = DOMAIN node[n].nexts
  /\ nodes[Len(node) + 1].key = key /\ DOMAIN nodes[Len(node) + 1].nexts = 1..level
  /\ \A i \in 1..MaxLevel : \A c \in Tall(i) :
       After(nodes, heads, c, i) = IF i \in 1..level /\ c = Update(i, key) THEN Len(node) + 1
                                   ELSE After(node, head, c, i)
  /\ \A i \in 1..level :
       After(nodes, heads, Len(node) + 1, i) = After(node, head, Update(i, key), i)

\* What Link makes is nodes and a head.
LEMMA LinkIs ==
  ASSUME Shape(node, head), NEW levels, NEW key, NEW to, \A i \in levels : to[i] \in Nat,
         NEW linked, linked = Link(node, levels, key, to)
  PROVE  /\ linked.nodes \in Seq(NodeType) /\ Len(linked.nodes) = Len(node)
         /\ DOMAIN linked.nodes = DOMAIN node
         /\ linked.head \in [1..MaxLevel -> Nat]
         /\ \A n \in DOMAIN node :
              linked.nodes[n].key = node[n].key /\ linked.nodes[n].value = node[n].value
              /\ DOMAIN linked.nodes[n].nexts = DOMAIN node[n].nexts
         /\ \A i \in 1..MaxLevel : \A c \in Tall(i) :
              After(linked.nodes, linked.head, c, i) =
                IF i \in levels /\ c = Update(i, key) THEN to[i] ELSE After(node, head, c, i)
<1> DEFINE Nexts(n) == [i \in DOMAIN node[n].nexts |->
                          IF i \in levels /\ Update(i, key) = n THEN to[i] ELSE node[n].nexts[i]]
           nodes == [n \in DOMAIN node |-> [node[n] EXCEPT !.nexts = Nexts(n)]]
           heads == [i \in 1..MaxLevel |->
                       IF i \in levels /\ Update(i, key) = Nil THEN to[i] ELSE head[i]]
<1>1. linked.nodes = nodes /\ linked.head = heads
  BY DEF Link
<1>2. ASSUME NEW n \in DOMAIN node
      PROVE  /\ nodes[n] \in NodeType
             /\ nodes[n].key = node[n].key /\ nodes[n].value = node[n].value /\ nodes[n].nexts = Nexts(n)
  <2>1. nodes[n] = [node[n] EXCEPT !.nexts = Nexts(n)]
    OBVIOUS
  <2>2. PICK l \in 1..MaxLevel : node[n].nexts \in [1..l -> Nat]
    BY NodesAre
  <2>3. Nexts(n) \in [1..l -> Nat]
    BY <2>2
  <2>4. /\ node[n] = [key |-> node[n].key, value |-> node[n].value, nexts |-> node[n].nexts]
        /\ node[n].key \in Keys /\ node[n].value \in Values
    BY NodesAre
  <2> HIDE DEF Nexts
  <2>5. nodes[n] = [key |-> node[n].key, value |-> node[n].value, nexts |-> Nexts(n)]
    BY <2>1, <2>4
  <2> QED
    BY <2>3, <2>4, <2>5 DEF NodeType
<1>3. nodes \in Seq(NodeType) /\ Len(nodes) = Len(node) /\ DOMAIN nodes = DOMAIN node
  <2>1. Len(node) \in Nat /\ DOMAIN node = 1..Len(node)
    BY NodesAre
  <2> HIDE DEF Nexts
  <2>2. nodes \in [1..Len(node) -> NodeType]
    BY <1>2, <2>1
  <2> QED
    BY <2>1, <2>2
<1>4. heads \in [1..MaxLevel -> Nat]
  BY DEF Shape
<1>5. ASSUME NEW i \in 1..MaxLevel, NEW c \in Tall(i)
      PROVE  After(nodes, heads, c, i) =
               IF i \in levels /\ c = Update(i, key) THEN to[i] ELSE After(node, head, c, i)
  <2>1. CASE c = Nil
    BY <2>1 DEF After
  <2>2. CASE c # Nil
    <3>1. c \in DOMAIN node /\ i \in DOMAIN node[c].nexts
      BY <2>2 DEF Tall
    <3>2. nodes[c].nexts[i] = IF i \in levels /\ c = Update(i, key) THEN to[i] ELSE node[c].nexts[i]
      <4>1. nodes[c].nexts = Nexts(c)
        BY <1>2, <3>1
      <4> HIDE DEF nodes
      <4> QED
        BY <3>1, <4>1
    <3> HIDE DEF nodes, heads
    <3> QED
      BY <2>2, <3>2 DEF After
  <2> QED
    BY <2>1, <2>2
<1> HIDE DEF nodes, heads
<1>6. \A n \in DOMAIN node : DOMAIN nodes[n].nexts = DOMAIN node[n].nexts
  BY <1>2
<1> QED
  BY <1>1, <1>2, <1>3, <1>4, <1>5, <1>6

\* What put links, and where.
NewNode(key, value, level) ==
  [key |-> key, value |-> value, nexts |-> [i \in 1..level |-> NextOf(Update(i, key), i)]]

ToNew(level) == [i \in 1..level |-> Len(node) + 1]

\* Put inserts.
LEMMA PutInserts ==
  ASSUME Shape(node, head), NEW L, Chained(node, head, L), NEW key \in Keys, NEW value \in Values,
         NEW level \in 1..MaxLevel
  PROVE  LET linked == Link(node, 1..level, key, ToNew(level))
             nodes == Append(linked.nodes, NewNode(key, value, level))
         IN Inserted(nodes, linked.head, key, level) /\ nodes[Len(node) + 1].value = value
<1> DEFINE linked == Link(node, 1..level, key, ToNew(level))
           nodes == Append(linked.nodes, NewNode(key, value, level))
           to == [i \in 1..level |-> Len(node) + 1]
           nexts == [i \in 1..level |-> NextOf(Update(i, key), i)]
           new == NewNode(key, value, level)
           heads == linked.head
<1> HIDE DEF linked, nodes
<1>0. Len(node) \in Nat /\ DOMAIN node = 1..Len(node) /\ key \in Nat /\ Len(node) + 1 \in Nat \ {0}
      /\ 1..level \subseteq 1..MaxLevel
  BY NodesAre, ListAssumption
<1>1. \A i \in 1..level : to[i] \in Nat /\ to[i] = Len(node) + 1
  BY <1>0
<1>2. /\ linked.nodes \in Seq(NodeType) /\ Len(linked.nodes) = Len(node)
      /\ heads \in [1..MaxLevel -> Nat]
      /\ \A n \in DOMAIN node :
           linked.nodes[n].key = node[n].key /\ linked.nodes[n].value = node[n].value
           /\ DOMAIN linked.nodes[n].nexts = DOMAIN node[n].nexts
      /\ \A i \in 1..MaxLevel : \A c \in Tall(i) :
           After(linked.nodes, heads, c, i) =
             IF i \in 1..level /\ c = Update(i, key) THEN to[i] ELSE After(node, head, c, i)
  <2> HIDE DEF to
  <2>1. \A i \in 1..level : to[i] \in Nat
    BY <1>1
  <2>2. linked = Link(node, 1..level, key, to)
    BY DEF to, ToNew, linked
  <2> HIDE DEF heads
  <2>3. /\ linked.nodes \in Seq(NodeType) /\ Len(linked.nodes) = Len(node)
        /\ DOMAIN linked.nodes = DOMAIN node
        /\ linked.head \in [1..MaxLevel -> Nat]
        /\ \A n \in DOMAIN node :
             linked.nodes[n].key = node[n].key /\ linked.nodes[n].value = node[n].value
             /\ DOMAIN linked.nodes[n].nexts = DOMAIN node[n].nexts
        /\ \A i \in 1..MaxLevel : \A c \in Tall(i) :
             After(linked.nodes, linked.head, c, i) =
               IF i \in 1..level /\ c = Update(i, key) THEN to[i] ELSE After(node, head, c, i)
    BY <2>1, <2>2, LinkIs, SMTT(60)
  <2> QED
    BY <2>3 DEF heads
<1>3. ASSUME NEW i \in 1..level PROVE NextOf(Update(i, key), i) \in Nat
  <2>1. Update(i, key) \in Tall(i)
    BY <1>0, UpdateIs, OfIsTall DEF LastBefore, Chained
  <2>2. NextOf(Update(i, key), i) \in Tall(i)
    BY <1>0, <2>1, BeforeIs
  <2> QED
    BY <1>0, <2>2 DEF Tall, Nil
<1>4. new \in NodeType
  <2>1. nexts \in [1..level -> Nat]
    BY <1>3
  <2>2. new = [key |-> key, value |-> value, nexts |-> nexts]
    BY DEF NewNode
  <2> HIDE DEF nexts, new
  <2> QED
    BY <2>1, <2>2 DEF NodeType
<1>5. new.key = key /\ new.value = value /\ new.nexts = nexts /\ DOMAIN nexts = 1..level
      /\ nodes = Append(linked.nodes, new)
  BY DEF NewNode, nodes
<1> HIDE DEF new
<1>6. /\ nodes \in Seq(NodeType) /\ Len(nodes) = Len(node) + 1
      /\ nodes[Len(node) + 1] = new
      /\ \A n \in DOMAIN node : nodes[n] = linked.nodes[n] /\ n # Len(node) + 1
  <2>1. linked.nodes \in Seq(NodeType) /\ Len(linked.nodes) = Len(node)
    BY <1>2
  <2>2. nodes = Append(linked.nodes, new)
    BY <1>5
  <2> QED
    BY <1>0, <1>4, <2>1, <2>2
<1>7. ASSUME NEW i \in 1..MaxLevel, NEW c \in Tall(i)
      PROVE  After(nodes, heads, c, i) = After(linked.nodes, heads, c, i)
  BY <1>6 DEF After, Tall
<1>8. ASSUME NEW i \in 1..level
      PROVE  After(nodes, heads, Len(node) + 1, i) = After(node, head, Update(i, key), i)
  <2>1. Len(node) + 1 # Nil
    BY <1>0 DEF Nil
  <2>2. After(nodes, heads, Len(node) + 1, i) = nexts[i]
    BY <1>5, <1>6, <2>1 DEF After
  <2> QED
    BY <2>2 DEF NextOf, After
<1>9. \A i \in 1..MaxLevel : \A c \in Tall(i) :
        After(nodes, heads, c, i) = IF i \in 1..level /\ c = Update(i, key) THEN Len(node) + 1
                                    ELSE After(node, head, c, i)
  BY <1>1, <1>2, <1>7
<1> HIDE DEF to, nexts, heads
<1>10. Inserted(nodes, heads, key, level)
  BY <1>2, <1>5, <1>6, <1>8, <1>9 DEF Inserted
<1> QED
  BY <1>5, <1>6, <1>10 DEF heads, linked, nodes

\* What is inserted is a list with one node more.
LEMMA InsertedIsChained ==
  ASSUME Shape(node, head), NEW L, Chained(node, head, L), NEW key \in Keys, Found(key) = Nil,
         NEW level \in 1..MaxLevel, NEW nodes, NEW heads, Inserted(nodes, heads, key, level)
  PROVE  Shape(nodes, heads) /\ Chained(nodes, heads, L \cup {Len(node) + 1})
<1> DEFINE N == Len(node) + 1
           u(i) == Update(i, key)
<1>0. /\ Len(node) \in Nat /\ DOMAIN node = 1..Len(node) /\ DOMAIN nodes = 1..Len(nodes)
      /\ key \in Nat /\ N # Nil /\ N \notin DOMAIN node
      /\ DOMAIN nodes = DOMAIN node \cup {N} /\ 1..level \subseteq 1..MaxLevel
      /\ L \subseteq DOMAIN node /\ N \notin L /\ Nil \notin DOMAIN node /\ Nil \notin L
  <2>1. /\ Len(node) \in Nat /\ DOMAIN node = 1..Len(node) /\ Len(nodes) = Len(node) + 1
        /\ nodes \in Seq(NodeType)
    BY NodesAre DEF Inserted
  <2>2. DOMAIN nodes = 1..Len(nodes)
    BY <2>1
  <2> QED
    BY <2>1, <2>2, ListAssumption DEF Nil, Chained
<1>1. /\ \A n \in DOMAIN node :
           nodes[n].key = node[n].key /\ DOMAIN nodes[n].nexts = DOMAIN node[n].nexts
      /\ nodes[N].key = key /\ DOMAIN nodes[N].nexts = 1..level
      /\ \A i \in 1..MaxLevel : \A c \in Tall(i) :
           After(nodes, heads, c, i) = IF i \in 1..level /\ c = u(i) THEN N
                                       ELSE After(node, head, c, i)
      /\ \A i \in 1..level : After(nodes, heads, N, i) = After(node, head, u(i), i)
  BY DEF Inserted
<1> HIDE DEF N
<1>2. /\ \A c \in {Nil} \cup DOMAIN node : Rank(nodes, c) = Rank(node, c) /\ Rank(node, c) \in Nat
      /\ Rank(nodes, N) = key + 1
      /\ \A c \in DOMAIN node : Rank(node, c) = node[c].key + 1 /\ node[c].key \in Nat /\ c # Nil
      /\ Rank(nodes, Nil) = 0
  <2>1. \A c \in {Nil} \cup DOMAIN node : Rank(nodes, c) = Rank(node, c)
    BY <1>1 DEF Rank
  <2>2. \A c \in {Nil} \cup DOMAIN node : Rank(node, c) \in Nat
    BY NodesAre
  <2>3. Rank(nodes, N) = key + 1
    BY <1>0, <1>1 DEF Rank
  <2>4. \A c \in DOMAIN node : Rank(node, c) = node[c].key + 1 /\ node[c].key \in Nat /\ c # Nil
    BY NodesAre DEF Rank
  <2> QED
    BY <2>1, <2>2, <2>3, <2>4 DEF Rank
<1>3. ASSUME NEW i \in 1..MaxLevel, NEW M, M \subseteq DOMAIN node
      PROVE  /\ Of(nodes, M, i) = Of(node, M, i)
             /\ Of(nodes, M \cup {N}, i) = Of(node, M, i) \cup (IF i \in 1..level THEN {N} ELSE {})
             /\ Of(node, M, i) \subseteq Tall(i) /\ Of(node, M, i) \subseteq {Nil} \cup M
             /\ N \notin Of(node, M, i)
  <2>1. \A n \in M : DOMAIN nodes[n].nexts = DOMAIN node[n].nexts
    BY <1>1, <1>3
  <2>2. Of(nodes, M, i) = Of(node, M, i)
    BY <2>1 DEF Of
  <2>3. Of(nodes, M \cup {N}, i) = Of(nodes, M, i) \cup (IF i \in 1..level THEN {N} ELSE {})
    BY <1>1 DEF Of
  <2>4. Of(node, M, i) \subseteq Tall(i) /\ Of(node, M, i) \subseteq {Nil} \cup M
    BY <1>3 DEF Of, Tall
  <2> QED
    BY <1>0, <1>3, <2>2, <2>3, <2>4
<1>4. ASSUME NEW i \in 1..MaxLevel
      PROVE  /\ u(i) \in Of(node, L, i) /\ Rank(node, u(i)) <= key
             /\ After(node, head, u(i), i) \in Of(node, L, i)
             /\ After(node, head, u(i), i) # Nil => Rank(node, After(node, head, u(i), i)) > key + 1
             /\ \A e \in Of(node, L, i) : Rank(node, e) > key =>
                  After(node, head, u(i), i) # Nil
                  /\ Rank(node, After(node, head, u(i), i)) <= Rank(node, e)
  <2>1. LastBefore(L, u(i), i, key)
    BY <1>0, UpdateIs
  <2>2. u(i) \in Of(node, L, i) /\ Rank(node, u(i)) <= key
        /\ (After(node, head, u(i), i) # Nil => Rank(node, After(node, head, u(i), i)) > key)
    BY <2>1 DEF LastBefore
  <2> DEFINE c == u(i)
             d == After(node, head, c, i)
  <2> HIDE DEF c
  <2>3. c \in Of(node, L, i) /\ d \in Of(node, L, i)
        /\ \A e \in Of(node, L, i) :
             Rank(node, c) < Rank(node, e) => d # Nil /\ Rank(node, d) <= Rank(node, e)
    BY <2>2 DEF Chained, c
  <2>4. ASSUME d # Nil PROVE Rank(node, d) > key + 1
    <3>1. d \in L /\ d \in DOMAIN node
      BY <1>0, <1>3, <2>3, <2>4
    <3>2. node[d].key # key
      BY <1>0, <3>1, FoundIs
    <3>3. Rank(node, d) > key
      BY <2>2, <2>4 DEF c
    <3> QED
      BY <1>0, <1>2, <3>1, <3>2, <3>3
  <2>5. ASSUME NEW e \in Of(node, L, i), Rank(node, e) > key
        PROVE  d # Nil /\ Rank(node, d) <= Rank(node, e)
    <3>1. Rank(node, e) \in Nat /\ Rank(node, c) \in Nat
      BY <1>0, <1>2, <1>3, <2>3
    <3>2. Rank(node, c) < Rank(node, e)
      BY <1>0, <2>2, <2>5, <3>1 DEF c
    <3> QED
      BY <2>3, <3>2
  <2> QED
    BY <2>2, <2>3, <2>4, <2>5 DEF c
<1>5. Upward(nodes, heads)
  <2>1. SUFFICES ASSUME NEW i \in 1..MaxLevel, NEW c \in Of(nodes, DOMAIN nodes, i)
                 PROVE  LET d == After(nodes, heads, c, i)
                        IN d \in Of(nodes, DOMAIN nodes, i)
                           /\ (d # Nil => Rank(nodes, c) < Rank(nodes, d))
    BY DEF Upward
  <2>2. /\ Of(nodes, DOMAIN nodes, i) = Tall(i) \cup (IF i \in 1..level THEN {N} ELSE {})
        /\ Tall(i) \subseteq {Nil} \cup DOMAIN node /\ Of(node, L, i) \subseteq Tall(i)
    <3>1. Of(node, DOMAIN node, i) = Tall(i)
      BY DEF Of, Tall
    <3>2. /\ Of(nodes, DOMAIN node \cup {N}, i) =
               Of(node, DOMAIN node, i) \cup (IF i \in 1..level THEN {N} ELSE {})
          /\ Of(node, L, i) \subseteq Tall(i)
          /\ Of(node, DOMAIN node, i) \subseteq {Nil} \cup DOMAIN node
      BY <1>0, <1>3
    <3> QED
      BY <1>0, <3>1, <3>2
  <2> DEFINE d == After(nodes, heads, c, i)
  <2>3. CASE c \notin Tall(i)
    <3>1. c = N /\ i \in 1..level
      BY <2>2, <2>3
    <3>2. d = After(node, head, u(i), i)
      BY <1>1, <3>1
    <3>3. d \in Tall(i) /\ (d # Nil => Rank(node, d) > key + 1)
      BY <1>4, <2>2, <3>2
    <3>4. Rank(nodes, d) = Rank(node, d) /\ Rank(nodes, c) = key + 1
      BY <1>2, <2>2, <3>1, <3>3
    <3> HIDE DEF d
    <3>5. d # Nil => Rank(nodes, c) < Rank(nodes, d)
      BY <1>0, <1>2, <2>2, <3>3, <3>4
    <3> QED
      BY <2>2, <3>3, <3>5 DEF d
  <2>4. CASE c \in Tall(i) /\ i \in 1..level /\ c = u(i)
    <3>1. d = N
      BY <1>1, <2>4
    <3>2. Rank(nodes, c) <= key /\ Rank(nodes, c) \in Nat
      BY <1>2, <1>4, <2>2, <2>4
    <3>3. Rank(nodes, c) < Rank(nodes, N)
      BY <1>0, <1>2, <3>2
    <3> QED
      BY <2>2, <2>4, <3>1, <3>3
  <2>5. CASE c \in Tall(i) /\ ~(i \in 1..level /\ c = u(i))
    <3>1. d = After(node, head, c, i)
      BY <1>1, <2>5
    <3>2. d \in Tall(i) /\ (d # Nil => Rank(node, c) < Rank(node, d))
      BY <2>5, <3>1, BeforeIs
    <3> HIDE DEF d
    <3>3. Rank(nodes, c) = Rank(node, c) /\ Rank(nodes, d) = Rank(node, d)
      BY <1>2, <2>2, <2>5, <3>2
    <3> QED
      BY <2>2, <3>2, <3>3 DEF d
  <2> QED
    BY <2>3, <2>4, <2>5
<1>6. Shape(nodes, heads)
  BY <1>5 DEF Shape, Inserted
<1>7. ASSUME NEW a \in L \cup {N}, NEW b \in L \cup {N}, nodes[a].key = nodes[b].key PROVE a = b
  <2>1. \A n \in L : nodes[n].key = node[n].key /\ node[n].key # key
    BY <1>0, <1>1, FoundIs
  <2> QED
    BY <1>1, <1>7, <2>1 DEF Chained
<1>8. ASSUME NEW i \in 1..MaxLevel, NEW c \in Of(nodes, L \cup {N}, i)
      PROVE  LET d == After(nodes, heads, c, i)
             IN /\ d \in Of(nodes, L \cup {N}, i)
                /\ d # Nil => Rank(nodes, c) < Rank(nodes, d)
                /\ \A e \in Of(nodes, L \cup {N}, i) :
                     Rank(nodes, c) < Rank(nodes, e) => d # Nil /\ Rank(nodes, d) <= Rank(nodes, e)
  <2> DEFINE d == After(nodes, heads, c, i)
  <2>1. /\ Of(nodes, L \cup {N}, i) = Of(node, L, i) \cup (IF i \in 1..level THEN {N} ELSE {})
        /\ Of(node, L, i) \subseteq {Nil} \cup DOMAIN node /\ Of(node, L, i) \subseteq Tall(i)
    BY <1>0, <1>3
  <2>2. /\ d \in Of(nodes, L \cup {N}, i)
        /\ d # Nil => Rank(nodes, c) < Rank(nodes, d)
    <3>1. c \in Of(nodes, DOMAIN nodes, i)
      BY <1>0 DEF Of
    <3>2. d # Nil => Rank(nodes, c) < Rank(nodes, d)
      BY <1>5, <3>1 DEF Upward
    <3>3. CASE c \notin Of(node, L, i)
      <4>1. c = N /\ i \in 1..level
        BY <2>1, <3>3
      <4> QED
        BY <1>1, <1>4, <2>1, <3>2, <4>1
    <3>4. CASE c \in Of(node, L, i)
      <4>1. d = IF i \in 1..level /\ c = u(i) THEN N ELSE After(node, head, c, i)
        BY <1>1, <2>1, <3>4
      <4>2. After(node, head, c, i) \in Of(node, L, i)
        BY <3>4 DEF Chained
      <4> QED
        BY <2>1, <3>2, <4>1, <4>2
    <3> QED
      BY <3>3, <3>4
  <2>3. ASSUME NEW e \in Of(nodes, L \cup {N}, i), Rank(nodes, c) < Rank(nodes, e)
        PROVE  d # Nil /\ Rank(nodes, d) <= Rank(nodes, e)
    <3>1. CASE c \notin Of(node, L, i)
      <4>1. c = N /\ i \in 1..level /\ d = After(node, head, u(i), i)
        BY <1>1, <2>1, <3>1
      <4>2. Rank(nodes, c) = key + 1
        BY <1>2, <4>1
      <4>3. e # N /\ e \in Of(node, L, i)
        <5>1. ~(key + 1 < key + 1)
          BY <1>0
        <5>2. e # N
          BY <1>2, <2>3, <4>2, <5>1
        <5> QED
          BY <2>1, <5>2
      <4>4. Rank(nodes, e) = Rank(node, e) /\ Rank(node, e) \in Nat
        BY <1>2, <2>1, <4>3
      <4>5. Rank(node, e) > key
        BY <1>0, <2>3, <4>2, <4>4
      <4>6. d # Nil /\ Rank(node, d) <= Rank(node, e) /\ d \in Of(node, L, i)
        BY <1>4, <4>1, <4>3, <4>5
      <4> HIDE DEF d
      <4>7. Rank(nodes, d) = Rank(node, d)
        BY <1>2, <2>1, <4>6
      <4> QED
        BY <4>4, <4>6, <4>7
    <3>2. CASE c \in Of(node, L, i) /\ i \in 1..level /\ c = u(i)
      <4>1. d = N /\ Rank(nodes, c) = Rank(node, c) /\ Rank(nodes, N) = key + 1 /\ Rank(node, c) <= key
            /\ Rank(node, c) \in Nat
        BY <1>1, <1>2, <1>4, <2>1, <3>2
      <4>2. CASE e = N
        BY <1>0, <4>1, <4>2
      <4>3. CASE e # N
        <5>1. e \in Of(node, L, i)
          BY <2>1, <4>3
        <5>2. Rank(nodes, e) = Rank(node, e) /\ Rank(node, e) \in Nat
          BY <1>2, <2>1, <5>1
        <5>3. After(node, head, c, i) # Nil /\ Rank(node, After(node, head, c, i)) <= Rank(node, e)
          <6>1. Rank(node, c) < Rank(node, e)
            BY <2>3, <4>1, <5>2
          <6> QED
            BY <3>2, <5>1, <6>1 DEF Chained
        <5>4. Rank(node, After(node, head, c, i)) > key + 1
              /\ Rank(node, After(node, head, c, i)) \in Nat
          BY <1>2, <1>4, <2>1, <3>2, <5>3
        <5> QED
          BY <1>0, <4>1, <5>2, <5>3, <5>4
      <4> QED
        BY <4>2, <4>3
    <3>3. CASE c \in Of(node, L, i) /\ ~(i \in 1..level /\ c = u(i))
      <4>1. d = After(node, head, c, i) /\ d \in Of(node, L, i)
        BY <1>1, <2>1, <3>3 DEF Chained
      <4>2. /\ Rank(nodes, c) = Rank(node, c) /\ Rank(node, c) \in Nat
            /\ Rank(nodes, d) = Rank(node, d) /\ Rank(node, d) \in Nat
        BY <1>2, <2>1, <3>3, <4>1
      <4>3. CASE e \in Of(node, L, i)
        <5>1. Rank(nodes, e) = Rank(node, e)
          BY <1>2, <2>1, <4>3
        <5>2. Rank(node, c) < Rank(node, e)
          BY <2>3, <4>2, <5>1
        <5>3. d # Nil /\ Rank(node, d) <= Rank(node, e)
          BY <3>3, <4>1, <4>3, <5>2 DEF Chained
        <5> QED
          BY <4>2, <5>1, <5>3
      <4>4. CASE e \notin Of(node, L, i)
        <5>1. e = N /\ i \in 1..level /\ Rank(nodes, e) = key + 1
          BY <1>2, <2>1, <4>4
        <5>2. Rank(node, c) <= key
          BY <1>0, <2>3, <4>2, <5>1
        <5>3. ~LastBefore(L, c, i, key)
          <6>1. LastBefore(L, u(i), i, key)
            BY <1>0, UpdateIs
          <6> QED
            BY <1>0, <3>3, <5>1, <6>1, LastIsOne
        <5>4. d # Nil /\ ~(Rank(node, d) > key)
          BY <3>3, <4>1, <5>2, <5>3 DEF LastBefore
        <5> QED
          BY <1>0, <4>2, <5>1, <5>4
      <4> QED
        BY <4>3, <4>4
    <3> QED
      BY <3>1, <3>2, <3>3
  <2> QED
    BY <2>2, <2>3
<1>9. L \cup {N} \subseteq DOMAIN nodes
  BY <1>0
<1>10. Chained(nodes, heads, L \cup {N})
  BY <1>7, <1>8, <1>9 DEF Chained
<1> QED
  BY <1>6, <1>10 DEF N

-----------------------------------------------------------------------------
(* a node less *)

\* A node of a level is what its update points to, and that only on the levels it has.
LEMMA PointedAt ==
  ASSUME Shape(node, head), NEW L, Chained(node, head, L), NEW n \in L, NEW i \in 1..MaxLevel
  PROVE  /\ i \in DOMAIN node[n].nexts <=> NextOf(Update(i, node[n].key), i) = n
         /\ \A c \in Of(node, L, i) :
              After(node, head, c, i) = n => c = Update(i, node[n].key)
<1> DEFINE key == node[n].key
           u == Update(i, key)
           d == After(node, head, u, i)
<1>0. /\ n \in DOMAIN node /\ n # Nil /\ key \in Nat /\ Rank(node, n) = key + 1
      /\ L \subseteq DOMAIN node /\ Nil \notin L
  BY NodesAre DEF Chained, Rank
<1> HIDE DEF key
<1>1. LastBefore(L, u, i, key)
  BY <1>0, UpdateIs
<1>2. /\ u \in Of(node, L, i) /\ Rank(node, u) <= key
      /\ d # Nil => Rank(node, d) > key
      /\ d \in Of(node, L, i)
  BY <1>1 DEF LastBefore, Chained
<1> HIDE DEF u
<1>3. \A c \in Of(node, L, i) : Rank(node, c) \in Nat /\ c \in {Nil} \cup L
  BY <1>0, NodesAre DEF Of
<1>4. ASSUME i \in DOMAIN node[n].nexts PROVE d = n
  <2>1. n \in Of(node, L, i)
    BY <1>4 DEF Of
  <2>2. Rank(node, u) < Rank(node, n)
    BY <1>0, <1>2, <1>3
  <2>3. d # Nil /\ Rank(node, d) <= Rank(node, n)
    BY <1>2, <2>1, <2>2 DEF Chained
  <2>4. d \in L /\ Rank(node, d) = key + 1
    BY <1>0, <1>2, <1>3, <2>3
  <2> HIDE DEF d
  <2>5. node[d].key \in Nat /\ Rank(node, d) = node[d].key + 1
    BY <1>0, <2>3, <2>4, NodesAre DEF Rank
  <2>6. node[d].key = node[n].key
    BY <1>0, <2>4, <2>5 DEF key
  <2> QED
    BY <2>4, <2>6 DEF Chained
<1>5. ASSUME d = n PROVE i \in DOMAIN node[n].nexts
  BY <1>0, <1>2, <1>5 DEF Of
<1>6. NextOf(u, i) = d
  BY DEF NextOf, After
<1>7. ASSUME NEW c \in Of(node, L, i), After(node, head, c, i) = n PROVE c = u
  <2>1. Rank(node, c) < Rank(node, n)
    BY <1>0, <1>7 DEF Chained
  <2>2. LastBefore(L, c, i, key)
    BY <1>0, <1>3, <1>7, <2>1 DEF LastBefore
  <2> QED
    BY <1>0, <1>1, <2>2, LastIsOne DEF u
<1> QED
  BY <1>4, <1>5, <1>6, <1>7 DEF u, key

\* The nodes and the head without a node on every level it has.
Removed(nodes, heads, n) ==
  /\ nodes \in Seq(NodeType) /\ heads \in [1..MaxLevel -> Nat]
  /\ DOMAIN nodes = DOMAIN node
  /\ \A m \in DOMAIN node :
       nodes[m].key = node[m].key /\ nodes[m].value = node[m].value
       /\ DOMAIN nodes[m].nexts = DOMAIN node[m].nexts
  /\ \A i \in 1..MaxLevel : \A c \in Tall(i) :
       After(nodes, heads, c, i) =
         IF i \in DOMAIN node[n].nexts /\ c = Update(i, node[n].key) THEN After(node, head, n, i)
         ELSE After(node, head, c, i)

\* Del removes.
LEMMA DelRemoves ==
  ASSUME Shape(node, head), NEW L, Chained(node, head, L), NEW key \in Keys, NEW n \in L,
         node[n].key = key, NEW linked, linked = Link(node, Levels(n, key), key, node[n].nexts)
  PROVE  Removed(linked.nodes, linked.head, n)
<1>0. n \in DOMAIN node /\ n # Nil
  BY NodesAre DEF Chained
<1>1. PICK l \in 1..MaxLevel : node[n].nexts \in [1..l -> Nat]
  BY <1>0, NodesAre
<1>2. DOMAIN node[n].nexts = 1..l /\ MaxLevel \in Nat /\ \A i \in 1..l : node[n].nexts[i] \in Nat
  BY <1>1, ListAssumption
<1>3. Levels(n, key) = 1..l
  <2>1. \A i \in 1..MaxLevel : NextOf(Update(i, key), i) = n <=> i \in 1..l
    BY <1>2, PointedAt
  <2>2. Levels(n, key) = {i \in 1..MaxLevel : \A j \in 1..i : j \in 1..l}
    <3>1. \A i \in 1..MaxLevel : 1..i \subseteq 1..MaxLevel
      BY <1>2
    <3> QED
      BY <2>1, <3>1 DEF Levels
  <2> QED
    BY <1>2, <2>2
<1>4. /\ linked.nodes \in Seq(NodeType) /\ DOMAIN linked.nodes = DOMAIN node
      /\ linked.head \in [1..MaxLevel -> Nat]
      /\ \A m \in DOMAIN node :
           linked.nodes[m].key = node[m].key /\ linked.nodes[m].value = node[m].value
           /\ DOMAIN linked.nodes[m].nexts = DOMAIN node[m].nexts
      /\ \A i \in 1..MaxLevel : \A c \in Tall(i) :
           After(linked.nodes, linked.head, c, i) =
             IF i \in 1..l /\ c = Update(i, key) THEN node[n].nexts[i] ELSE After(node, head, c, i)
  BY <1>2, <1>3, LinkIs
<1>5. \A i : After(node, head, n, i) = node[n].nexts[i]
  BY <1>0 DEF After
<1> QED
  BY <1>2, <1>4, <1>5 DEF Removed

\* What is left is a list without the node.
LEMMA RemovedIsChained ==
  ASSUME Shape(node, head), NEW L, Chained(node, head, L), NEW n \in L,
         NEW nodes, NEW heads, Removed(nodes, heads, n)
  PROVE  Shape(nodes, heads) /\ Chained(nodes, heads, L \ {n})
<1> DEFINE u(i) == Update(i, node[n].key)
<1>0. /\ n \in DOMAIN node /\ n # Nil /\ node[n].key \in Nat /\ L \subseteq DOMAIN node
      /\ Nil \notin DOMAIN node /\ DOMAIN node[n].nexts \subseteq 1..MaxLevel
  BY NodesAre DEF Chained
<1>1. /\ DOMAIN nodes = DOMAIN node
      /\ \A m \in DOMAIN node :
           nodes[m].key = node[m].key /\ DOMAIN nodes[m].nexts = DOMAIN node[m].nexts
      /\ \A i \in 1..MaxLevel : \A c \in Tall(i) :
           After(nodes, heads, c, i) = IF i \in DOMAIN node[n].nexts /\ c = u(i)
                                       THEN After(node, head, n, i) ELSE After(node, head, c, i)
  BY DEF Removed
<1>2. /\ \A c \in {Nil} \cup DOMAIN node : Rank(nodes, c) = Rank(node, c) /\ Rank(node, c) \in Nat
      /\ \A a, b \in L : Rank(node, a) = Rank(node, b) => a = b
  <2>1. \A c \in {Nil} \cup DOMAIN node : Rank(nodes, c) = Rank(node, c)
    BY <1>1 DEF Rank
  <2>2. \A c \in {Nil} \cup DOMAIN node : Rank(node, c) \in Nat
    BY NodesAre
  <2>3. \A a \in L : Rank(node, a) = node[a].key + 1 /\ node[a].key \in Nat
    BY <1>0, NodesAre DEF Rank
  <2>4. ASSUME NEW a \in L, NEW b \in L, Rank(node, a) = Rank(node, b) PROVE a = b
    <3>1. node[a].key = node[b].key
      BY <2>3, <2>4
    <3> QED
      BY <3>1 DEF Chained
  <2> QED
    BY <2>1, <2>2, <2>4
<1>3. ASSUME NEW i \in 1..MaxLevel, NEW M, M \subseteq DOMAIN node
      PROVE  /\ Of(nodes, M, i) = Of(node, M, i)
             /\ Of(node, M, i) \subseteq Tall(i) /\ Of(node, M, i) \subseteq {Nil} \cup M
  <2>1. \A m \in M : DOMAIN nodes[m].nexts = DOMAIN node[m].nexts
    BY <1>1, <1>3
  <2>2. Of(nodes, M, i) = Of(node, M, i)
    BY <2>1 DEF Of
  <2> QED
    BY <1>3, <2>2 DEF Of, Tall
<1>4. ASSUME NEW i \in DOMAIN node[n].nexts
      PROVE  /\ i \in 1..MaxLevel /\ u(i) \in Of(node, L, i) /\ n \in Of(node, L, i)
             /\ After(node, head, u(i), i) = n
  <2>0. i \in 1..MaxLevel
    BY <1>0
  <2>1. LastBefore(L, u(i), i, node[n].key)
    BY <1>0, <2>0, UpdateIs
  <2>2. NextOf(u(i), i) = n
    BY <2>0, PointedAt
  <2> QED
    BY <2>0, <2>1, <2>2 DEF LastBefore, Of, NextOf, After
<1> HIDE DEF u
<1>5. Upward(nodes, heads)
  <2>1. SUFFICES ASSUME NEW i \in 1..MaxLevel, NEW c \in Of(nodes, DOMAIN nodes, i)
                 PROVE  LET d == After(nodes, heads, c, i)
                        IN d \in Of(nodes, DOMAIN nodes, i)
                           /\ (d # Nil => Rank(nodes, c) < Rank(nodes, d))
    BY DEF Upward
  <2>2. Of(nodes, DOMAIN nodes, i) = Tall(i) /\ Tall(i) \subseteq {Nil} \cup DOMAIN node
    <3>1. Of(node, DOMAIN node, i) = Tall(i)
      BY DEF Of, Tall
    <3> QED
      BY <1>1, <1>3, <3>1
  <2> DEFINE d == After(nodes, heads, c, i)
  <2>3. d \in Tall(i) /\ (d # Nil => Rank(node, c) < Rank(node, d))
    <3>1. ASSUME NEW b \in Tall(i)
          PROVE  After(node, head, b, i) \in Tall(i)
                 /\ (After(node, head, b, i) # Nil => Rank(node, b) < Rank(node, After(node, head, b, i)))
      BY BeforeIs
    <3>2. CASE i \in DOMAIN node[n].nexts /\ c = u(i)
      <4>1. d = After(node, head, n, i)
        BY <1>1, <2>2, <3>2
      <4>2. n \in Tall(i) /\ After(node, head, c, i) = n /\ c \in Tall(i)
        BY <1>0, <1>3, <1>4, <3>2
      <4>3. Rank(node, c) < Rank(node, n)
        BY <1>0, <3>1, <4>2
      <4>4. d \in Tall(i) /\ (d # Nil => Rank(node, n) < Rank(node, d))
        BY <3>1, <4>1, <4>2
      <4> HIDE DEF d
      <4>5. Rank(node, c) \in Nat /\ Rank(node, d) \in Nat /\ Rank(node, n) \in Nat
        BY <1>0, <1>2, <2>2, <4>2, <4>4
      <4> QED
        BY <4>3, <4>4, <4>5
    <3>3. CASE ~(i \in DOMAIN node[n].nexts /\ c = u(i))
      BY <1>1, <2>2, <3>1, <3>3
    <3> QED
      BY <3>2, <3>3
  <2> HIDE DEF d
  <2>4. Rank(nodes, c) = Rank(node, c) /\ Rank(nodes, d) = Rank(node, d)
    BY <1>2, <2>2, <2>3
  <2> QED
    BY <2>2, <2>3, <2>4 DEF d
<1>6. Shape(nodes, heads)
  BY <1>5 DEF Shape, Removed
<1>7. \A a, b \in L \ {n} : nodes[a].key = nodes[b].key => a = b
  BY <1>0, <1>1 DEF Chained
<1>8. ASSUME NEW i \in 1..MaxLevel, NEW c \in Of(nodes, L \ {n}, i)
      PROVE  LET d == After(nodes, heads, c, i)
             IN /\ d \in Of(nodes, L \ {n}, i)
                /\ d # Nil => Rank(nodes, c) < Rank(nodes, d)
                /\ \A e \in Of(nodes, L \ {n}, i) :
                     Rank(nodes, c) < Rank(nodes, e) => d # Nil /\ Rank(nodes, d) <= Rank(nodes, e)
  <2> DEFINE d == After(nodes, heads, c, i)
  <2>1. /\ Of(nodes, L \ {n}, i) = Of(node, L, i) \ {n}
        /\ Of(node, L, i) \subseteq {Nil} \cup L /\ Of(node, L, i) \subseteq Tall(i)
    <3>1. Of(node, L \ {n}, i) = Of(node, L, i) \ {n}
      BY <1>0 DEF Of
    <3>2. L \ {n} \subseteq DOMAIN node
      BY <1>0
    <3> QED
      BY <1>0, <1>3, <3>1, <3>2
  <2>2. \A b \in Of(node, L, i) :
          /\ After(node, head, b, i) \in Of(node, L, i)
          /\ After(node, head, b, i) # Nil => Rank(node, b) < Rank(node, After(node, head, b, i))
          /\ \A e \in Of(node, L, i) :
               Rank(node, b) < Rank(node, e) =>
                 After(node, head, b, i) # Nil /\ Rank(node, After(node, head, b, i)) <= Rank(node, e)
    BY DEF Chained
  <2>3. \A b \in Of(node, L, i) : Rank(nodes, b) = Rank(node, b) /\ Rank(node, b) \in Nat
    BY <1>0, <1>2, <2>1
  <2>4. d # Nil => Rank(nodes, c) < Rank(nodes, d)
    <3>1. c \in Of(nodes, DOMAIN nodes, i)
      BY <1>0, <1>1 DEF Of
    <3> QED
      BY <1>5, <3>1 DEF Upward
  <2>5. /\ d \in Of(nodes, L \ {n}, i)
        /\ \A e \in Of(nodes, L \ {n}, i) :
             Rank(node, c) < Rank(node, e) => d # Nil /\ Rank(node, d) <= Rank(node, e)
    <3>1. CASE i \in DOMAIN node[n].nexts /\ c = u(i)
      <4>1. d = After(node, head, n, i) /\ n \in Of(node, L, i) /\ After(node, head, c, i) = n
        BY <1>1, <1>4, <2>1, <3>1
      <4>2. d \in Of(node, L, i) /\ (d # Nil => Rank(node, n) < Rank(node, d))
        BY <2>2, <4>1
      <4>3. d # n
        BY <1>0, <2>3, <4>1, <4>2
      <4>4. ASSUME NEW e \in Of(nodes, L \ {n}, i), Rank(node, c) < Rank(node, e)
            PROVE  d # Nil /\ Rank(node, d) <= Rank(node, e)
        <5>1. Rank(node, n) <= Rank(node, e) /\ e \in Of(node, L, i) /\ e # n
          BY <2>1, <2>2, <4>1, <4>4
        <5>2. Rank(node, n) # Rank(node, e)
          <6>1. e # Nil
            BY <2>3, <2>1, <4>4 DEF Rank
          <6> QED
            BY <1>2, <2>1, <5>1, <6>1
        <5>3. Rank(node, n) < Rank(node, e)
          BY <2>3, <4>1, <5>1, <5>2
        <5> QED
          BY <2>2, <4>1, <5>1, <5>3
      <4> QED
        BY <2>1, <4>2, <4>3, <4>4
    <3>2. CASE ~(i \in DOMAIN node[n].nexts /\ c = u(i))
      <4>1. d = After(node, head, c, i)
        BY <1>1, <2>1, <3>2
      <4>2. d # n
        <5>1. SUFFICES ASSUME d = n PROVE FALSE
          OBVIOUS
        <5>2. c = u(i)
          BY <2>1, <4>1, <5>1, PointedAt DEF u
        <5>3. i \in DOMAIN node[n].nexts
          BY <1>0, <2>1, <2>2, <4>1, <5>1 DEF Of
        <5> QED
          BY <3>2, <5>2, <5>3
      <4> QED
        BY <2>1, <2>2, <4>1, <4>2
    <3> QED
      BY <3>1, <3>2
  <2> HIDE DEF d
  <2>6. Rank(nodes, c) = Rank(node, c) /\ Rank(nodes, d) = Rank(node, d)
        /\ \A e \in Of(nodes, L \ {n}, i) : Rank(nodes, e) = Rank(node, e)
    BY <2>1, <2>3, <2>5
  <2> QED
    BY <2>4, <2>5, <2>6 DEF d
<1>9. Chained(nodes, heads, L \ {n})
  <2>1. L \ {n} \subseteq DOMAIN nodes
    BY <1>0, <1>1
  <2> QED
    BY <1>7, <1>8, <2>1 DEF Chained
<1> QED
  BY <1>6, <1>9

\* An empty head heads the empty list.
LEMMA EmptyIsChained ==
  ASSUME NEW nodes, NEW heads, Shape(nodes, heads), NEW none, none = [i \in 1..MaxLevel |-> Nil]
  PROVE  Shape(nodes, none) /\ Chained(nodes, none, {})
<1>1. none \in [1..MaxLevel -> Nat]
  BY DEF Nil
<1>2. ASSUME NEW i \in 1..MaxLevel, NEW c \in Of(nodes, DOMAIN nodes, i)
      PROVE  LET d == After(nodes, none, c, i)
             IN d \in Of(nodes, DOMAIN nodes, i) /\ (d # Nil => Rank(nodes, c) < Rank(nodes, d))
  <2>1. CASE c = Nil
    BY <2>1 DEF After, Of
  <2>2. CASE c # Nil
    <3>1. After(nodes, none, c, i) = After(nodes, heads, c, i)
      BY <2>2 DEF After
    <3> QED
      BY <3>1 DEF Shape, Upward
  <2> QED
    BY <2>1, <2>2
<1>3. Shape(nodes, none)
  BY <1>1, <1>2 DEF Shape, Upward
<1>4. \A i : Of(nodes, {}, i) = {Nil}
  BY DEF Of
<1>5. \A i \in 1..MaxLevel : After(nodes, none, Nil, i) = Nil
  BY DEF After
<1>6. Rank(nodes, Nil) = 0
  BY DEF Rank
<1>7. ASSUME NEW i \in 1..MaxLevel, NEW c \in Of(nodes, {}, i)
      PROVE  /\ After(nodes, none, c, i) = Nil /\ Nil \in Of(nodes, {}, i)
             /\ \A e \in Of(nodes, {}, i) : ~(Rank(nodes, c) < Rank(nodes, e))
  <2>1. c = Nil /\ \A e \in Of(nodes, {}, i) : e = Nil
    BY <1>4
  <2>2. ~(0 < 0)
    OBVIOUS
  <2> QED
    BY <1>4, <1>5, <1>6, <2>1, <2>2
<1>8. Chained(nodes, none, {})
  BY <1>7 DEF Chained
<1> QED
  BY <1>3, <1>8

-----------------------------------------------------------------------------
(* what an iteration still reaches *)

\* A node reaches all it reached before another was inserted.
LEMMA ChainGrows ==
  ASSUME Shape(node, head), NEW L, Chained(node, head, L), NEW key \in Keys, Found(key) = Nil,
         NEW level \in 1..MaxLevel, NEW nodes, NEW heads, Inserted(nodes, heads, key, level),
         NEW at \in DOMAIN node
  PROVE  ChainOf(node, node[at].nexts[1]) \subseteq ChainOf(nodes, nodes[at].nexts[1])
<1> DEFINE N == Len(node) + 1
           u == Update(1, key)
<1>0. /\ 1 \in 1..MaxLevel /\ 1 \in 1..level /\ N # Nil /\ N \notin DOMAIN node
      /\ DOMAIN nodes = DOMAIN node \cup {N} /\ Nil \notin DOMAIN node
  <2>1. /\ Len(node) \in Nat /\ DOMAIN node = 1..Len(node) /\ Len(nodes) = Len(node) + 1
        /\ nodes \in Seq(NodeType) /\ Nil \notin DOMAIN node
    BY NodesAre DEF Inserted
  <2>2. DOMAIN nodes = 1..Len(nodes)
    BY <2>1
  <2> QED
    BY <2>1, <2>2, ListAssumption DEF Nil
<1>1. ASSUME NEW m \in DOMAIN node
      PROVE  nodes[m].nexts[1] = IF m = u THEN N ELSE node[m].nexts[1]
  <2>1. m \in Tall(1) /\ m # Nil
    BY NodesAre DEF Tall
  <2>2. After(nodes, heads, m, 1) = IF m = u THEN N ELSE After(node, head, m, 1)
    BY <1>0, <2>1 DEF Inserted
  <2> QED
    BY <2>1, <2>2 DEF After
<1>2. u \in DOMAIN node => nodes[N].nexts[1] = node[u].nexts[1]
  <2>1. After(nodes, heads, N, 1) = After(node, head, u, 1)
    BY <1>0 DEF Inserted
  <2> QED
    BY <1>0, <2>1 DEF After
<1> HIDE DEF N, u
<1>3. ASSUME NEW e \in ChainOf(node, node[at].nexts[1]), NEW S \in SUBSET DOMAIN nodes,
             nodes[at].nexts[1] \in S \cup {Nil}, ClosedIn(nodes, S)
      PROVE  e \in S
  <2> DEFINE T == S \cap DOMAIN node
  <2>1. ASSUME NEW m \in DOMAIN node, nodes[m].nexts[1] \in S \cup {Nil}
        PROVE  node[m].nexts[1] \in T \cup {Nil}
    <3>1. node[m].nexts[1] \in {Nil} \cup DOMAIN node
      BY NextIs
    <3>2. CASE m = u
      <4>1. N \in S
        BY <1>0, <1>1, <2>1, <3>2
      <4>2. nodes[N].nexts[1] \in S \cup {Nil}
        BY <1>3, <4>1 DEF ClosedIn
      <4> QED
        BY <1>2, <2>1, <3>1, <3>2, <4>2
    <3>3. CASE m # u
      BY <1>1, <2>1, <3>1, <3>3
    <3> QED
      BY <3>2, <3>3
  <2>2. ClosedIn(node, T) /\ node[at].nexts[1] \in T \cup {Nil} /\ T \subseteq DOMAIN node
    BY <1>3, <2>1 DEF ClosedIn
  <2> HIDE DEF T
  <2>3. e \in T
    BY <1>3, <2>2, ChainWithin
  <2> QED
    BY <2>3 DEF T
<1>4. ChainOf(node, node[at].nexts[1]) \subseteq DOMAIN nodes
  BY <1>0 DEF ChainOf
<1> QED
  BY <1>3, <1>4 DEF ChainOf

\* A node reaches all it reached before another was removed, but that.
LEMMA ChainStays ==
  ASSUME Shape(node, head), NEW L, Chained(node, head, L), NEW n \in L,
         NEW nodes, NEW heads, Removed(nodes, heads, n), NEW at \in DOMAIN node
  PROVE  ChainOf(node, node[at].nexts[1]) \ {n} \subseteq ChainOf(nodes, nodes[at].nexts[1])
<1> DEFINE u == Update(1, node[n].key)
<1>0. /\ n \in DOMAIN node /\ 1 \in 1..MaxLevel /\ 1 \in DOMAIN node[n].nexts /\ n # Nil
      /\ DOMAIN nodes = DOMAIN node /\ Nil \notin DOMAIN node
  BY NodesAre, ListAssumption DEF Chained, Removed
<1>1. ASSUME NEW m \in DOMAIN node
      PROVE  nodes[m].nexts[1] = IF m = u THEN node[n].nexts[1] ELSE node[m].nexts[1]
  <2>1. m \in Tall(1) /\ m # Nil
    BY NodesAre DEF Tall
  <2>2. After(nodes, heads, m, 1) = IF m = u THEN After(node, head, n, 1) ELSE After(node, head, m, 1)
    BY <1>0, <2>1 DEF Removed
  <2> QED
    BY <1>0, <2>1, <2>2 DEF After
<1>2. u \in DOMAIN node => node[u].nexts[1] = n
  <2>1. NextOf(u, 1) = n
    BY <1>0, PointedAt
  <2> QED
    BY <1>0, <2>1 DEF NextOf
<1> HIDE DEF u
<1>3. ASSUME NEW e \in ChainOf(node, node[at].nexts[1]) \ {n}, NEW S \in SUBSET DOMAIN nodes,
             nodes[at].nexts[1] \in S \cup {Nil}, ClosedIn(nodes, S)
      PROVE  e \in S
  <2>1. CASE u \in S \cup {at}
    <3> DEFINE T == S \cup {n}
    <3>1. u \in DOMAIN node /\ node[n].nexts[1] \in S \cup {Nil}
      BY <1>0, <1>1, <1>3, <2>1 DEF ClosedIn
    <3>2. ASSUME NEW m \in DOMAIN node, nodes[m].nexts[1] \in S \cup {Nil}
          PROVE  node[m].nexts[1] \in T \cup {Nil}
      BY <1>1, <1>2, <3>1, <3>2
    <3>3. ClosedIn(node, T) /\ node[at].nexts[1] \in T \cup {Nil} /\ T \subseteq DOMAIN node
      <4>1. \A m \in S : node[m].nexts[1] \in T \cup {Nil}
        BY <1>0, <1>3, <3>2 DEF ClosedIn
      <4>2. node[n].nexts[1] \in T \cup {Nil}
        BY <3>1
      <4>3. node[at].nexts[1] \in T \cup {Nil} /\ T \subseteq DOMAIN node
        BY <1>0, <1>3, <3>2
      <4> QED
        BY <4>1, <4>2, <4>3 DEF ClosedIn
    <3> HIDE DEF T
    <3>4. e \in T
      BY <1>3, <3>3, ChainWithin
    <3> QED
      BY <1>3, <3>4 DEF T
  <2>2. CASE u \notin S \cup {at}
    <3>1. ClosedIn(node, S) /\ node[at].nexts[1] \in S \cup {Nil} /\ S \subseteq DOMAIN node
      BY <1>0, <1>1, <1>3, <2>2 DEF ClosedIn
    <3> QED
      BY <1>3, <3>1, ChainWithin
  <2> QED
    BY <2>1, <2>2
<1>4. ChainOf(node, node[at].nexts[1]) \subseteq DOMAIN nodes
  BY <1>0 DEF ChainOf
<1> QED
  BY <1>3, <1>4 DEF ChainOf

-----------------------------------------------------------------------------
(* the invariant *)

\* The list: its nodes are well made, and those behind the head are chained on every level.
ListCore == Shape(node, head) /\ Chained(node, head, Listed)

Reading == {"at", "deref", "copied"}

ReadersType ==
  /\ placeholder \in Nat
  /\ reader \in [Readers -> [at : Nat, from : SUBSET Nat, seen : Seq(Nat),
                             state : Reading \cup {"out", "end"}]]
  /\ \A r \in Readers : reader[r].state \in Reading => reader[r].at \in DOMAIN node

\* An iteration has seen nodes in the order of their keys, up to the one it is at, and has
\* those it began with, except deleted ones, behind it, at hand, or before it.
Iterates(it, nodes, gone, held) ==
  /\ \A j \in DOMAIN it.seen : it.seen[j] \in DOMAIN nodes
  /\ \A j, k \in DOMAIN it.seen : j < k => nodes[it.seen[j]].key < nodes[it.seen[k]].key
  /\ it.state \in {"at", "deref"} =>
       \A j \in DOMAIN it.seen : nodes[it.seen[j]].key < nodes[it.at].key
  /\ it.state = "deref" => held = it.at
  /\ it.state = "copied" =>
       /\ it.at \in Nodes(it.seen)
       /\ \A j \in DOMAIN it.seen : nodes[it.seen[j]].key <= nodes[it.at].key
  /\ it.state \in Reading =>
       it.from \ gone \subseteq Nodes(it.seen) \cup {it.at} \cup ChainOf(nodes, nodes[it.at].nexts[1])
  /\ it.state = "end" => it.from \ gone \subseteq Nodes(it.seen)

ListInv ==
  /\ ListCore
  /\ ReadersType
  /\ \A r \in Readers \ raced : Iterates(reader[r], node, freed, placeholder)

-----------------------------------------------------------------------------
(* the steps of the list *)

\* Nodes keep their keys and values.
Keep(nodes, later) ==
  /\ DOMAIN nodes \subseteq DOMAIN later
  /\ \A n \in DOMAIN nodes : later[n].key = nodes[n].key /\ later[n].value = nodes[n].value

\* What is listed, before and after a step, by nodes and head.
LEMMA ListedIs == Listed = ChainOf(node, head[1]) /\ Listed' = ChainOf(node', head'[1])
<1>1. Listed = ChainOf(node, head[1])
  BY DEF Listed, Chain, ChainOf, ClosedIn
<1>2. Listed' = ChainOf(node', head'[1])
  BY DEF Listed, Chain, ChainOf, ClosedIn
<1> QED
  BY <1>1, <1>2

\* What the list is after a step.
LEMMA ListedAfter ==
  ASSUME NEW L, Shape(node', head'), Chained(node', head', L)
  PROVE  Listed' = L /\ ListCore'
<1>1. ChainOf(node', head'[1]) = L
  BY ListedAre
<1> QED
  BY <1>1, ListedIs DEF ListCore

\* put: a new node of the key.
LEMMA PutStep ==
  ASSUME ListCore, NEW key \in Keys, NEW value \in Values, Put(key, value)
  PROVE  /\ ListCore' /\ Keep(node, node')
         /\ Listed' = Listed \cup {Len(node) + 1}
         /\ node'[Len(node) + 1].key = key /\ node'[Len(node) + 1].value = value
         /\ \A n \in Listed : node[n].key # key
         /\ \A at \in DOMAIN node :
              ChainOf(node, node[at].nexts[1]) \subseteq ChainOf(node', node'[at].nexts[1])
<1>0. Shape(node, head) /\ Chained(node, head, Listed) /\ Found(key) = Nil /\ key \in Nat
  BY ListAssumption DEF ListCore, Put
<1>1. PICK level \in 1..MaxLevel :
        /\ node' = Append(Link(node, 1..level, key, ToNew(level)).nodes, NewNode(key, value, level))
        /\ head' = Link(node, 1..level, key, ToNew(level)).head
  BY DEF Put, NewNode, ToNew
<1>2. Inserted(node', head', key, level) /\ node'[Len(node) + 1].value = value
  BY <1>0, <1>1, PutInserts
<1>3. Shape(node', head') /\ Chained(node', head', Listed \cup {Len(node) + 1})
  BY <1>0, <1>2, InsertedIsChained
<1>4. ListCore' /\ Listed' = Listed \cup {Len(node) + 1}
  BY <1>3, ListedAfter
<1>5. Keep(node, node') /\ node'[Len(node) + 1].key = key
  <2>1. DOMAIN node = 1..Len(node) /\ DOMAIN node' = 1..Len(node') /\ Len(node) \in Nat
    BY <1>0, <1>3, NodesAre
  <2> QED
    BY <1>2, <2>1 DEF Inserted, Keep
<1>6. \A n \in Listed : node[n].key # key
  BY <1>0, FoundIs
<1>7. ASSUME NEW at \in DOMAIN node
      PROVE  ChainOf(node, node[at].nexts[1]) \subseteq ChainOf(node', node'[at].nexts[1])
  BY <1>0, <1>2, ChainGrows
<1> QED
  BY <1>2, <1>4, <1>5, <1>6, <1>7

\* del: the node of the key is gone.
LEMMA DelStep ==
  ASSUME ListCore, NEW key \in Keys, Del(key)
  PROVE  \E n \in Listed :
           /\ ListCore' /\ Keep(node, node')
           /\ node[n].key = key /\ Listed' = Listed \ {n} /\ freed' = freed \cup {n}
           /\ \A at \in DOMAIN node :
                ChainOf(node, node[at].nexts[1]) \ {n} \subseteq ChainOf(node', node'[at].nexts[1])
<1> DEFINE n == Found(key)
<1>0. /\ Shape(node, head) /\ Chained(node, head, Listed) /\ key \in Nat
      /\ n \in Listed /\ node[n].key = key
  BY ListAssumption, FoundIs DEF ListCore, Del
<1>1. /\ node' = Link(node, Levels(n, key), key, node[n].nexts).nodes
      /\ head' = Link(node, Levels(n, key), key, node[n].nexts).head
      /\ freed' = freed \cup {n}
  BY DEF Del
<1> HIDE DEF n
<1>2. Removed(node', head', n)
  BY <1>0, <1>1, DelRemoves
<1>3. Shape(node', head') /\ Chained(node', head', Listed \ {n})
  BY <1>0, <1>2, RemovedIsChained
<1>4. ListCore' /\ Listed' = Listed \ {n}
  BY <1>3, ListedAfter
<1>5. Keep(node, node')
  BY <1>2 DEF Removed, Keep
<1>6. ASSUME NEW at \in DOMAIN node
      PROVE  ChainOf(node, node[at].nexts[1]) \ {n} \subseteq ChainOf(node', node'[at].nexts[1])
  BY <1>0, <1>2, ChainStays
<1> QED
  BY <1>0, <1>1, <1>4, <1>5, <1>6

\* cle: nothing is listed, and the nodes stay.
LEMMA CleStep ==
  ASSUME ListCore, Cle
  PROVE  ListCore' /\ Listed' = {} /\ node' = node
<1>1. Shape(node', head') /\ Chained(node', head', {})
  BY EmptyIsChained DEF ListCore, Cle
<1> QED
  BY <1>1, ListedAfter DEF Cle

\* An iteration that was right is right after a step that keeps what it reaches.
LEMMA IteratesOn ==
  ASSUME NEW nodes, NEW later, Keep(nodes, later), NEW gone, NEW removed, gone \subseteq removed,
         NEW held, NEW it, it.state \in Reading => it.at \in DOMAIN nodes,
         \A at \in DOMAIN nodes :
           ChainOf(nodes, nodes[at].nexts[1]) \ removed \subseteq ChainOf(later, later[at].nexts[1]),
         Iterates(it, nodes, gone, held)
  PROVE  Iterates(it, later, removed, held)
<1>1. /\ \A j \in DOMAIN it.seen : it.seen[j] \in DOMAIN nodes
      /\ \A j, k \in DOMAIN it.seen : j < k => nodes[it.seen[j]].key < nodes[it.seen[k]].key
      /\ it.state \in {"at", "deref"} =>
           \A j \in DOMAIN it.seen : nodes[it.seen[j]].key < nodes[it.at].key
      /\ it.state = "deref" => held = it.at
      /\ it.state = "copied" =>
           /\ it.at \in Nodes(it.seen)
           /\ \A j \in DOMAIN it.seen : nodes[it.seen[j]].key <= nodes[it.at].key
      /\ it.state \in Reading =>
           it.from \ gone \subseteq Nodes(it.seen) \cup {it.at} \cup ChainOf(nodes, nodes[it.at].nexts[1])
      /\ it.state = "end" => it.from \ gone \subseteq Nodes(it.seen)
  BY DEF Iterates
<1>2. DOMAIN nodes \subseteq DOMAIN later /\ \A n \in DOMAIN nodes : later[n].key = nodes[n].key
  BY DEF Keep
<1>3. \A j \in DOMAIN it.seen : it.seen[j] \in DOMAIN later
                                 /\ later[it.seen[j]].key = nodes[it.seen[j]].key
  BY <1>1, <1>2
<1>4. it.state \in Reading =>
        it.from \ removed \subseteq Nodes(it.seen) \cup {it.at} \cup ChainOf(later, later[it.at].nexts[1])
  BY <1>1
<1>5. it.state = "end" => it.from \ removed \subseteq Nodes(it.seen)
  BY <1>1
<1>6. it.state \in {"at", "deref", "copied"} => later[it.at].key = nodes[it.at].key
  BY <1>2 DEF Reading
<1> QED
  BY <1>1, <1>3, <1>4, <1>5, <1>6 DEF Iterates

\* The keys and the memory of the list while only iterations move.
LEMMA Still ==
  ASSUME ListCore, UNCHANGED <<node, head>>
  PROVE  ListCore'
BY DEF ListCore, Listed, Chain

-----------------------------------------------------------------------------
(* the steps of the iterations *)

\* The type of the iterations after a step that moves none of them.
LEMMA ReadersStay ==
  ASSUME ReadersType, UNCHANGED <<reader, placeholder>>, DOMAIN node \subseteq DOMAIN node'
  PROVE  ReadersType'
BY DEF ReadersType

\* A step of the list leaves every iteration right.
LEMMA ListMoves ==
  ASSUME ListInv, ListCore', Keep(node, node'), freed \subseteq freed',
         UNCHANGED <<reader, placeholder, raced>>,
         \A at \in DOMAIN node :
           ChainOf(node, node[at].nexts[1]) \ freed' \subseteq ChainOf(node', node'[at].nexts[1])
  PROVE  ListInv'
<1>1. ReadersType'
  BY ReadersStay DEF ListInv, Keep
<1>2. ASSUME NEW r \in Readers \ raced PROVE Iterates(reader[r], node', freed', placeholder)
  <2>1. Iterates(reader[r], node, freed, placeholder)
        /\ (reader[r].state \in Reading => reader[r].at \in DOMAIN node)
    BY DEF ListInv, ReadersType
  <2> DEFINE it == reader[r]
  <2> HIDE DEF it
  <2>2. Iterates(it, node, freed, placeholder) /\ (it.state \in Reading => it.at \in DOMAIN node)
    BY <2>1 DEF it
  <2>3. Iterates(it, node', freed', placeholder)
    BY <2>2, IteratesOn
  <2> QED
    BY <2>3 DEF it
<1> QED
  BY <1>1, <1>2 DEF ListInv

\* The list steps.
LEMMA ListStepKeeps ==
  ASSUME ListInv,
         (\E key \in Keys : (\E value \in Values : Put(key, value)) \/ Del(key)) \/ Cle
  PROVE  ListInv'
<1>0. ListCore
  BY DEF ListInv
<1>1. ASSUME NEW key \in Keys, NEW value \in Values, Put(key, value) PROVE ListInv'
  <2>1. /\ ListCore' /\ Keep(node, node')
        /\ \A at \in DOMAIN node :
             ChainOf(node, node[at].nexts[1]) \subseteq ChainOf(node', node'[at].nexts[1])
    BY <1>0, <1>1, PutStep
  <2>2. UNCHANGED <<freed, reader, placeholder, raced>>
    BY <1>1 DEF Put
  <2> QED
    BY <2>1, <2>2, ListMoves
<1>2. ASSUME NEW key \in Keys, Del(key) PROVE ListInv'
  <2>1. PICK n \in Listed :
          /\ ListCore' /\ Keep(node, node') /\ freed' = freed \cup {n}
          /\ \A at \in DOMAIN node :
               ChainOf(node, node[at].nexts[1]) \ {n} \subseteq ChainOf(node', node'[at].nexts[1])
    BY <1>0, <1>2, DelStep
  <2>2. UNCHANGED <<reader, placeholder, raced>>
    BY <1>2 DEF Del
  <2>3. \A at \in DOMAIN node :
          ChainOf(node, node[at].nexts[1]) \ freed' \subseteq ChainOf(node', node'[at].nexts[1])
    BY <2>1
  <2> QED
    BY <2>1, <2>2, <2>3, ListMoves
<1>3. ASSUME Cle PROVE ListInv'
  <2>1. ListCore' /\ node' = node
    BY <1>0, <1>3, CleStep
  <2>2. UNCHANGED <<freed, reader, placeholder, raced>>
    BY <1>3 DEF Cle
  <2>3. Keep(node, node')
    BY <2>1 DEF Keep
  <2> QED
    BY <2>1, <2>2, <2>3, ListMoves
<1> QED
  BY <1>1, <1>2, <1>3

\* After a step of one iteration the others are as they were.
LEMMA OneMoves ==
  ASSUME ListInv, UNCHANGED <<node, freed, head>>, NEW r \in Readers, NEW it,
         reader' = [reader EXCEPT ![r] = it],
         it \in [at : Nat, from : SUBSET Nat, seen : Seq(Nat), state : Reading \cup {"out", "end"}],
         it.state \in Reading => it.at \in DOMAIN node,
         placeholder' \in Nat, raced \ {r} \subseteq raced',
         \A other \in Readers \ {r} :
           other \notin raced' => placeholder' = placeholder \/ reader[other].state # "deref",
         r \notin raced' => Iterates(it, node, freed, placeholder')
  PROVE  ListInv'
<1>1. ReadersType'
  <2>1. /\ reader \in [Readers -> [at : Nat, from : SUBSET Nat, seen : Seq(Nat),
                                   state : Reading \cup {"out", "end"}]]
        /\ \A q \in Readers : reader[q].state \in Reading => reader[q].at \in DOMAIN node
    BY DEF ListInv, ReadersType
  <2>2. /\ reader' \in [Readers -> [at : Nat, from : SUBSET Nat, seen : Seq(Nat),
                                    state : Reading \cup {"out", "end"}]]
        /\ \A q \in Readers : reader'[q].state \in Reading => reader'[q].at \in DOMAIN node
    BY <2>1
  <2> QED
    BY <2>2 DEF ReadersType
<1>2. ASSUME NEW q \in Readers \ raced' PROVE Iterates(reader'[q], node, freed, placeholder')
  <2>0. reader \in [Readers -> [at : Nat, from : SUBSET Nat, seen : Seq(Nat),
                                   state : Reading \cup {"out", "end"}]]
    BY DEF ListInv, ReadersType
  <2>1. CASE q = r
    BY <2>0, <2>1
  <2>2. CASE q # r
    <3>1. reader'[q] = reader[q] /\ q \in Readers \ raced
      BY <2>0, <2>2
    <3>2. Iterates(reader[q], node, freed, placeholder)
      BY <3>1 DEF ListInv
    <3>3. placeholder' = placeholder \/ reader[q].state # "deref"
      BY <2>2
    <3> QED
      BY <3>1, <3>2, <3>3 DEF Iterates
  <2> QED
    BY <2>1, <2>2
<1>3. ListCore'
  BY Still DEF ListInv
<1> QED
  BY <1>1, <1>2, <1>3 DEF ListInv

\* begin(): the iteration has all listed nodes at hand or before it.
LEMMA BeginKeeps ==
  ASSUME ListInv, NEW r \in Readers, Begin(r)
  PROVE  ListInv'
<1> DEFINE it == [at |-> head[1], from |-> Listed, seen |-> <<>>, state |-> "at"]
<1>0. Shape(node, head) /\ placeholder \in Nat
  BY DEF ListInv, ListCore, ReadersType
<1>1. /\ head[1] \in DOMAIN node /\ head[1] \in Nat /\ Listed \in SUBSET Nat
      /\ Listed \subseteq {head[1]} \cup ChainOf(node, node[head[1]].nexts[1])
  <2>1. head[1] \in DOMAIN node /\ DOMAIN node \subseteq Nat
    BY <1>0, NextIs, NodesAre DEF Begin
  <2>2. Listed = ChainOf(node, head[1])
    BY ListedIs
  <2>3. Listed \subseteq DOMAIN node
    BY <2>2 DEF ChainOf
  <2> QED
    BY <1>0, <2>1, <2>2, <2>3, ChainStep
<1>2. reader' = [reader EXCEPT ![r] = it]
      /\ UNCHANGED <<node, freed, head, placeholder, raced>>
  BY DEF Begin
<1>3. /\ it \in [at : Nat, from : SUBSET Nat, seen : Seq(Nat), state : Reading \cup {"out", "end"}]
      /\ it.at = head[1] /\ it.from = Listed /\ it.seen = <<>> /\ it.state = "at"
  BY <1>1 DEF Reading
<1> HIDE DEF it
<1>4. DOMAIN it.seen = {}
  BY <1>3
<1>5. Iterates(it, node, freed, placeholder)
  BY <1>1, <1>3, <1>4 DEF Iterates
<1> QED
  BY <1>0, <1>1, <1>2, <1>3, <1>5, OneMoves

\* What an iteration is, by its fields.
LEMMA IterationIs ==
  ASSUME ListInv, NEW r \in Readers
  PROVE  /\ reader[r].at \in Nat /\ reader[r].from \in SUBSET Nat /\ reader[r].seen \in Seq(Nat)
         /\ reader[r].state \in Reading => reader[r].at \in DOMAIN node
         /\ r \notin raced => Iterates(reader[r], node, freed, placeholder)
         /\ placeholder \in Nat
         /\ reader[r] = [at |-> reader[r].at, from |-> reader[r].from, seen |-> reader[r].seen,
                         state |-> reader[r].state]
         /\ reader \in [Readers -> [at : Nat, from : SUBSET Nat, seen : Seq(Nat),
                                    state : Reading \cup {"out", "end"}]]
BY DEF ListInv, ReadersType

\* operator*: the static variable holds the node at hand; others that relied on it are raced.
LEMMA DerefKeeps ==
  ASSUME ListInv, NEW r \in Readers, Deref(r)
  PROVE  ListInv'
<1> DEFINE old == reader[r]
           it == [at |-> old.at, from |-> old.from, seen |-> old.seen, state |-> "deref"]
<1>0. /\ old.at \in Nat /\ old.from \in SUBSET Nat /\ old.seen \in Seq(Nat)
      /\ old.at \in DOMAIN node
      /\ r \notin raced => Iterates(old, node, freed, placeholder)
      /\ old.state = "at"
  BY IterationIs DEF Deref, Reading
<1>1. reader' = [reader EXCEPT ![r] = it]
  <2>1. reader' = [reader EXCEPT ![r].state = "deref"]
    BY DEF Deref
  <2>2. [old EXCEPT !.state = "deref"] = it
    <3>1. old = [at |-> old.at, from |-> old.from, seen |-> old.seen, state |-> old.state]
      BY IterationIs
    <3> HIDE DEF old
    <3> QED
      BY <3>1
  <2>3. reader' = [reader EXCEPT ![r] = [old EXCEPT !.state = "deref"]]
    BY <2>1, IterationIs
  <2> QED
    BY <2>2, <2>3
<1>2. /\ UNCHANGED <<node, freed, head>> /\ placeholder' = old.at
      /\ raced' = raced \cup {other \in Readers \ {r} : reader[other].state = "deref"}
  BY DEF Deref
<1>3. /\ it \in [at : Nat, from : SUBSET Nat, seen : Seq(Nat), state : Reading \cup {"out", "end"}]
      /\ it.at = old.at /\ it.from = old.from /\ it.seen = old.seen /\ it.state = "deref"
  BY <1>0 DEF Reading
<1> HIDE DEF it, old
<1>4. ASSUME r \notin raced' PROVE Iterates(it, node, freed, placeholder')
  <2>1. Iterates(old, node, freed, placeholder)
    BY <1>0, <1>2, <1>4
  <2> QED
    BY <1>0, <1>2, <1>3, <2>1 DEF Iterates, Reading
<1>5. \A other \in Readers \ {r} : other \notin raced' => reader[other].state # "deref"
  BY <1>2
<1>6. placeholder' \in Nat /\ raced \ {r} \subseteq raced' /\ it.at \in DOMAIN node
  BY <1>0, <1>2, <1>3
<1> QED
  BY <1>1, <1>2, <1>3, <1>4, <1>5, <1>6, OneMoves

\* operator* for another list: all that relied on the static variable are raced.
LEMMA ElsewhereKeeps ==
  ASSUME ListInv, Elsewhere
  PROVE  ListInv'
<1>1. ListCore'
  BY Still DEF ListInv, Elsewhere
<1>2. ReadersType'
  BY DEF ListInv, ReadersType, Elsewhere, Nil
<1>3. ASSUME NEW r \in Readers \ raced' PROVE Iterates(reader[r], node, freed, placeholder')
  <2>1. r \in Readers \ raced /\ reader[r].state # "deref"
    BY DEF Elsewhere
  <2>2. Iterates(reader[r], node, freed, placeholder)
    BY <2>1 DEF ListInv
  <2> QED
    BY <2>1, <2>2 DEF Iterates
<1>4. UNCHANGED <<reader, node, freed>>
  BY DEF Elsewhere
<1> QED
  BY <1>1, <1>2, <1>3, <1>4 DEF ListInv

\* The copy: the node at hand is the last one seen.
LEMMA CopyKeeps ==
  ASSUME ListInv, NEW r \in Readers, Copy(r)
  PROVE  ListInv'
<1> DEFINE old == reader[r]
           it == [at |-> old.at, from |-> old.from, seen |-> Append(old.seen, placeholder),
                  state |-> "copied"]
<1>0. /\ old.at \in Nat /\ old.from \in SUBSET Nat /\ old.seen \in Seq(Nat)
      /\ old.at \in DOMAIN node /\ placeholder \in Nat
      /\ r \notin raced => Iterates(old, node, freed, placeholder)
      /\ old.state = "deref"
  BY IterationIs DEF Copy, Reading
<1>1. reader' = [reader EXCEPT ![r] = it]
  <2>1. reader' = [reader EXCEPT ![r].seen = Append(@, placeholder), ![r].state = "copied"]
    BY DEF Copy
  <2>2. [old EXCEPT !.seen = Append(old.seen, placeholder), !.state = "copied"] = it
    <3>1. old = [at |-> old.at, from |-> old.from, seen |-> old.seen, state |-> old.state]
      BY IterationIs
    <3> HIDE DEF old
    <3>2. ASSUME NEW s
          PROVE  [old EXCEPT !.seen = s, !.state = "copied"] =
                   [at |-> old.at, from |-> old.from, seen |-> s, state |-> "copied"]
      <4> DEFINE half == [old EXCEPT !.seen = s]
      <4>1. half = [at |-> old.at, from |-> old.from, seen |-> s, state |-> old.state]
        BY <3>1
      <4> HIDE DEF half
      <4>2. [half EXCEPT !.state = "copied"] =
              [at |-> old.at, from |-> old.from, seen |-> s, state |-> "copied"]
        BY <4>1
      <4> QED
        BY <4>2 DEF half
    <3> QED
      BY <3>2
  <2>3. reader' = [reader EXCEPT ![r] = [old EXCEPT !.seen = Append(old.seen, placeholder),
                                                    !.state = "copied"]]
    BY <2>1, IterationIs
  <2> QED
    BY <2>2, <2>3
<1>2. UNCHANGED <<node, freed, head, placeholder, raced>>
  BY DEF Copy
<1>3. /\ it \in [at : Nat, from : SUBSET Nat, seen : Seq(Nat), state : Reading \cup {"out", "end"}]
      /\ it.at = old.at /\ it.from = old.from /\ it.seen = Append(old.seen, placeholder)
      /\ it.state = "copied"
  BY <1>0 DEF Reading
<1> HIDE DEF it, old
<1>4. ASSUME r \notin raced' PROVE Iterates(it, node, freed, placeholder')
  <2>1. Iterates(old, node, freed, placeholder)
    BY <1>0, <1>2, <1>4
  <2>2. /\ placeholder = old.at
        /\ \A j \in DOMAIN old.seen :
             old.seen[j] \in DOMAIN node /\ node[old.seen[j]].key < node[old.at].key
        /\ \A j, k \in DOMAIN old.seen : j < k => node[old.seen[j]].key < node[old.seen[k]].key
        /\ old.from \ freed \subseteq Nodes(old.seen) \cup {old.at} \cup ChainOf(node, node[old.at].nexts[1])
    BY <1>0, <2>1 DEF Iterates, Reading
  <2> DEFINE n == Len(old.seen)
  <2>3. /\ n \in Nat /\ DOMAIN old.seen = 1..n /\ DOMAIN it.seen = 1..n + 1
        /\ it.seen[n + 1] = old.at /\ \A j \in 1..n : it.seen[j] = old.seen[j]
    BY <1>0, <1>3, <2>2
  <2> HIDE DEF n
  <2>4. Nodes(it.seen) = Nodes(old.seen) \cup {old.at}
    <3>1. 1..n + 1 = 1..n \cup {n + 1}
      BY <2>3
    <3> QED
      BY <2>3, <3>1 DEF Nodes
  <2>5. node[old.at].key \in Nat
    BY <1>0, NodesAre DEF ListInv, ListCore
  <2>6. \A j \in DOMAIN it.seen : it.seen[j] \in DOMAIN node
                                  /\ node[it.seen[j]].key <= node[old.at].key
    <3>1. \A j \in 1..n : it.seen[j] \in DOMAIN node /\ node[it.seen[j]].key < node[old.at].key
      BY <2>2, <2>3
    <3>2. \A j \in 1..n : node[it.seen[j]].key \in Nat
      BY <3>1, NodesAre DEF ListInv, ListCore
    <3>3. ASSUME NEW j \in 1..n + 1, j \notin 1..n PROVE j = n + 1
      BY <2>3, <3>3
    <3>4. ASSUME NEW j \in 1..n + 1
          PROVE  it.seen[j] \in DOMAIN node /\ node[it.seen[j]].key <= node[old.at].key
      <4>1. CASE j \in 1..n
        BY <2>5, <3>1, <3>2, <4>1
      <4>2. CASE j \notin 1..n
        <5>1. it.seen[j] = old.at
          BY <2>3, <3>3, <4>2
        <5> QED
          BY <1>0, <2>5, <5>1
      <4> QED
        BY <4>1, <4>2
    <3> QED
      BY <2>3, <3>4
  <2>7. ASSUME NEW j \in DOMAIN it.seen, NEW k \in DOMAIN it.seen, j < k
        PROVE  node[it.seen[j]].key < node[it.seen[k]].key
    <3>1. j \in 1..n /\ it.seen[j] = old.seen[j]
      BY <2>3, <2>7
    <3>2. CASE k \in 1..n
      BY <2>2, <2>3, <2>7, <3>1, <3>2
    <3>3. CASE k \notin 1..n
      <4>1. k = n + 1
        BY <2>3, <3>3
      <4> QED
        BY <2>2, <2>3, <3>1, <4>1
    <3> QED
      BY <3>2, <3>3
  <2>8. it.at \in Nodes(it.seen)
    BY <1>3, <2>4
  <2>9. it.from \ freed \subseteq Nodes(it.seen) \cup {it.at} \cup ChainOf(node, node[it.at].nexts[1])
    BY <1>3, <2>2, <2>4
  <2> QED
    BY <1>3, <2>6, <2>7, <2>8, <2>9 DEF Iterates
<1> QED
  BY <1>0, <1>1, <1>2, <1>3, <1>4, OneMoves

\* operator++: the next node is behind all that were seen.
LEMMA AdvanceKeeps ==
  ASSUME ListInv, NEW r \in Readers, Advance(r)
  PROVE  ListInv'
<1> DEFINE old == reader[r]
           next == node[old.at].nexts[1]
           it == [at |-> next, from |-> old.from, seen |-> old.seen,
                  state |-> IF next = Nil THEN "end" ELSE "at"]
<1>0. /\ old.at \in Nat /\ old.from \in SUBSET Nat /\ old.seen \in Seq(Nat)
      /\ old.at \in DOMAIN node /\ placeholder \in Nat
      /\ r \notin raced => Iterates(old, node, freed, placeholder)
      /\ old.state = "copied" /\ Shape(node, head)
  BY IterationIs DEF Advance, Reading, ListInv, ListCore
<1>1. reader' = [reader EXCEPT ![r] = it]
  <2>1. reader' = [reader EXCEPT ![r].at = next, ![r].state = IF next = Nil THEN "end" ELSE "at"]
    BY DEF Advance
  <2>2. [old EXCEPT !.at = next, !.state = IF next = Nil THEN "end" ELSE "at"] = it
    <3>1. old = [at |-> old.at, from |-> old.from, seen |-> old.seen, state |-> old.state]
      BY IterationIs
    <3> HIDE DEF old, next
    <3>2. ASSUME NEW n, NEW s
          PROVE  [old EXCEPT !.at = n, !.state = s] =
                   [at |-> n, from |-> old.from, seen |-> old.seen, state |-> s]
      <4> DEFINE half == [old EXCEPT !.at = n]
      <4>1. half = [at |-> n, from |-> old.from, seen |-> old.seen, state |-> old.state]
        BY <3>1
      <4> HIDE DEF half
      <4>2. [half EXCEPT !.state = s] =
              [at |-> n, from |-> old.from, seen |-> old.seen, state |-> s]
        BY <4>1
      <4> QED
        BY <4>2 DEF half
    <3> QED
      BY <3>2
  <2>3. reader' = [reader EXCEPT ![r] = [old EXCEPT !.at = next,
                                             !.state = IF next = Nil THEN "end" ELSE "at"]]
    BY <2>1, IterationIs
  <2> QED
    BY <2>2, <2>3
<1>2. UNCHANGED <<node, freed, head, placeholder, raced>>
  BY DEF Advance
<1>3. next \in {Nil} \cup DOMAIN node /\ next \in Nat
      /\ (next # Nil => node[old.at].key < node[next].key)
  <2>1. DOMAIN node \subseteq Nat
    BY <1>0, NodesAre
  <2> QED
    BY <1>0, <2>1, NextIs DEF Nil
<1>4. /\ it \in [at : Nat, from : SUBSET Nat, seen : Seq(Nat), state : Reading \cup {"out", "end"}]
      /\ it.at = next /\ it.from = old.from /\ it.seen = old.seen
      /\ it.state = IF next = Nil THEN "end" ELSE "at"
  BY <1>0, <1>3 DEF Reading
<1> HIDE DEF it, old, next
<1>5. ASSUME r \notin raced' PROVE Iterates(it, node, freed, placeholder')
  <2>1. Iterates(old, node, freed, placeholder)
    BY <1>0, <1>2, <1>5
  <2>2. /\ \A j \in DOMAIN old.seen :
             old.seen[j] \in DOMAIN node /\ node[old.seen[j]].key <= node[old.at].key
        /\ \A j, k \in DOMAIN old.seen : j < k => node[old.seen[j]].key < node[old.seen[k]].key
        /\ old.at \in Nodes(old.seen)
        /\ old.from \ freed \subseteq Nodes(old.seen) \cup {old.at} \cup ChainOf(node, next)
    BY <1>0, <2>1 DEF Iterates, Reading, next
  <2>3. old.from \ freed \subseteq Nodes(old.seen) \cup ChainOf(node, next)
    BY <2>2
  <2>4. CASE next = Nil
    <3>1. old.from \ freed \subseteq Nodes(old.seen)
      BY <2>3, <2>4, ChainOfNil
    <3> QED
      BY <1>4, <2>2, <2>4, <3>1 DEF Iterates, Reading
  <2>5. CASE next # Nil
    <3>1. next \in DOMAIN node
      BY <1>3, <2>5
    <3>2. old.from \ freed \subseteq Nodes(old.seen) \cup {next} \cup ChainOf(node, node[next].nexts[1])
      BY <1>0, <2>3, <3>1, ChainStep
    <3>3. ASSUME NEW j \in DOMAIN old.seen PROVE node[old.seen[j]].key < node[next].key
      <4>1. /\ node[old.seen[j]].key \in Nat /\ node[old.at].key \in Nat /\ node[next].key \in Nat
        BY <1>0, <2>2, <3>1, NodesAre
      <4>2. node[old.seen[j]].key <= node[old.at].key /\ node[old.at].key < node[next].key
        BY <1>3, <2>2, <2>5
      <4> QED
        BY <4>1, <4>2
    <3> QED
      BY <1>4, <2>2, <2>5, <3>1, <3>2, <3>3 DEF Iterates
  <2> QED
    BY <2>4, <2>5
<1>6. it.state \in Reading => it.at \in DOMAIN node
  BY <1>3, <1>4 DEF Reading
<1> QED
  BY <1>0, <1>1, <1>2, <1>4, <1>5, <1>6, OneMoves

\* The end of an iteration.
LEMMA FinishKeeps ==
  ASSUME ListInv, NEW r \in Readers, Finish(r)
  PROVE  ListInv'
<1>0. placeholder \in Nat
  BY DEF ListInv, ReadersType
<1>1. reader' = [reader EXCEPT ![r] = Out] /\ raced' = raced \ {r}
      /\ UNCHANGED <<node, freed, head, placeholder>>
  BY DEF Finish
<1>2. /\ Out \in [at : Nat, from : SUBSET Nat, seen : Seq(Nat), state : Reading \cup {"out", "end"}]
      /\ Out.seen = <<>> /\ Out.state = "out"
  BY DEF Out, Nil
<1>3. Iterates(Out, node, freed, placeholder)
  <2>1. DOMAIN Out.seen = {}
    BY <1>2
  <2> QED
    BY <1>2, <2>1 DEF Iterates, Reading
<1>4. Out.state \notin Reading
  BY <1>2 DEF Reading
<1> QED
  BY <1>0, <1>1, <1>2, <1>3, <1>4, OneMoves

\* The empty list, and no iteration.
LEMMA ListBegins ==
  ASSUME ListInit
  PROVE  ListInv /\ Listed = {}
<1>0. MaxLevel \in Nat \ {0}
  BY ListAssumption
<1>1. Shape(node, head)
  <2>1. node \in Seq(NodeType) /\ head \in [1..MaxLevel -> Nat] /\ DOMAIN node = {}
    BY DEF ListInit, Nil
  <2>2. ASSUME NEW i \in 1..MaxLevel, NEW c \in Of(node, DOMAIN node, i)
        PROVE  c = Nil /\ After(node, head, c, i) = Nil /\ Nil \in Of(node, DOMAIN node, i)
    BY <2>1 DEF ListInit, Of, After
  <2>3. Upward(node, head)
    BY <2>2 DEF Upward
  <2> QED
    BY <2>1, <2>3 DEF Shape
<1>2. Chained(node, head, {})
  BY <1>1, EmptyIsChained DEF ListInit
<1>3. ListCore /\ Listed = {}
  BY <1>1, <1>2, ListedAre, ListedIs DEF ListCore
<1>4. /\ Out \in [at : Nat, from : SUBSET Nat, seen : Seq(Nat), state : Reading \cup {"out", "end"}]
      /\ DOMAIN Out.seen = {} /\ Out.state = "out"
  BY DEF Out, Nil
<1>5. Iterates(Out, node, freed, placeholder)
  BY <1>4 DEF Iterates, Reading
<1> HIDE DEF Out
<1>6. ReadersType
  BY <1>4 DEF ListInit, ReadersType, Reading, Nil
<1> QED
  BY <1>3, <1>5, <1>6 DEF ListInv, ListInit

\* Every step keeps the list linked and the iterations right.
THEOREM ListInvariant == ListSpec => []ListInv
<1>1. ListInit => ListInv
  BY ListBegins
<1>2. ListInv /\ [ListNext]_listVars => ListInv'
  <2>1. SUFFICES ASSUME ListInv, [ListNext]_listVars PROVE ListInv'
    OBVIOUS
  <2>2. CASE (\E key \in Keys : (\E value \in Values : Put(key, value)) \/ Del(key)) \/ Cle
    BY <2>1, <2>2, ListStepKeeps
  <2>3. CASE Elsewhere
    BY <2>1, <2>3, ElsewhereKeeps
  <2>4. ASSUME NEW r \in Readers, Begin(r) \/ Deref(r) \/ Copy(r) \/ Advance(r) \/ Finish(r)
        PROVE  ListInv'
    BY <2>1, <2>4, BeginKeeps, DerefKeeps, CopyKeeps, AdvanceKeeps, FinishKeeps
  <2>5. CASE UNCHANGED listVars
    <3>1. UNCHANGED <<node, freed, head, reader, placeholder, raced>>
      BY <2>5 DEF listVars
    <3>2. ListCore'
      BY <2>1, <3>1, Still DEF ListInv
    <3>3. ReadersType'
      BY <2>1, <3>1, ReadersStay DEF ListInv
    <3> QED
      BY <2>1, <3>1, <3>2, <3>3 DEF ListInv
  <2> QED
    BY <2>1, <2>2, <2>3, <2>4, <2>5 DEF ListNext
<1> QED
  BY <1>1, <1>2, PTL DEF ListSpec

\* An iteration of a skip list (skip_list.h) gives the entries in the order of their time
\* stamps and all that were there and stayed, whatever is put, deleted or cleared while it
\* goes on and whatever other lists do, unless another dereferenced before its copy.
THEOREM IterationsSeeAll == ListSpec => []IterationSeesAll
<1>1. ListInv => IterationSeesAll
  <2>1. SUFFICES ASSUME ListInv, NEW r \in Readers \ raced
                 PROVE  LET seen == reader[r].seen
                        IN /\ \A j, k \in DOMAIN seen :
                                j < k => node[seen[j]].key < node[seen[k]].key
                           /\ reader[r].state = "end" => reader[r].from \ freed \subseteq Nodes(seen)
    BY DEF IterationSeesAll
  <2>2. Iterates(reader[r], node, freed, placeholder)
    BY <2>1 DEF ListInv
  <2> QED
    BY <2>2 DEF Iterates
<1> QED
  BY <1>1, ListInvariant, PTL

-----------------------------------------------------------------------------
(* the map of the list *)

ListedKeys == {node[n].key : n \in Listed}

\* The count is that of the keys.
Counted ==
  /\ ListCore
  /\ IsFiniteSet(ListedKeys) /\ m_bottom_level_node_count = Cardinality(ListedKeys)

\* Each listed key has the value of its node.
MapsListed ==
  /\ DOMAIN Map = ListedKeys /\ Map = [k \in ListedKeys |-> Map[k]]
  /\ \A n \in Listed : node[n].key \in ListedKeys /\ Map[node[n].key] = node[n].value
  /\ Listed \subseteq DOMAIN node

\* It is so in a list that is linked.
LEMMA MapIs == ListCore => MapsListed
<1> SUFFICES ASSUME ListCore PROVE MapsListed
  OBVIOUS
<1>1. Listed \subseteq DOMAIN node /\ \A a, b \in Listed : node[a].key = node[b].key => a = b
  BY DEF ListCore, Chained
<1>2. Map = [k \in ListedKeys |-> node[CHOOSE n \in Listed : node[n].key = k].value]
  BY DEF Map, ListedKeys
<1>3. ASSUME NEW n \in Listed PROVE node[n].key \in ListedKeys /\ Map[node[n].key] = node[n].value
  <2>1. (CHOOSE m \in Listed : node[m].key = node[n].key) = n
    BY <1>1
  <2>2. node[n].key \in ListedKeys
    BY DEF ListedKeys
  <2> QED
    BY <1>2, <2>1, <2>2
<1>4. DOMAIN Map = ListedKeys /\ Map = [k \in ListedKeys |-> Map[k]]
  BY <1>2
<1> QED
  BY <1>1, <1>3, <1>4 DEF MapsListed

\* The same of the next state.
LEMMA MapIsThen == ListCore' => MapsListed'
BY MapIs, PTL

\* The abstract module counts as this one does.
LEMMA SameCount == \A S : Abstract!Cardinality(S) = Cardinality(S)
BY Zenon DEF Abstract!Cardinality, Cardinality, Abstract!IsFiniteSet, IsFiniteSet

\* A map of no keys.
LEMMA NoKeys ==
  ASSUME NEW f, f = [k \in DOMAIN f |-> f[k]], DOMAIN f = {}
  PROVE  f = <<>>
OBVIOUS

\* put is that of a map.
LEMMA PutMaps ==
  ASSUME Counted, NEW key \in Keys, NEW value \in Values, Put(key, value)
  PROVE  Counted' /\ Abstract!Put(key, value)
<1> DEFINE N == Len(node) + 1
<1>0. ListCore
  BY DEF Counted
<1>1. /\ ListCore' /\ Keep(node, node') /\ Listed' = Listed \cup {N}
      /\ node'[N].key = key /\ node'[N].value = value
      /\ \A n \in Listed : node[n].key # key
  BY <1>0, PutStep
<1> HIDE DEF N
<1>2. \A n \in Listed : node'[n].key = node[n].key /\ node'[n].value = node[n].value
  BY <1>0, <1>1, MapIs DEF Keep, MapsListed
<1>3. ListedKeys' = ListedKeys \cup {key} /\ key \notin ListedKeys
  BY <1>1, <1>2 DEF ListedKeys
<1>4. IsFiniteSet(ListedKeys') /\ Cardinality(ListedKeys') = Cardinality(ListedKeys) + 1
  BY <1>3, FS_AddElement DEF Counted
<1>5. m_bottom_level_node_count' = Cardinality(ListedKeys) + 1
  BY DEF Put, Counted
<1>6. DOMAIN Map = ListedKeys /\ DOMAIN Map' = ListedKeys \cup {key}
      /\ Map' = [k \in ListedKeys \cup {key} |-> Map'[k]]
  BY <1>0, <1>1, <1>3, MapIs, MapIsThen DEF MapsListed
<1>7. ASSUME NEW k \in ListedKeys \cup {key} PROVE Map'[k] = IF k = key THEN value ELSE Map[k]
  <2>1. CASE k = key
    BY <1>1, <2>1, MapIsThen DEF MapsListed
  <2>2. CASE k # key
    <3>1. PICK n \in Listed : k = node[n].key
      BY <2>2 DEF ListedKeys
    <3>2. Map[k] = node[n].value
      BY <1>0, <3>1, MapIs DEF MapsListed
    <3>3. Map'[k] = node'[n].value
      BY <1>1, <1>2, <3>1, MapIsThen DEF MapsListed
    <3> QED
      BY <1>2, <2>2, <3>2, <3>3
  <2> QED
    BY <2>1, <2>2
<1>8. Map' = [k \in DOMAIN Map \cup {key} |-> IF k = key THEN value ELSE Map[k]]
  BY <1>6, <1>7
<1>9. Abstract!Put(key, value)
  BY <1>3, <1>5, <1>6, <1>8, SameCount DEF Abstract!Put
<1> QED
  BY <1>1, <1>4, <1>5, <1>9 DEF Counted

\* So is del.
LEMMA DelMaps ==
  ASSUME Counted, NEW key \in Keys, Del(key)
  PROVE  Counted' /\ Abstract!Del(key)
<1>0. ListCore
  BY DEF Counted
<1>1. PICK n \in Listed :
        /\ ListCore' /\ Keep(node, node') /\ node[n].key = key /\ Listed' = Listed \ {n}
  BY <1>0, DelStep
<1>2. \A m \in Listed : node'[m].key = node[m].key /\ node'[m].value = node[m].value
  BY <1>0, <1>1, MapIs DEF Keep, MapsListed
<1>3. \A m \in Listed : node[m].key = key => m = n
  BY <1>0, <1>1 DEF ListCore, Chained
<1>4. ListedKeys' = ListedKeys \ {key} /\ key \in ListedKeys
  <2>1. ListedKeys' = {node[m].key : m \in Listed \ {n}}
    BY <1>1, <1>2 DEF ListedKeys
  <2> QED
    BY <1>1, <1>3, <2>1 DEF ListedKeys
<1>5. IsFiniteSet(ListedKeys') /\ Cardinality(ListedKeys') = Cardinality(ListedKeys) - 1
  BY <1>4, FS_RemoveElement DEF Counted
<1>6. m_bottom_level_node_count' = Cardinality(ListedKeys) - 1
  BY DEF Del, Counted
<1>7. DOMAIN Map = ListedKeys /\ Map' = [k \in ListedKeys \ {key} |-> Map'[k]]
  BY <1>0, <1>1, <1>4, MapIs, MapIsThen DEF MapsListed
<1>8. ASSUME NEW k \in ListedKeys \ {key} PROVE Map'[k] = Map[k]
  <2>1. PICK m \in Listed : k = node[m].key
    BY DEF ListedKeys
  <2>2. m \in Listed'
    BY <1>1, <2>1
  <2>3. Map[k] = node[m].value /\ Map'[k] = node'[m].value
    BY <1>0, <1>1, <1>2, <2>1, <2>2, MapIs, MapIsThen DEF MapsListed
  <2> QED
    BY <1>2, <2>3
<1>9. Map' = [k \in DOMAIN Map \ {key} |-> Map[k]]
  BY <1>7, <1>8
<1>10. Abstract!Del(key)
  BY <1>4, <1>6, <1>7, <1>9, SameCount DEF Abstract!Del
<1> QED
  BY <1>1, <1>5, <1>6, <1>10 DEF Counted

\* And so is cle.
LEMMA CleMaps ==
  ASSUME Counted, Cle
  PROVE  Counted' /\ Abstract!Clear
<1>1. ListCore' /\ Listed' = {}
  BY CleStep DEF Counted
<1>2. ListedKeys' = {}
  BY <1>1 DEF ListedKeys
<1>3. m_bottom_level_node_count' = 0
  BY DEF Cle
<1>4. Map' = <<>>
  BY <1>1, <1>2, MapIsThen, NoKeys DEF MapsListed
<1> QED
  BY <1>1, <1>2, <1>3, <1>4, FS_EmptySet DEF Counted, Abstract!Clear

\* A list that stays has the same map.
LEMMA MapStays ==
  ASSUME Counted, UNCHANGED <<node, head, m_bottom_level_node_count>>
  PROVE  Counted' /\ UNCHANGED <<Map, m_bottom_level_node_count>>
<1>1. ListCore'
  BY Still DEF Counted
<1>2. Listed' = Listed
  BY DEF Listed, Chain
<1>3. ListedKeys' = ListedKeys /\ Map' = Map
  BY <1>2 DEF ListedKeys, Map
<1> QED
  BY <1>1, <1>3 DEF Counted

\* The skip list of a field (skip_list.h) is the ordered map it stands for: put, del and cle
\* do what they do of a map, with any levels for the nodes, and iterations change nothing.
THEOREM SkipListIsAMap == ListSpec => ListIsAMap
<1>1. ListInit => Counted /\ Abstract!Init
  <2>1. SUFFICES ASSUME ListInit PROVE Counted /\ Abstract!Init
    OBVIOUS
  <2>2. ListCore /\ Listed = {} /\ m_bottom_level_node_count = 0
    BY <2>1, ListBegins DEF ListInv, ListInit
  <2>3. ListedKeys = {}
    BY <2>2 DEF ListedKeys
  <2>4. Map = <<>>
    BY <2>2, <2>3, MapIs, NoKeys DEF MapsListed
  <2> QED
    BY <2>2, <2>3, <2>4, FS_EmptySet DEF Counted, Abstract!Init
<1>2. Counted /\ [ListNext]_listVars =>
        Counted' /\ [Abstract!Next]_<<Map, m_bottom_level_node_count>>
  <2>1. SUFFICES ASSUME Counted, [ListNext]_listVars
                 PROVE  Counted' /\ [Abstract!Next]_<<Map, m_bottom_level_node_count>>
    OBVIOUS
  <2>2. ASSUME NEW key \in Keys, NEW value \in Values, Put(key, value)
        PROVE  Counted' /\ [Abstract!Next]_<<Map, m_bottom_level_node_count>>
    BY <2>1, <2>2, PutMaps DEF Abstract!Next
  <2>3. ASSUME NEW key \in Keys, Del(key)
        PROVE  Counted' /\ [Abstract!Next]_<<Map, m_bottom_level_node_count>>
    BY <2>1, <2>3, DelMaps DEF Abstract!Next
  <2>4. CASE Cle
    BY <2>1, <2>4, CleMaps DEF Abstract!Next
  <2>5. CASE \/ Elsewhere \/ UNCHANGED listVars
             \/ \E r \in Readers : Begin(r) \/ Deref(r) \/ Copy(r) \/ Advance(r) \/ Finish(r)
    <3>1. UNCHANGED <<node, head, m_bottom_level_node_count>>
      BY <2>5 DEF Elsewhere, Begin, Deref, Copy, Advance, Finish, listVars
    <3> QED
      BY <2>1, <3>1, MapStays
  <2> QED
    BY <2>1, <2>2, <2>3, <2>4, <2>5 DEF ListNext
<1> QED
  BY <1>1, <1>2, PTL DEF ListSpec, ListIsAMap, Abstract!Spec

-----------------------------------------------------------------------------
(* the evaluator: its inductive invariant *)

\* A table in a file was there, its engine was told to create it, it was made while the
\* databases differed, or the plan still has to tell of it.
IsToCreate(w, db, t) ==
  /\ w.child.type = "create" /\ w.child.what = "table"
  /\ db = m_current_db /\ t = <<w.child.name, w.child.engine>>

Made(w, db, t) ==
  \/ t \in TablesOf(Old, db)
  \/ <<"create_table", t[2], db, t[1]>> \in calls
  \/ <<db, t>> \in w.strayed
  \/ IsToCreate(w, db, t)

\* Of a table in the map its engine was told, as one to load or to create, or the plan
\* still has to tell of it; or it was made while the databases differed, or its database
\* was read for no plan.
IsToLoad(w, db, t) == w.child.type = "use" /\ db = w.child.db /\ t[2] \in w.child.loads

Told(w, db, t) ==
  \/ <<"load_database", t[2], db>> \in calls
  \/ <<"create_table", t[2], db, t[1]>> \in calls
  \/ <<db, t>> \in w.strayed
  \/ db \in w.unnoticed
  \/ IsToCreate(w, db, t)
  \/ IsToLoad(w, db, t)

AllMade(w) == \A db \in DOMAIN w.lines : \A t \in w.lines[db] : Made(w, db, t)
AllTold(w) == \A db \in DOMAIN w.map : \A t \in w.map[db] : Told(w, db, t)

IsFull(w) == Cardinality(DOMAIN w.io) >= StreamLimit

\* What the evaluator works on: unless a use was replaced its database is the one of the
\* plan, once the plan's use has been executed.  After a create it goes no further.
EvalInv(w) ==
  /\ DOMAIN w = DOMAIN World
  /\ w.lost \in BOOLEAN
  /\ ~w.lost /\ w.ended \in {"no", "error"} =>
       w.curr = IF w.child.type = "use" THEN w.child.db ELSE m_current_db
  /\ AllMade(w) /\ AllTold(w)
  /\ w.child.type = "create" =>
       w.ended # "no" /\ (w.child.what = "table" => w.child.engine \in Engines)
  /\ w.ended \in {"no", "error", "crashed", "hung"}
  /\ w.ended = "hung" => IsFull(w)

\* Where a program stands.
Standing == [lines |-> lines, map |-> m_tab_eng_map, io |-> m_io_file, curr |-> m_curr_db_name,
             child |-> child, strayed |-> strayed, lost |-> lost, unnoticed |-> unnoticed,
             values |-> <<>>, ended |-> IF pc = "execute" THEN "error" ELSE "no"]

ReplInv ==
  /\ pc = "eval" => IsProgram(program)
  /\ pc \in {"prompt", "eval"} => child = None
  /\ pc \in {"prompt", "eval", "execute"} => EvalInv(Standing)

-----------------------------------------------------------------------------
(* the steps of the evaluator *)

LEMMA WorldParts ==
  DOMAIN World = {"lines", "map", "io", "curr", "child", "strayed", "lost", "unnoticed", "values", "ended"}
BY DEF World

\* What goes on from w to r, unless it is the child, is kept.
Follows(r, w) ==
  /\ DOMAIN r = DOMAIN w
  /\ r.lines = w.lines /\ r.curr = w.curr /\ r.child = w.child
  /\ r.strayed = w.strayed /\ r.lost = w.lost /\ r.unnoticed = w.unnoticed

\* What has been told stays told, if the plan's child stays or its database is counted
\* among those nobody was told of.
LEMMA StaysTold ==
  ASSUME NEW w, NEW r, w.strayed \subseteq r.strayed, w.unnoticed \subseteq r.unnoticed,
         \/ r.child = w.child
         \/ /\ w.child.type # "create"
            /\ w.child.type = "use" /\ w.child.loads # {} => w.child.db \in r.unnoticed
  PROVE  \A db, t : (Made(w, db, t) => Made(r, db, t)) /\ (Told(w, db, t) => Told(r, db, t))
<1>1. CASE r.child = w.child
  BY <1>1 DEF Made, Told, IsToCreate, IsToLoad
<1>2. CASE /\ w.child.type # "create"
           /\ w.child.type = "use" /\ w.child.loads # {} => w.child.db \in r.unnoticed
  BY <1>2 DEF Made, Told, IsToCreate, IsToLoad
<1> QED
  BY <1>1, <1>2

\* What only gives, ends or fails changes neither plan nor tables.
LEMMA SameButValues ==
  ASSUME NEW w, EvalInv(w), NEW r, Follows(r, w), r.map = w.map,
         w.child.type = "create" => r.ended # "no",
         r.ended \in {"no", "error", "crashed", "hung"}, r.ended = "hung" => IsFull(r),
         r.ended \in {"no", "error"} => w.ended \in {"no", "error"}
  PROVE  EvalInv(r)
<1>1. \A db, t : (Made(w, db, t) => Made(r, db, t)) /\ (Told(w, db, t) => Told(r, db, t))
  BY StaysTold DEF Follows
<1>2. AllMade(r) /\ AllTold(r)
  BY <1>1 DEF EvalInv, AllMade, AllTold, Follows
<1> QED
  BY <1>2 DEF EvalInv, Follows

LEMMA GivesKeeps ==
  ASSUME NEW w, EvalInv(w), w.ended = "no", NEW type
  PROVE  EvalInv(Gives(w, type)) /\ Gives(w, type).ended = "no"
<1>1. Follows(Gives(w, type), w) /\ Gives(w, type).map = w.map /\ Gives(w, type).ended = "no"
  BY WorldParts DEF Gives, EvalInv, Follows
<1>2. w.child.type # "create"
  BY DEF EvalInv
<1> QED
  BY <1>1, <1>2, SameButValues

LEMMA EndsKeep ==
  ASSUME NEW w, EvalInv(w), w.ended = "no", NEW how,
         how \in {"error", "crashed"} \/ (how = "hung" /\ IsFull(w))
  PROVE  EvalInv([w EXCEPT !.ended = how])
<1> DEFINE r == [w EXCEPT !.ended = how]
<1>1. Follows(r, w) /\ r.map = w.map /\ r.io = w.io /\ r.ended = how
  BY WorldParts DEF EvalInv, Follows
<1> HIDE DEF r
<1>2. r.ended = "hung" => IsFull(r)
  BY <1>1 DEF IsFull
<1>3. EvalInv(r)
  BY <1>1, <1>2, SameButValues
<1> QED
  BY <1>3 DEF r

LEMMA NullKeeps ==
  ASSUME NEW w, EvalInv(w), w.ended = "no", NEW visited
  PROVE  EvalInv(GivesNull(visited, w))
BY EndsKeep DEF GivesNull, Crash

\* What replacing the child does.
LEMMA ChildIs ==
  ASSUME NEW w, DOMAIN w = DOMAIN World, NEW new
  PROVE  /\ DOMAIN SetChild(w, new) = DOMAIN w
         /\ SetChild(w, new).child = new
         /\ SetChild(w, new).lost = (w.lost \/ w.child.type = "use")
         /\ SetChild(w, new).lines = w.lines /\ SetChild(w, new).map = w.map
         /\ SetChild(w, new).curr = w.curr /\ SetChild(w, new).strayed = w.strayed
         /\ SetChild(w, new).ended = w.ended
         /\ w.unnoticed \subseteq SetChild(w, new).unnoticed
         /\ w.child.type = "use" /\ w.child.loads # {} => w.child.db \in SetChild(w, new).unnoticed
<1> DEFINE more == IF w.child.type = "use" /\ w.child.loads # {} THEN w.unnoticed \cup {w.child.db}
                   ELSE w.unnoticed
           either == w.lost \/ w.child.type = "use"
<1>1. SetChild(w, new) = [w EXCEPT !.child = new, !.lost = either, !.unnoticed = more]
  BY WorldParts DEF SetChild
<1>2. w.unnoticed \subseteq more /\ (w.child.type = "use" /\ w.child.loads # {} => w.child.db \in more)
  OBVIOUS
<1> HIDE DEF more
<1>3. either = (w.lost \/ w.child.type = "use")
  OBVIOUS
<1> HIDE DEF either
<1>4. /\ DOMAIN SetChild(w, new) = DOMAIN w
      /\ SetChild(w, new).child = new /\ SetChild(w, new).lost = either
      /\ SetChild(w, new).lines = w.lines /\ SetChild(w, new).map = w.map
      /\ SetChild(w, new).curr = w.curr /\ SetChild(w, new).strayed = w.strayed
      /\ SetChild(w, new).ended = w.ended /\ SetChild(w, new).unnoticed = more
  BY <1>1, WorldParts
<1> QED
  BY <1>2, <1>3, <1>4

\* A child that is not a create changes nothing else, if it fits the database in use.
LEMMA ChildKeeps ==
  ASSUME NEW w, EvalInv(w), w.ended = "no", NEW new, new.type # "create",
         new.type = "use" => w.curr = new.db
  PROVE  EvalInv(SetChild(w, new)) /\ SetChild(w, new).ended = "no"
<1> DEFINE r == SetChild(w, new)
<1>1. /\ DOMAIN r = DOMAIN w /\ r.child = new /\ r.lost = (w.lost \/ w.child.type = "use")
      /\ r.lines = w.lines /\ r.map = w.map /\ r.curr = w.curr /\ r.strayed = w.strayed /\ r.ended = "no"
      /\ w.unnoticed \subseteq r.unnoticed
      /\ w.child.type = "use" /\ w.child.loads # {} => w.child.db \in r.unnoticed
  BY ChildIs DEF EvalInv
<1> HIDE DEF r
<1>2. w.child.type # "create"
  BY DEF EvalInv
<1>3. \A db, t : (Made(w, db, t) => Made(r, db, t)) /\ (Told(w, db, t) => Told(r, db, t))
  BY <1>1, <1>2, StaysTold
<1>4. AllMade(r) /\ AllTold(r)
  BY <1>1, <1>3 DEF EvalInv, AllMade, AllTold
<1>5. r.lost \in BOOLEAN
  BY <1>1
<1>6. ~r.lost => r.curr = IF r.child.type = "use" THEN r.child.db ELSE m_current_db
  BY <1>1 DEF EvalInv
<1>7. EvalInv(r)
  BY <1>1, <1>4, <1>5, <1>6 DEF EvalInv
<1> QED
  BY <1>1, <1>7 DEF r

\* A stream is got, or its thread does not come back.
LEMMA StreamIs ==
  ASSUME NEW w, DOMAIN w = DOMAIN World, w.ended = "no", NEW db, NEW mode
  PROVE  /\ Follows(GetStream(w, db, mode), w)
         /\ GetStream(w, db, mode).map = w.map
         /\ GetStream(w, db, mode).ended \in {"no", "crashed", "hung"}
         /\ GetStream(w, db, mode).ended = "hung" => IsFull(GetStream(w, db, mode))
         /\ db \in DOMAIN w.lines => GetStream(w, db, mode).ended # "crashed"
<1> DEFINE r == GetStream(w, db, mode)
           more == Changed(w.io, db, mode)
<1>1. r = w \/ (r = Hang(w) /\ IsFull(w)) \/ r = [w EXCEPT !.io = more]
      \/ (r = Crash(w) /\ db \notin DOMAIN w.lines)
  BY WorldParts DEF GetStream, IsFull
<1> HIDE DEF r, more
<1>2. CASE r = w
  BY <1>2 DEF Follows, r
<1>3. CASE r = Hang(w) /\ IsFull(w)
  <2>1. Follows(r, w) /\ r.map = w.map /\ r.io = w.io /\ r.ended = "hung"
    BY <1>3, WorldParts DEF Hang, Follows
  <2> QED
    BY <1>3, <2>1 DEF IsFull, r
<1>4. CASE r = [w EXCEPT !.io = more]
  <2>1. Follows(r, w) /\ r.map = w.map /\ r.ended = "no"
    BY <1>4, WorldParts DEF Follows
  <2> QED
    BY <2>1 DEF r
<1>5. CASE r = Crash(w) /\ db \notin DOMAIN w.lines
  <2>1. Follows(r, w) /\ r.map = w.map /\ r.ended = "crashed"
    BY <1>5, WorldParts DEF Crash, Follows
  <2> QED
    BY <1>5, <2>1 DEF r
<1> QED
  BY <1>1, <1>2, <1>3, <1>4, <1>5

\* The tables of a database are in the map, or are read from its file.
LEMMA LoadIs ==
  ASSUME NEW w, DOMAIN w = DOMAIN World, w.ended = "no", NEW db
  PROVE  /\ Follows(LoadMetadata(w, db), w)
         /\ LoadMetadata(w, db).ended \in {"no", "crashed", "hung"}
         /\ LoadMetadata(w, db).ended = "hung" => IsFull(LoadMetadata(w, db))
         /\ db \in DOMAIN w.lines => LoadMetadata(w, db).ended # "crashed"
         /\ \/ LoadMetadata(w, db).map = w.map
            \/ /\ ~Known(w, db) /\ LoadMetadata(w, db).ended = "no"
               /\ LoadMetadata(w, db).map = Changed(w.map, db, w.lines[db])
<1> DEFINE r == GetStream(w, db, "")
           more == Changed(w.map, db, w.lines[db])
<1>1. /\ Follows(r, w) /\ r.map = w.map /\ r.ended \in {"no", "crashed", "hung"}
      /\ r.ended = "hung" => IsFull(r)
      /\ db \in DOMAIN w.lines => r.ended # "crashed"
  BY StreamIs
<1> HIDE DEF r
<1>2. CASE Known(w, db)
  <2>1. LoadMetadata(w, db) = w
    BY <1>2 DEF LoadMetadata
  <2> QED
    BY <2>1 DEF Follows
<1>3. CASE ~Known(w, db) /\ r.ended # "no"
  <2>1. LoadMetadata(w, db) = r
    BY <1>3 DEF LoadMetadata, r
  <2> QED
    BY <1>1, <2>1
<1>4. CASE ~Known(w, db) /\ r.ended = "no"
  <2>1. DOMAIN r = DOMAIN World
    BY <1>1 DEF Follows
  <2>2. LoadMetadata(w, db) = [r EXCEPT !.map = Changed(r.map, db, w.lines[db])]
    BY <1>4, <2>1, WorldParts DEF LoadMetadata, r
  <2>3. LoadMetadata(w, db) = [r EXCEPT !.map = more]
    BY <1>1, <2>2
  <2> HIDE DEF more
  <2>4. /\ Follows(LoadMetadata(w, db), w) /\ LoadMetadata(w, db).map = more
        /\ LoadMetadata(w, db).ended = "no"
    BY <1>1, <1>4, <2>1, <2>3, WorldParts DEF Follows
  <2> QED
    BY <1>4, <2>4 DEF more
<1> QED
  BY <1>1, <1>2, <1>3, <1>4

\* What is read for nobody is counted as such.
LEMMA LoadKeeps ==
  ASSUME NEW w, EvalInv(w), w.ended = "no", NEW db
  PROVE  EvalInv(LoadForNobody(w, db)) /\ LoadForNobody(w, db).ended \in {"no", "crashed", "hung"}
<1> DEFINE l == LoadMetadata(w, db)
           r == LoadForNobody(w, db)
           more == w.unnoticed \cup {db}
<1>1. /\ Follows(l, w) /\ l.ended \in {"no", "crashed", "hung"} /\ (l.ended = "hung" => IsFull(l))
      /\ \/ l.map = w.map
         \/ ~Known(w, db) /\ l.ended = "no" /\ l.map = Changed(w.map, db, w.lines[db])
  BY LoadIs DEF EvalInv
<1>2. w.child.type # "create"
  BY DEF EvalInv
<1>3. CASE l.map = w.map
  <2>1. EvalInv(l)
    BY <1>1, <1>2, <1>3, SameButValues
  <2>2. Known(l, db) = Known(w, db)
    BY <1>3 DEF Known
  <2>3. r = l
    BY <2>2 DEF LoadForNobody
  <2> QED
    BY <1>1, <2>1, <2>3
<1>4. CASE ~Known(w, db) /\ l.ended = "no" /\ l.map = Changed(w.map, db, w.lines[db])
  <2>1. /\ DOMAIN r = DOMAIN w /\ r.lines = w.lines /\ r.curr = w.curr /\ r.child = w.child
        /\ r.strayed = w.strayed /\ r.lost = w.lost /\ r.ended = "no" /\ r.map = l.map
        /\ w.unnoticed \subseteq r.unnoticed /\ (Known(l, db) => db \in r.unnoticed)
    <3>1. CASE Known(l, db)
      <4>1. r = [l EXCEPT !.unnoticed = more]
        BY <1>1, <1>4, <3>1, WorldParts DEF LoadForNobody, Follows, EvalInv
      <4>2. w.unnoticed \subseteq more /\ db \in more
        OBVIOUS
      <4>3. DOMAIN l = DOMAIN World
        BY <1>1 DEF Follows, EvalInv
      <4> HIDE DEF more, r, l
      <4> QED
        BY <1>1, <1>4, <4>1, <4>2, <4>3, WorldParts DEF Follows
    <3>2. CASE ~Known(l, db)
      <4>1. r = l
        BY <3>2 DEF LoadForNobody
      <4> QED
        BY <1>1, <1>4, <3>2, <4>1 DEF Follows
    <3> QED
      BY <3>1, <3>2
  <2>2. ~Known(l, db) => w.lines[db] = {}
    BY <1>4 DEF Known, TablesOf, Changed
  <2> HIDE DEF r, l
  <2>3. \A d, t : (Made(w, d, t) => Made(r, d, t)) /\ (Told(w, d, t) => Told(r, d, t))
    BY <2>1, StaysTold
  <2>4. AllMade(r)
    BY <2>1, <2>3 DEF EvalInv, AllMade
  <2>5. ASSUME NEW d \in DOMAIN r.map, NEW t \in r.map[d] PROVE Told(r, d, t)
    <3>1. CASE d = db
      <4>1. t \in w.lines[db]
        BY <1>4, <2>1, <2>5, <3>1 DEF Changed
      <4>2. db \in r.unnoticed
        BY <2>1, <2>2, <4>1
      <4> QED
        BY <3>1, <4>2 DEF Told
    <3>2. CASE d # db
      <4>1. d \in DOMAIN w.map /\ t \in w.map[d]
        BY <1>4, <2>1, <2>5, <3>2 DEF Changed
      <4> QED
        BY <2>3, <4>1 DEF EvalInv, AllTold
    <3> QED
      BY <3>1, <3>2
  <2>6. AllTold(r)
    BY <2>5 DEF AllTold
  <2>7. EvalInv(r)
    BY <1>2, <2>1, <2>4, <2>6 DEF EvalInv
  <2> QED
    BY <2>1, <2>7 DEF r
<1> QED
  BY <1>1, <1>3, <1>4

\* The plan's new child tells of what was read.
LEMMA UseKeeps ==
  ASSUME NEW w, EvalInv(w), w.ended = "no", NEW visited
  PROVE  EvalInv(EvalUse(visited, w))
<1> DEFINE db == visited.db
           loads == IF Known(w, db) THEN {} ELSE {t[2] : t \in w.lines[db]}
           new == [type |-> "use", db |-> db, loads |-> loads]
           u == [w EXCEPT !.curr = db]
           r == LoadMetadata(u, db)
           after == SetChild(r, new)
<1>0. w.child.type # "create"
  BY DEF EvalInv
<1>1. /\ DOMAIN u = DOMAIN World /\ u.ended = "no" /\ u.lines = w.lines /\ u.map = w.map
      /\ u.curr = db /\ u.child = w.child /\ u.strayed = w.strayed /\ u.lost = w.lost
      /\ u.unnoticed = w.unnoticed
  BY WorldParts DEF EvalInv
<1>2. Known(u, db) = Known(w, db)
  BY <1>1 DEF Known
<1> HIDE DEF u
<1>3. /\ DOMAIN r = DOMAIN w /\ r.lines = w.lines /\ r.curr = db /\ r.child = w.child
      /\ r.strayed = w.strayed /\ r.lost = w.lost /\ r.unnoticed = w.unnoticed
      /\ r.ended \in {"no", "crashed", "hung"} /\ (r.ended = "hung" => IsFull(r))
      /\ \/ r.map = w.map
         \/ ~Known(w, db) /\ r.ended = "no" /\ r.map = Changed(w.map, db, w.lines[db])
  <2>1. /\ Follows(r, u) /\ r.ended \in {"no", "crashed", "hung"} /\ (r.ended = "hung" => IsFull(r))
        /\ \/ r.map = u.map
           \/ ~Known(u, db) /\ r.ended = "no" /\ r.map = Changed(u.map, db, u.lines[db])
    BY <1>1, LoadIs
  <2> QED
    BY <1>1, <1>2, <2>1 DEF Follows, EvalInv
<1>4. new.type = "use" /\ new.db = db /\ new.loads = loads
  OBVIOUS
<1>5. EvalUse(visited, w) \in
        {GivesNull(visited, SetChild(w, None))}
          \cup (IF r.ended # "no" THEN {r} ELSE {Gives(after, "use")})
  BY DEF EvalUse, u
<1>6. EvalInv(GivesNull(visited, SetChild(w, None)))
  <2>1. EvalInv(SetChild(w, None)) /\ SetChild(w, None).ended = "no"
    BY ChildKeeps DEF None
  <2> QED
    BY <2>1, NullKeeps
<1> HIDE DEF r, new
<1>7. CASE r.ended # "no"
  <2>1. \A d, t : (Made(w, d, t) => Made(r, d, t)) /\ (Told(w, d, t) => Told(r, d, t))
    BY <1>3, StaysTold
  <2>2. AllMade(r) /\ AllTold(r)
    BY <1>3, <1>7, <2>1 DEF EvalInv, AllMade, AllTold
  <2>3. EvalInv(r)
    BY <1>0, <1>3, <1>7, <2>2 DEF EvalInv
  <2> QED
    BY <1>5, <1>6, <1>7, <2>3
<1>8. CASE r.ended = "no"
  <2>1. /\ DOMAIN after = DOMAIN w /\ after.lines = w.lines /\ after.map = r.map /\ after.curr = db
        /\ after.child = new /\ after.strayed = w.strayed /\ after.lost = (w.lost \/ w.child.type = "use")
        /\ after.ended = "no" /\ w.unnoticed \subseteq after.unnoticed
        /\ w.child.type = "use" /\ w.child.loads # {} => w.child.db \in after.unnoticed
    <3>1. DOMAIN r = DOMAIN World
      BY <1>3 DEF EvalInv
    <3> QED
      BY <1>3, <1>8, <3>1, ChildIs
  <2> HIDE DEF after
  <2>2. \A d, t : (Made(w, d, t) => Made(after, d, t)) /\ (Told(w, d, t) => Told(after, d, t))
    BY <1>0, <2>1, StaysTold
  <2>3. AllMade(after)
    BY <2>1, <2>2 DEF EvalInv, AllMade
  <2>4. ASSUME NEW d \in DOMAIN r.map, NEW t \in r.map[d] PROVE Told(after, d, t)
    <3>1. CASE d \in DOMAIN w.map /\ t \in w.map[d]
      BY <2>2, <3>1 DEF EvalInv, AllTold
    <3>2. CASE ~(d \in DOMAIN w.map /\ t \in w.map[d])
      <4>1. d = db /\ t \in w.lines[db] /\ ~Known(w, db)
        BY <1>3, <2>4, <3>2 DEF Changed
      <4>2. t[2] \in loads
        BY <4>1
      <4> QED
        BY <1>4, <2>1, <4>1, <4>2 DEF Told, IsToLoad
    <3> QED
      BY <3>1, <3>2
  <2>5. AllTold(after)
    BY <2>1, <2>4 DEF AllTold
  <2>6. EvalInv(after)
    BY <1>4, <2>1, <2>3, <2>5 DEF EvalInv
  <2>7. EvalInv(Gives(after, "use"))
    BY <2>1, <2>6, GivesKeeps
  <2> QED
    BY <1>5, <1>6, <1>8, <2>7
<1> QED
  BY <1>7, <1>8

LEMMA ShowKeeps ==
  ASSUME NEW w, EvalInv(w), w.ended = "no", NEW visited
  PROVE  EvalInv(EvalShow(visited, w))
<1>1. CASE visited.what # "option"
  <2> DEFINE new == [type |-> "show", what |-> visited.what]
  <2>1. new.type = "show"
    OBVIOUS
  <2>2. EvalShow(visited, w) = Gives(SetChild(w, new), "show")
    BY <1>1 DEF EvalShow
  <2> HIDE DEF new
  <2>3. EvalInv(SetChild(w, new)) /\ SetChild(w, new).ended = "no"
    BY <2>1, ChildKeeps
  <2> QED
    BY <2>2, <2>3, GivesKeeps
<1>2. CASE visited.what = "option"
  <2> DEFINE r == IF visited.what = "option" /\ visited.db # NoDatabase
                  THEN LoadForNobody(w, visited.db) ELSE w
  <2>1. EvalInv(r) /\ r.ended \in {"no", "crashed", "hung"}
    BY LoadKeeps
  <2>2. EvalShow(visited, w) = IF r.ended # "no" THEN r ELSE GivesNull(visited, SetChild(r, None))
    BY <1>2 DEF EvalShow
  <2> HIDE DEF r
  <2>3. r.ended = "no" => EvalInv(SetChild(r, None)) /\ SetChild(r, None).ended = "no"
    BY <2>1, ChildKeeps DEF None
  <2> QED
    BY <2>1, <2>2, <2>3, NullKeeps
<1> QED
  BY <1>1, <1>2

\* A table made is in the plan if it is for the plan's database, and has strayed if not.
LEMMA MadeKeeps ==
  ASSUME NEW w, EvalInv(w), w.ended = "no", NEW visited, IsNode(visited), visited.type = "create",
         NEW new, new.type = "create", new.what = visited.what, new.name = visited.name,
         new.engine = visited.engine
  PROVE  EvalInv(Error(SetChild(Created(visited, w), new)))
<1> DEFINE made == Created(visited, w)
           after == Error(SetChild(made, new))
           t == <<visited.name, visited.engine>>
<1>0. w.child.type # "create"
  BY DEF EvalInv
<1>1. visited.what \in {"database", "table"} /\ (visited.what = "table" => visited.engine \in Engines)
  BY DEF IsNode
<1>2. /\ DOMAIN made = DOMAIN World /\ made.curr = w.curr /\ made.child = w.child
      /\ made.lost = w.lost /\ made.unnoticed = w.unnoticed
  BY WorldParts DEF Created, EvalInv
<1>3. ASSUME w.strayed \subseteq made.strayed
      PROVE  /\ DOMAIN after = DOMAIN w /\ after.lines = made.lines /\ after.map = made.map
             /\ after.curr = w.curr /\ after.child = new /\ after.strayed = made.strayed
             /\ after.lost = (w.lost \/ w.child.type = "use") /\ after.ended = "error"
             /\ \A d, u : (Made(w, d, u) => Made(after, d, u)) /\ (Told(w, d, u) => Told(after, d, u))
  <2> HIDE DEF made
  <2> DEFINE set == SetChild(made, new)
  <2>1. /\ DOMAIN set = DOMAIN World /\ set.lines = made.lines /\ set.map = made.map /\ set.curr = w.curr
        /\ set.child = new /\ set.strayed = made.strayed /\ set.lost = (w.lost \/ w.child.type = "use")
        /\ w.unnoticed \subseteq set.unnoticed
        /\ w.child.type = "use" /\ w.child.loads # {} => w.child.db \in set.unnoticed
    BY <1>2, ChildIs
  <2> HIDE DEF set
  <2>2. after = [set EXCEPT !.ended = "error"]
    BY DEF Error, set
  <2>3. /\ DOMAIN after = DOMAIN w /\ after.lines = set.lines /\ after.map = set.map
        /\ after.curr = set.curr /\ after.child = set.child /\ after.strayed = set.strayed
        /\ after.lost = set.lost /\ after.ended = "error" /\ after.unnoticed = set.unnoticed
    BY <2>1, <2>2, WorldParts DEF EvalInv
  <2> HIDE DEF after
  <2>4. \A d, u : (Made(w, d, u) => Made(after, d, u)) /\ (Told(w, d, u) => Told(after, d, u))
    BY <1>0, <1>3, <2>1, <2>3, StaysTold
  <2> QED
    BY <2>1, <2>3, <2>4
<1>4. CASE visited.what = "database"
  <2>1. /\ made.lines = w.lines \/ made.lines = Changed(w.lines, visited.name, {})
        /\ made.map = w.map /\ made.strayed = w.strayed
    BY <1>4, WorldParts DEF Created, EvalInv
  <2>2. /\ DOMAIN after = DOMAIN w /\ after.lines = made.lines /\ after.map = w.map
        /\ after.curr = w.curr /\ after.child = new /\ after.strayed = w.strayed
        /\ after.lost = (w.lost \/ w.child.type = "use") /\ after.ended = "error"
        /\ \A d, u : (Made(w, d, u) => Made(after, d, u)) /\ (Told(w, d, u) => Told(after, d, u))
    BY <1>3, <2>1
  <2> HIDE DEF made, after
  <2>3. AllMade(after)
    BY <2>1, <2>2 DEF EvalInv, AllMade, Changed
  <2>4. AllTold(after)
    BY <2>2 DEF EvalInv, AllTold
  <2>5. EvalInv(after)
    BY <1>1, <1>4, <2>2, <2>3, <2>4 DEF EvalInv
  <2> QED
    BY <2>5 DEF after, made
<1>5. CASE visited.what = "table"
  <2>1. /\ made.lines = Changed(w.lines, w.curr, TablesOf(w.lines, w.curr) \cup {t})
        /\ made.map = Changed(w.map, w.curr, TablesOf(w.map, w.curr) \cup {t})
        /\ made.strayed = IF w.curr = m_current_db THEN w.strayed ELSE w.strayed \cup {<<w.curr, t>>}
    BY <1>5, WorldParts DEF Created, EvalInv
  <2>2. t = <<new.name, new.engine>>
    OBVIOUS
  <2> HIDE DEF made, t
  <2>3. w.strayed \subseteq made.strayed
    BY <2>1
  <2>4. /\ DOMAIN after = DOMAIN w /\ after.lines = made.lines /\ after.map = made.map
        /\ after.curr = w.curr /\ after.child = new /\ after.strayed = made.strayed
        /\ after.lost = (w.lost \/ w.child.type = "use") /\ after.ended = "error"
        /\ \A d, u : (Made(w, d, u) => Made(after, d, u)) /\ (Told(w, d, u) => Told(after, d, u))
    BY <1>3, <2>3
  <2> HIDE DEF after
  <2>5. Made(after, w.curr, t) /\ Told(after, w.curr, t)
    BY <1>5, <2>1, <2>2, <2>4 DEF Made, Told, IsToCreate
  <2>6. AllMade(after)
    BY <2>1, <2>4, <2>5 DEF EvalInv, AllMade, Changed, TablesOf
  <2>7. AllTold(after)
    BY <2>1, <2>4, <2>5 DEF EvalInv, AllTold, Changed, TablesOf
  <2>8. ~after.lost => after.curr = IF after.child.type = "use" THEN after.child.db ELSE m_current_db
    BY <2>4 DEF EvalInv
  <2>9. EvalInv(after)
    BY <1>1, <1>5, <2>4, <2>6, <2>7, <2>8 DEF EvalInv
  <2> QED
    BY <2>9 DEF after, made
<1> QED
  BY <1>1, <1>4, <1>5

LEMMA CreateKeeps ==
  ASSUME NEW w, EvalInv(w), w.ended = "no", NEW visited, IsNode(visited), visited.type = "create"
  PROVE  EvalInv(EvalCreate(visited, w))
<1> DEFINE new == [type |-> "create", what |-> visited.what, name |-> visited.name,
                   engine |-> visited.engine]
           r == IF visited.what = "table" THEN GetStream(w, w.curr, "append") ELSE w
           after == Error(SetChild(Created(visited, r), new))
<1>1. EvalCreate(visited, w) \in {Crash(w)} \cup (IF r.ended # "no" THEN {r} ELSE {after})
  BY DEF EvalCreate
<1>2. EvalInv(Crash(w))
  BY EndsKeep DEF Crash
<1>3. EvalInv(r)
  <2>1. /\ Follows(r, w) /\ r.map = w.map /\ r.ended \in {"no", "crashed", "hung"}
        /\ r.ended = "hung" => IsFull(r)
    BY StreamIs DEF EvalInv, Follows
  <2>2. w.child.type # "create"
    BY DEF EvalInv
  <2> HIDE DEF r
  <2> QED
    BY <2>1, <2>2, SameButValues
<1>4. new.type = "create" /\ new.what = visited.what /\ new.name = visited.name /\ new.engine = visited.engine
  OBVIOUS
<1> HIDE DEF r, new
<1>5. r.ended = "no" => EvalInv(after)
  BY <1>3, <1>4, MadeKeeps
<1> QED
  BY <1>1, <1>2, <1>3, <1>5

LEMMA SelectKeeps ==
  ASSUME NEW w, EvalInv(w), w.ended = "no", NEW visited
  PROVE  EvalInv(EvalSelect(visited, w))
<1> DEFINE r == IF visited.db = NoDatabase THEN w ELSE LoadForNobody(w, visited.db)
           Plan(type) == Gives(SetChild(r, [type |-> type]), "plan")
<1>1. EvalInv(r) /\ r.ended \in {"no", "crashed", "hung"}
  BY LoadKeeps
<1>2. EvalSelect(visited, w) \in
        {Crash(w)} \cup (IF r.ended # "no" THEN {r} ELSE {GivesNull(visited, r), Plan("query"), Plan("scan")})
  BY DEF EvalSelect
<1> HIDE DEF r
<1>3. EvalInv(Crash(w)) /\ (r.ended = "no" => EvalInv(GivesNull(visited, r)))
  BY <1>1, EndsKeep, NullKeeps DEF Crash
<1>4. ASSUME NEW type \in {"query", "scan"}, r.ended = "no" PROVE EvalInv(Plan(type))
  <2>1. EvalInv(SetChild(r, [type |-> type])) /\ SetChild(r, [type |-> type]).ended = "no"
    BY <1>1, <1>4, ChildKeeps
  <2> QED
    BY <2>1, GivesKeeps
<1> QED
  BY <1>1, <1>2, <1>3, <1>4

LEMMA PoppedKeeps ==
  ASSUME NEW w, EvalInv(w), w.ended = "no", NEW n
  PROVE  EvalInv(Popped(w, n)) /\ Popped(w, n).ended = "no"
<1> DEFINE r == Popped(w, n)
<1>1. Follows(r, w) /\ r.map = w.map /\ r.ended = "no"
  BY WorldParts DEF Popped, EvalInv, Follows
<1>2. w.child.type # "create"
  BY DEF EvalInv
<1> HIDE DEF r
<1>3. EvalInv(r)
  BY <1>1, <1>2, SameButValues
<1> QED
  BY <1>1, <1>3 DEF r

\* Every node keeps the invariant.
LEMMA EvalKeeps ==
  ASSUME NEW w, EvalInv(w), w.ended = "no", NEW visited, IsNode(visited)
  PROVE  EvalInv(Eval(visited, w))
<1> DEFINE type == visited.type
           Plan(r, new) == Gives(SetChild(r, [type |-> new]), "plan")
<1>1. EvalInv(Crash(w)) /\ EvalInv(Error(w))
  BY EndsKeep DEF Crash, Error
<1>2. ASSUME NEW r, EvalInv(r), r.ended = "no", NEW new \in {"system", "insert"} PROVE EvalInv(Plan(r, new))
  <2>1. EvalInv(SetChild(r, [type |-> new])) /\ SetChild(r, [type |-> new]).ended = "no"
    BY <1>2, ChildKeeps
  <2> QED
    BY <2>1, GivesKeeps
<1>3. EvalInv(EvalInfix(visited, w))
  BY <1>1, PoppedKeeps, GivesKeeps DEF EvalInfix
<1>4. EvalInv(EvalPrefix(w))
  BY <1>1 DEF EvalPrefix
<1>5. EvalInv(EvalSystem(visited, w))
  <2>1. EvalInv(IF visited.where = "infix" THEN Popped(w, 2) ELSE w)
        /\ (IF visited.where = "infix" THEN Popped(w, 2) ELSE w).ended = "no"
    BY PoppedKeeps
  <2> QED
    BY <1>1, <1>2, <2>1 DEF EvalSystem
<1>6. EvalInv(EvalInsert(visited, w))
  BY <1>1, <1>2 DEF EvalInsert
<1>7. EvalInv(Gives(w, visited.type))
  BY GivesKeeps
<1>8. EvalInv(EvalShow(visited, w)) /\ EvalInv(EvalUse(visited, w)) /\ EvalInv(EvalSelect(visited, w))
  BY ShowKeeps, UseKeeps, SelectKeeps
<1>9. visited.type = "create" => EvalInv(EvalCreate(visited, w))
  BY CreateKeeps
<1> QED
  BY <1>1, <1>3, <1>4, <1>5, <1>6, <1>7, <1>8, <1>9 DEF Eval

-----------------------------------------------------------------------------
(* programs *)

\* What is worked on behind node k, from what it was behind the one before.
EvalAt(nodes, w, after, k) ==
  IF k = 0 THEN w
  ELSE IF after[k - 1].ended = "no" THEN Eval(nodes[k], after[k - 1]) ELSE after[k - 1]

\* The recursion over the nodes has a solution.
LEMMA ProgramExists ==
  ASSUME NEW w, NEW nodes, Len(nodes) \in Nat
  PROVE  \E f : f = [k \in 0..Len(nodes) |-> EvalAt(nodes, w, f, k)]
<1> DEFINE Sol(f, m) == f = [k \in 0..m |-> EvalAt(nodes, w, f, k)]
           S == {m \in Nat : \E f : Sol(f, m)}
<1>1. 0 \in S
  <2> DEFINE f == [k \in 0..0 |-> w]
  <2>1. f = [k \in 0..0 |-> EvalAt(nodes, w, f, k)]
    BY DEF EvalAt
  <2>2. Sol(f, 0)
    BY <2>1
  <2> QED
    BY <2>2
<1>2. ASSUME NEW m \in Nat, m \in S PROVE m + 1 \in S
  <2>1. PICK f : Sol(f, m)
    BY <1>2
  <2> DEFINE g == [k \in 0..m + 1 |-> EvalAt(nodes, w, f, k)]
  <2>2. \A k \in 0..m : g[k] = f[k]
    BY <2>1
  <2>3. ASSUME NEW k \in 0..m + 1 PROVE EvalAt(nodes, w, f, k) = EvalAt(nodes, w, g, k)
    <3>1. CASE k = 0
      BY <3>1 DEF EvalAt
    <3>2. CASE k # 0
      <4>1. k - 1 \in 0..m
        BY <3>2
      <4> HIDE DEF g
      <4>2. g[k - 1] = f[k - 1]
        BY <2>2, <4>1
      <4> QED
        BY <4>2 DEF EvalAt
    <3> QED
      BY <3>1, <3>2
  <2> HIDE DEF g
  <2>4. g = [k \in 0..m + 1 |-> EvalAt(nodes, w, g, k)]
    BY <2>3 DEF g
  <2>5. Sol(g, m + 1)
    BY <2>4
  <2> QED
    BY <2>5
<1> HIDE DEF S
<1>3. Len(nodes) \in S
  BY <1>1, <1>2, Counting
<1> QED
  BY <1>3 DEF S

LEMMA ProgramKeeps ==
  ASSUME NEW w, EvalInv(w), NEW nodes, IsProgram(nodes)
  PROVE  EvalInv(EvalProgram(nodes, w))
<1> DEFINE after == CHOOSE f : f = [k \in 0..Len(nodes) |-> EvalAt(nodes, w, f, k)]
<1>0. Len(nodes) \in Nat /\ DOMAIN nodes = 1..Len(nodes)
  BY DEF IsProgram
<1>1. after = [k \in 0..Len(nodes) |-> EvalAt(nodes, w, after, k)]
  <2>1. \E f : f = [k \in 0..Len(nodes) |-> EvalAt(nodes, w, f, k)]
    BY <1>0, ProgramExists
  <2> QED
    BY <2>1, Zenon
<1>2. EvalProgram(nodes, w) = after[Len(nodes)]
  BY DEF EvalProgram, EvalAt
<1> HIDE DEF after
<1>3. \A k \in 0..Len(nodes) : after[k] = EvalAt(nodes, w, after, k)
  BY <1>1
<1> DEFINE S == {k \in Nat : k <= Len(nodes) => EvalInv(after[k])}
<1>4. 0 \in S
  BY <1>0, <1>3 DEF EvalAt
<1>5. ASSUME NEW k \in Nat, k \in S PROVE k + 1 \in S
  <2>1. SUFFICES ASSUME k + 1 <= Len(nodes) PROVE EvalInv(after[k + 1])
    OBVIOUS
  <2>2. EvalInv(after[k])
    BY <1>0, <1>5, <2>1
  <2>3. after[k + 1] = IF after[k].ended = "no" THEN Eval(nodes[k + 1], after[k]) ELSE after[k]
    BY <1>0, <1>3, <2>1 DEF EvalAt
  <2>4. IsNode(nodes[k + 1])
    BY <1>0, <2>1 DEF IsProgram
  <2> QED
    BY <2>2, <2>3, <2>4, EvalKeeps
<1> HIDE DEF S
<1>6. Len(nodes) \in S
  BY <1>0, <1>4, <1>5, Counting
<1> QED
  BY <1>0, <1>2, <1>6 DEF S

-----------------------------------------------------------------------------
(* the loop *)

LEMMA ReplBegins == ReplInit => ReplInv
<1> SUFFICES ASSUME ReplInit PROVE ReplInv
  OBVIOUS
<1>1. child = None /\ pc = "prompt"
  BY DEF ReplInit
<1>2. /\ DOMAIN Standing = DOMAIN World /\ Standing.lines = Old /\ Standing.map = <<>>
      /\ Standing.lost = FALSE /\ Standing.curr = m_current_db /\ Standing.child = None
      /\ Standing.ended = "no"
  BY DEF ReplInit, Standing, World
<1>3. AllMade(Standing)
  BY <1>2 DEF AllMade, Made, TablesOf
<1>4. AllTold(Standing)
  BY <1>2 DEF AllTold
<1>5. None.type = "none" /\ None.type # "create" /\ None.type # "use"
  BY DEF None
<1>6. EvalInv(Standing)
  BY <1>2, <1>3, <1>4, <1>5 DEF EvalInv
<1> QED
  BY <1>1, <1>6 DEF ReplInv

\* The invariant is about what is worked on, the plan's database and the calls.
LEMMA EvalInvStays ==
  ASSUME NEW w, EvalInv(w), m_current_db' = m_current_db, calls' = calls, Standing' = w
  PROVE  EvalInv(Standing)'
<1>1. DOMAIN World' = DOMAIN World
  BY DEF World
<1>2. \A db, t : (Made(w, db, t) => Made(Standing, db, t)') /\ (Told(w, db, t) => Told(Standing, db, t)')
  BY DEF Made, Told, IsToCreate, IsToLoad
<1>3. AllMade(Standing)' /\ AllTold(Standing)'
  BY <1>2 DEF AllMade, AllTold, EvalInv
<1> QED
  BY <1>1, <1>3 DEF EvalInv, IsFull

LEMMA ReadKeeps ==
  ASSUME ReplInv, NEW text \in Lines, Read(text)
  PROVE  ReplInv'
<1>1. pc' = "eval" => program' = Parsed[text].nodes
  BY DEF Read
<1>2. IsProgram(Parsed[text].nodes)
  BY EvaluatorAssumption
<1>3. pc' = "eval" => IsProgram(program')
  BY <1>1, <1>2
<1>4. child = None /\ child' = child /\ EvalInv(Standing)
  BY DEF Read, ReplInv
<1>5. pc' # "execute" /\ pc # "execute"
  BY DEF Read
<1>6. Standing' = Standing
  BY <1>5 DEF Standing, Read
<1>7. m_current_db' = m_current_db /\ calls' = calls
  BY DEF Read
<1>8. EvalInv(Standing)'
  BY <1>4, <1>6, <1>7, EvalInvStays
<1> QED
  BY <1>3, <1>4, <1>5, <1>8 DEF ReplInv

LEMMA EvaluateKeeps ==
  ASSUME ReplInv, Evaluate
  PROVE  ReplInv'
<1> DEFINE w == EvalProgram(program, World)
<1>1. Standing = World /\ EvalInv(Standing) /\ IsProgram(program)
  BY DEF Evaluate, ReplInv, Standing, World
<1>2. EvalInv(w)
  BY <1>1, ProgramKeeps
<1>3. /\ lines' = w.lines /\ m_tab_eng_map' = w.map /\ m_io_file' = w.io
      /\ m_curr_db_name' = w.curr /\ child' = w.child
      /\ strayed' = w.strayed /\ lost' = w.lost /\ unnoticed' = w.unnoticed
      /\ pc' \in {"crashed", "hung", "execute"}
      /\ pc' = "execute" => w.ended \notin {"crashed", "hung"}
      /\ m_current_db' = m_current_db /\ calls' = calls
  BY DEF Evaluate
<1> HIDE DEF w
<1> DEFINE r == [lines |-> w.lines, map |-> w.map, io |-> w.io, curr |-> w.curr, child |-> w.child,
                 strayed |-> w.strayed, lost |-> w.lost, unnoticed |-> w.unnoticed,
                 values |-> <<>>, ended |-> "error"]
<1>4. CASE pc' = "execute"
  <2>1. Standing' = r
    BY <1>3, <1>4 DEF Standing
  <2>2. w.ended \in {"no", "error"}
    BY <1>2, <1>3, <1>4 DEF EvalInv
  <2>3. Follows(r, w) /\ r.map = w.map /\ r.ended = "error"
    BY <1>2, WorldParts DEF Follows, EvalInv
  <2> HIDE DEF r
  <2>4. EvalInv(r)
    BY <1>2, <2>2, <2>3, SameButValues
  <2>5. EvalInv(Standing)'
    BY <1>3, <2>1, <2>4, EvalInvStays
  <2> QED
    BY <1>4, <2>5 DEF ReplInv
<1> QED
  BY <1>3, <1>4 DEF ReplInv

\* What the plan still has to tell of, it tells.
LEMMA ExecuteKeeps ==
  ASSUME ReplInv, Execute
  PROVE  ReplInv'
<1> DEFINE w == Standing
           r == Standing'
<1>1. EvalInv(w)
  BY DEF Execute, ReplInv
<1>2. /\ w.lines = lines /\ w.map = m_tab_eng_map /\ w.curr = m_curr_db_name /\ w.child = child
      /\ w.strayed = strayed /\ w.lost = lost /\ w.unnoticed = unnoticed /\ DOMAIN w = DOMAIN World
      /\ w.ended = "error"
  BY DEF Standing, World, Execute
<1>3. /\ r.lines = lines /\ r.map = m_tab_eng_map /\ r.curr = m_curr_db_name /\ r.child = None
      /\ r.strayed = strayed /\ r.lost = lost /\ r.unnoticed = unnoticed
      /\ DOMAIN r = DOMAIN World' /\ DOMAIN World' = DOMAIN World /\ r.ended = "no"
  BY DEF Execute, Standing, World
<1>4. /\ calls' = calls \cup CallsOf(child) /\ pc' = "prompt" /\ child' = None
      /\ m_current_db' = IF child.type = "use" THEN child.db ELSE m_current_db
  BY DEF Execute, Executed
<1>5. child.type = "create" /\ child.what = "table" => child.engine \in Engines
  BY <1>1, <1>2 DEF EvalInv
<1> HIDE DEF w
<1>6. ASSUME NEW db, NEW t, IsToCreate(w, db, t)
      PROVE  <<"create_table", t[2], db, t[1]>> \in calls'
  <2>1. <<"create_table", t[2], db, t[1]>> \in CallsOf(child)
    BY <1>2, <1>5, <1>6 DEF CallsOf, IsToCreate
  <2> QED
    BY <1>4, <2>1
<1>7. ASSUME NEW db, NEW t, IsToLoad(w, db, t)
      PROVE  <<"load_database", t[2], db>> \in calls'
  <2>1. child.type = "use" /\ db = child.db /\ t[2] \in child.loads
    BY <1>2, <1>7 DEF IsToLoad
  <2>2. CallsOf(child) = {<<"load_database", e, child.db>> : e \in child.loads}
    BY <2>1 DEF CallsOf
  <2>3. <<"load_database", t[2], db>> \in CallsOf(child)
    BY <2>1, <2>2
  <2> QED
    BY <1>4, <2>3
<1>8. \A db, t : (Made(w, db, t) => Made(Standing, db, t)') /\ (Told(w, db, t) => Told(Standing, db, t)')
  BY <1>2, <1>3, <1>4, <1>6, <1>7 DEF Made, Told, TablesOf, Old
<1>9. AllMade(Standing)' /\ AllTold(Standing)'
  BY <1>1, <1>2, <1>3, <1>8 DEF EvalInv, AllMade, AllTold
<1>10. ~r.lost => r.curr = m_current_db'
  BY <1>1, <1>2, <1>3, <1>4 DEF EvalInv
<1>11. None.type = "none"
  BY DEF None
<1>12. EvalInv(Standing)'
  BY <1>1, <1>2, <1>3, <1>9, <1>10, <1>11 DEF EvalInv
<1> QED
  BY <1>4, <1>12 DEF ReplInv

LEMMA ReplInvKept == ReplInv /\ [ReplNext]_replVars => ReplInv'
<1> SUFFICES ASSUME ReplInv, [ReplNext]_replVars PROVE ReplInv'
  OBVIOUS
<1>1. CASE \E text \in Lines : Read(text)
  BY <1>1, ReadKeeps
<1>2. CASE Evaluate
  BY <1>2, EvaluateKeeps
<1>3. CASE Execute
  BY <1>3, ExecuteKeeps
<1>4. CASE Exit
  BY <1>4 DEF Exit, ReplInv
<1>5. CASE UNCHANGED replVars
  <2>1. Standing' = Standing /\ m_current_db' = m_current_db /\ calls' = calls
    BY <1>5 DEF replVars, Standing
  <2>2. EvalInv(Standing) => EvalInv(Standing)'
    BY <2>1, EvalInvStays
  <2>3. pc' = pc /\ program' = program /\ child' = child
    BY <1>5 DEF replVars
  <2> QED
    BY <2>2, <2>3 DEF ReplInv
<1> QED
  BY <1>1, <1>2, <1>3, <1>4, <1>5 DEF ReplNext

\* The inductive invariant of the loop of the SQL front end, for any lines and whatever
\* the parser makes of them.
THEOREM ReplInvariant == ReplSpec => []ReplInv
BY ReplBegins, ReplInvKept, PTL DEF ReplSpec

\* Between two lines the evaluator and the plan use the same database, and of every table
\* in the map its engine was told, but for a replaced use, what was created after it, and
\* databases that were read for a statement that uses none.
THEOREM EnginesAreTold == ReplSpec => []PlanReachesEngines
<1>1. ReplInv => PlanReachesEngines
  <2> SUFFICES ASSUME ReplInv, pc = "prompt"
               PROVE  /\ m_current_db # m_curr_db_name => lost
                      /\ \A db \in DOMAIN m_tab_eng_map : \A t \in m_tab_eng_map[db] :
                           \/ <<"load_database", t[2], db>> \in calls
                           \/ <<"create_table", t[2], db, t[1]>> \in calls
                           \/ <<db, t>> \in strayed
                           \/ db \in unnoticed
    BY DEF PlanReachesEngines, DatabasesAgree, RegisteredTableIsTold
  <2>1. EvalInv(Standing) /\ child = None
    BY DEF ReplInv
  <2>2. /\ Standing.map = m_tab_eng_map /\ Standing.curr = m_curr_db_name /\ Standing.child = None
        /\ Standing.strayed = strayed /\ Standing.lost = lost /\ Standing.unnoticed = unnoticed
        /\ Standing.ended = "no" /\ None.type = "none"
    BY <2>1 DEF Standing, None
  <2> QED
    BY <2>1, <2>2 DEF EvalInv, AllTold, Told, IsToCreate, IsToLoad
<1> QED
  BY <1>1, ReplInvariant, PTL

-----------------------------------------------------------------------------
(* what ends the process *)


LEMMA NodeSurvives ==
  ASSUME NEW w, EvalInv(w), w.ended = "no", NEW visited, IsNode(visited), ~MayCrash(visited)
  PROVE  Eval(visited, w).ended # "crashed"
<1>0. DOMAIN w = DOMAIN World
  BY DEF EvalInv
<1>1. ASSUME NEW r, DOMAIN r = DOMAIN World, NEW type PROVE Gives(r, type).ended = r.ended
  BY <1>1, WorldParts DEF Gives
<1>2. ASSUME NEW r, DOMAIN r = DOMAIN World, NEW new
      PROVE  SetChild(r, new).ended = r.ended /\ DOMAIN SetChild(r, new) = DOMAIN World
  BY <1>2, ChildIs
<1>3. ASSUME NEW r, DOMAIN r = DOMAIN World, NEW how PROVE [r EXCEPT !.ended = how].ended = how
  BY <1>3, WorldParts
<1>4. \A n : Popped(w, n).ended = "no" /\ DOMAIN Popped(w, n) = DOMAIN World
  BY <1>0, WorldParts DEF Popped
<1>5. CASE visited.type \in {"string", "integer", "float", "null"}
  BY <1>0, <1>1, <1>5 DEF Eval
<1>6. CASE visited.type = "infix"
  <2>1. EvalInfix(visited, w) \in {Gives(Popped(w, 2), "string"), Error(w)}
    BY DEF EvalInfix
  <2>2. Gives(Popped(w, 2), "string").ended = "no" /\ Error(w).ended = "error"
    BY <1>0, <1>1, <1>3, <1>4 DEF Error
  <2> QED
    BY <1>6, <2>1, <2>2 DEF Eval
<1>7. CASE visited.type = "prefix"
  <2>1. EvalPrefix(w) \in {w, Error(w)}
    BY DEF EvalPrefix
  <2> QED
    BY <1>0, <1>3, <1>7, <2>1 DEF Eval, Error
<1>8. CASE visited.type = "show"
  <2>1. visited.what = "option" => ~visited.asked /\ visited.db = NoDatabase
    BY <1>8 DEF MayCrash
  <2>2. EvalShow(visited, w) \in
          {Gives(SetChild(w, [type |-> "show", what |-> visited.what]), "show"), w, SetChild(w, None)}
    BY <2>1 DEF EvalShow, GivesNull
  <2>3. EvalShow(visited, w).ended = "no"
    BY <1>0, <1>1, <1>2, <2>2
  <2> QED
    BY <1>8, <2>3 DEF Eval
<1>9. CASE visited.type = "use"
  <2> DEFINE u == [w EXCEPT !.curr = visited.db]
             r == LoadMetadata(u, visited.db)
  <2>1. ~visited.asked /\ visited.db \notin Directories
    BY <1>9 DEF MayCrash
  <2>2. DOMAIN u = DOMAIN World /\ u.lines = w.lines /\ u.ended = "no"
    BY <1>0, WorldParts
  <2>3. EvalUse(visited, w) = r \/ EvalUse(visited, w) = SetChild(w, None)
        \/ \E new : EvalUse(visited, w) = Gives(SetChild(r, new), "use")
    BY <2>1 DEF EvalUse, GivesNull
  <2>4. visited.db \notin DOMAIN w.lines => EvalUse(visited, w) = SetChild(w, None)
    BY <2>1 DEF EvalUse, GivesNull
  <2> HIDE DEF u
  <2>5. DOMAIN r = DOMAIN World /\ (visited.db \in DOMAIN w.lines => r.ended # "crashed")
    BY <2>2, LoadIs DEF Follows
  <2> HIDE DEF r
  <2>6. \A new : Gives(SetChild(r, new), "use").ended = r.ended
    BY <1>1, <1>2, <2>5
  <2>7. SetChild(w, None).ended = "no"
    BY <1>0, <1>2
  <2>8. EvalUse(visited, w).ended # "crashed"
    BY <2>3, <2>4, <2>5, <2>6, <2>7
  <2> QED
    BY <1>9, <2>8 DEF Eval
<1>10. CASE visited.type = "create"
  <2>1. visited.what = "database" /\ visited.name # ""
    BY <1>10 DEF MayCrash, IsNode
  <2>2. DOMAIN Created(visited, w) = DOMAIN World
    BY <1>0, <2>1, WorldParts DEF Created
  <2>3. \E new : EvalCreate(visited, w) = Error(SetChild(Created(visited, w), new))
    BY <2>1 DEF EvalCreate
  <2>4. EvalCreate(visited, w).ended = "error"
    BY <1>2, <1>3, <2>2, <2>3 DEF Error
  <2> QED
    BY <1>10, <2>4 DEF Eval
<1>11. CASE visited.type = "select"
  <2>1. ~visited.asked /\ visited.db = NoDatabase /\ Converts(visited.where)
    BY <1>11 DEF MayCrash
  <2>2. EvalSelect(visited, w) = w \/ \E new : EvalSelect(visited, w) = Gives(SetChild(w, new), "plan")
    BY <2>1 DEF EvalSelect, GivesNull
  <2>3. EvalSelect(visited, w).ended = "no"
    BY <1>0, <1>1, <1>2, <2>2
  <2> QED
    BY <1>11, <2>3 DEF Eval
<1>12. CASE visited.type = "system"
  <2>1. visited.where # "other"
    BY <1>12 DEF MayCrash
  <2>2. \E r \in {w, Popped(w, 2)} : EvalSystem(visited, w) = Gives(SetChild(r, [type |-> "system"]), "plan")
    BY <2>1 DEF EvalSystem
  <2>3. EvalSystem(visited, w).ended = "no"
    BY <1>0, <1>1, <1>2, <1>4, <2>2
  <2> QED
    BY <1>12, <2>3 DEF Eval
<1>13. CASE visited.type = "insert"
  <2>1. EvalInsert(visited, w) = Gives(SetChild(w, [type |-> "insert"]), "plan")
    BY <1>13 DEF EvalInsert, MayCrash
  <2>2. EvalInsert(visited, w).ended = "no"
    BY <1>0, <1>1, <1>2, <2>1
  <2> QED
    BY <1>13, <2>2 DEF Eval
<1> QED
  BY <1>5, <1>6, <1>7, <1>8, <1>9, <1>10, <1>11, <1>12, <1>13 DEF MayCrash

\* A node that opens no file does not hang.
LEMMA NodeReturns ==
  ASSUME NEW w, EvalInv(w), w.ended = "no", NEW visited, IsNode(visited), ~MayHang(visited)
  PROVE  Eval(visited, w).ended # "hung"
<1>0. DOMAIN w = DOMAIN World
  BY DEF EvalInv
<1>1. ASSUME NEW r, DOMAIN r = DOMAIN World, NEW type PROVE Gives(r, type).ended = r.ended
  BY <1>1, WorldParts DEF Gives
<1>2. ASSUME NEW r, DOMAIN r = DOMAIN World, NEW new
      PROVE  SetChild(r, new).ended = r.ended /\ DOMAIN SetChild(r, new) = DOMAIN World
  BY <1>2, ChildIs
<1>3. ASSUME NEW r, DOMAIN r = DOMAIN World, NEW how PROVE [r EXCEPT !.ended = how].ended = how
  BY <1>3, WorldParts
<1>4. \A n : Popped(w, n).ended = "no" /\ DOMAIN Popped(w, n) = DOMAIN World
  BY <1>0, WorldParts DEF Popped
<1>5. Crash(w).ended = "crashed" /\ Error(w).ended = "error"
  BY <1>0, <1>3 DEF Crash, Error
<1>6. ASSUME NEW r, DOMAIN r = DOMAIN World, r.ended = "no" PROVE GivesNull(visited, r).ended # "hung"
  BY <1>3, <1>6 DEF GivesNull, Crash
<1>7. CASE visited.type \in {"string", "integer", "float", "null"}
  BY <1>0, <1>1, <1>7 DEF Eval
<1>8. CASE visited.type = "infix"
  <2>1. EvalInfix(visited, w) \in {Gives(Popped(w, 2), "string"), Error(w)}
    BY DEF EvalInfix
  <2>2. Gives(Popped(w, 2), "string").ended = "no"
    BY <1>1, <1>4
  <2> QED
    BY <1>5, <1>8, <2>1, <2>2 DEF Eval
<1>9. CASE visited.type = "prefix"
  <2>1. EvalPrefix(w) \in {w, Error(w)}
    BY DEF EvalPrefix
  <2> QED
    BY <1>5, <1>9, <2>1 DEF Eval
<1>10. CASE visited.type = "show"
  <2>1. visited.what = "option" => visited.db = NoDatabase
    BY <1>10 DEF MayHang
  <2>2. EvalShow(visited, w) \in
          {Gives(SetChild(w, [type |-> "show", what |-> visited.what]), "show"), w,
           GivesNull(visited, SetChild(w, None))}
    BY <2>1 DEF EvalShow
  <2>3. EvalShow(visited, w).ended # "hung"
    BY <1>0, <1>1, <1>2, <1>6, <2>2
  <2> QED
    BY <1>10, <2>3 DEF Eval
<1>11. CASE visited.type = "create"
  <2>1. visited.what = "database"
    BY <1>11 DEF MayHang, IsNode
  <2>2. DOMAIN Created(visited, w) = DOMAIN World
    BY <1>0, <2>1, WorldParts DEF Created
  <2>3. EvalCreate(visited, w) = Crash(w) \/ \E new : EvalCreate(visited, w) = Error(SetChild(Created(visited, w), new))
    BY <2>1 DEF EvalCreate
  <2>4. \A new : Error(SetChild(Created(visited, w), new)).ended = "error"
    BY <1>2, <1>3, <2>2 DEF Error
  <2> QED
    BY <1>5, <1>11, <2>3, <2>4 DEF Eval
<1>12. CASE visited.type = "select"
  <2>1. visited.db = NoDatabase
    BY <1>12 DEF MayHang
  <2>2. EvalSelect(visited, w) \in {w, Crash(w), GivesNull(visited, w)}
        \/ \E new : EvalSelect(visited, w) = Gives(SetChild(w, new), "plan")
    BY <2>1 DEF EvalSelect
  <2>3. EvalSelect(visited, w).ended # "hung"
    BY <1>0, <1>1, <1>2, <1>5, <1>6, <2>2
  <2> QED
    BY <1>12, <2>3 DEF Eval
<1>13. CASE visited.type = "system"
  <2>1. EvalSystem(visited, w) = Crash(w)
        \/ \E r \in {w, Popped(w, 2)} : EvalSystem(visited, w) = Gives(SetChild(r, [type |-> "system"]), "plan")
    BY DEF EvalSystem
  <2>2. EvalSystem(visited, w).ended # "hung"
    BY <1>0, <1>1, <1>2, <1>4, <1>5, <2>1
  <2> QED
    BY <1>13, <2>2 DEF Eval
<1>14. CASE visited.type = "insert"
  <2>1. EvalInsert(visited, w) \in {Crash(w), Gives(SetChild(w, [type |-> "insert"]), "plan")}
    BY DEF EvalInsert
  <2>2. EvalInsert(visited, w).ended # "hung"
    BY <1>0, <1>1, <1>2, <1>5, <2>1
  <2> QED
    BY <1>14, <2>2 DEF Eval
<1>15. CASE visited.type \notin {"string", "integer", "float", "null", "infix", "prefix", "show", "use",
                                 "create", "select", "system", "insert"}
  BY <1>5, <1>15 DEF Eval
<1> QED
  BY <1>7, <1>8, <1>9, <1>10, <1>11, <1>12, <1>13, <1>14, <1>15 DEF MayHang

\* A node that may end the evaluation so.
MayEnd(visited, how) ==
  (how = "crashed" /\ MayCrash(visited)) \/ (how = "hung" /\ MayHang(visited))

LEMMA ProgramSurvives ==
  ASSUME NEW w, EvalInv(w), w.ended = "no", NEW nodes, IsProgram(nodes),
         NEW how \in {"crashed", "hung"}, \A k \in DOMAIN nodes : ~MayEnd(nodes[k], how)
  PROVE  EvalProgram(nodes, w).ended # how
<1> DEFINE after == CHOOSE f : f = [k \in 0..Len(nodes) |-> EvalAt(nodes, w, f, k)]
<1>0. Len(nodes) \in Nat /\ DOMAIN nodes = 1..Len(nodes)
  BY DEF IsProgram
<1>1. after = [k \in 0..Len(nodes) |-> EvalAt(nodes, w, after, k)]
  <2>1. \E f : f = [k \in 0..Len(nodes) |-> EvalAt(nodes, w, f, k)]
    BY <1>0, ProgramExists
  <2> QED
    BY <2>1, Zenon
<1>2. EvalProgram(nodes, w) = after[Len(nodes)]
  BY DEF EvalProgram, EvalAt
<1> HIDE DEF after
<1>3. \A k \in 0..Len(nodes) : after[k] = EvalAt(nodes, w, after, k)
  BY <1>1
<1> DEFINE S == {k \in Nat : k <= Len(nodes) => EvalInv(after[k]) /\ after[k].ended # how}
<1>4. 0 \in S
  BY <1>0, <1>3 DEF EvalAt
<1>5. ASSUME NEW k \in Nat, k \in S PROVE k + 1 \in S
  <2>1. SUFFICES ASSUME k + 1 <= Len(nodes) PROVE EvalInv(after[k + 1]) /\ after[k + 1].ended # how
    OBVIOUS
  <2>2. EvalInv(after[k]) /\ after[k].ended # how
    BY <1>0, <1>5, <2>1
  <2>3. after[k + 1] = IF after[k].ended = "no" THEN Eval(nodes[k + 1], after[k]) ELSE after[k]
    BY <1>0, <1>3, <2>1 DEF EvalAt
  <2>4. IsNode(nodes[k + 1]) /\ ~MayEnd(nodes[k + 1], how)
    BY <1>0, <2>1 DEF IsProgram
  <2> QED
    BY <2>2, <2>3, <2>4, EvalKeeps, NodeSurvives, NodeReturns DEF MayEnd
<1> HIDE DEF S
<1>6. Len(nodes) \in S
  BY <1>0, <1>4, <1>5, Counting
<1> QED
  BY <1>0, <1>2, <1>6 DEF S

\* What is evaluated is what was read last.
ReadLast ==
  /\ pc = "eval" => line \in Lines /\ program = Parsed[line].nodes
  /\ CrashHasCause

LEMMA ReadLastKept ==
  ASSUME ReplInv, ReadLast, [ReplNext]_replVars
  PROVE  ReadLast'
<1>1. CASE \E text \in Lines : Read(text)
  BY <1>1 DEF Read, ReadLast, CrashHasCause
<1>2. CASE Evaluate
  <2>1. Standing = World /\ EvalInv(World) /\ World.ended = "no" /\ IsProgram(program)
    BY <1>2 DEF Evaluate, ReplInv, Standing, World
  <2>2. pc' = EvalProgram(program, World).ended \/ pc' = "execute"
    BY <1>2 DEF Evaluate
  <2>3. pc' = "crashed" => \E k \in DOMAIN program : MayEnd(program[k], "crashed")
    BY <2>1, <2>2, ProgramSurvives
  <2>4. pc' = "hung" => \E k \in DOMAIN program : MayEnd(program[k], "hung")
    BY <2>1, <2>2, ProgramSurvives
  <2>5. pc' = "hung" => Cardinality(DOMAIN m_io_file') >= StreamLimit
    <3>1. EvalInv(EvalProgram(program, World))
      BY <2>1, ProgramKeeps
    <3> QED
      BY <1>2, <2>2, <3>1 DEF EvalInv, IsFull, Evaluate
  <2> QED
    BY <1>2, <2>3, <2>4, <2>5 DEF Evaluate, ReadLast, CrashHasCause, MayEnd
<1>3. CASE Execute \/ Exit
  BY <1>3 DEF Execute, Exit, ReadLast, CrashHasCause
<1>4. CASE UNCHANGED replVars
  BY <1>4 DEF replVars, ReadLast, CrashHasCause
<1> QED
  BY <1>1, <1>2, <1>3, <1>4 DEF ReplNext

\* The process ends only in the parser of inserts or at a node of the last line that may
\* end it, and waits for itself only at one that opens a file when all streams are taken,
\* whatever came before: no statement leaves a state in which an innocent one crashes.
THEOREM CrashesHaveCauses == ReplSpec => []CrashHasCause
<1>1. ReplInit => ReadLast
  BY DEF ReplInit, ReadLast, CrashHasCause
<1>2. ReplInv /\ ReadLast /\ [ReplNext]_replVars => ReadLast'
  BY ReadLastKept
<1>3. ReadLast => CrashHasCause
  BY DEF ReadLast
<1> QED
  BY <1>1, <1>2, <1>3, ReplInvariant, PTL DEF ReplSpec

-----------------------------------------------------------------------------
(* The JSON library.  Memory is a forest: what a Json refers to is apart from what the *)
(* others refer to, and all is reached from the variables.                              *)

LEMMA IsSeqOf ==
  ASSUME NEW n \in Nat, NEW S, NEW s, s = [i \in 1..n |-> s[i]], \A i \in 1..n : s[i] \in S
  PROVE  s \in Seq(S)
<1>1. [i \in 1..n |-> s[i]] \in [1..n -> S]
  OBVIOUS
<1>2. s \in [1..n -> S]
  BY <1>1
<1> QED
  BY <1>2, SeqDef
-----------------------------------------------------------------------------
(* forests: K are the cells, R the cells each refers to, G the tops *)

ClosedUnder(R, S) == \A a \in S : R[a] \subseteq S

\* The least closed set with x.
Reach(K, R, x) == {a \in K : \A S \in SUBSET K : x \in S /\ ClosedUnder(R, S) => a \in S}

Forest(K, R, G) ==
  /\ G \subseteq K
  /\ \A a \in K : R[a] \subseteq K /\ R[a] \cap G = {}
  /\ \A a, b \in K : a # b => R[a] \cap R[b] = {}
  /\ \A S \in SUBSET K : G \subseteq S /\ ClosedUnder(R, S) => S = K

LEMMA ReachIs ==
  ASSUME NEW K, NEW R, \A a \in K : R[a] \subseteq K, NEW x \in K
  PROVE  /\ x \in Reach(K, R, x) /\ Reach(K, R, x) \subseteq K
         /\ ClosedUnder(R, Reach(K, R, x))
         /\ \A b \in Reach(K, R, x) : b # x => \E a \in Reach(K, R, x) : b \in R[a]
         /\ \A S \in SUBSET K : x \in S /\ ClosedUnder(R, S) => Reach(K, R, x) \subseteq S
<1> DEFINE T == Reach(K, R, x)
<1>1. x \in T /\ T \subseteq K
  BY DEF Reach
<1>2. \A S \in SUBSET K : x \in S /\ ClosedUnder(R, S) => T \subseteq S
  BY DEF Reach
<1>3. ClosedUnder(R, T)
  <2>1. SUFFICES ASSUME NEW a \in T, NEW b \in R[a] PROVE b \in T
    BY DEF ClosedUnder
  <2>2. b \in K
    BY <1>1
  <2>3. ASSUME NEW S \in SUBSET K, x \in S, ClosedUnder(R, S) PROVE b \in S
    BY <1>2, <2>3 DEF ClosedUnder
  <2> QED
    BY <2>2, <2>3 DEF Reach
<1>4. ASSUME NEW b \in T, b # x, \A a \in T : b \notin R[a] PROVE FALSE
  <2> HIDE DEF T
  <2>1. x \in T \ {b} /\ T \ {b} \in SUBSET K
    BY <1>1, <1>4
  <2>2. ClosedUnder(R, T \ {b})
    BY <1>3, <1>4 DEF ClosedUnder
  <2> QED
    BY <1>2, <2>1, <2>2
<1> HIDE DEF T
<1>5. \A b \in T : b # x => \E a \in T : b \in R[a]
  BY <1>4
<1> QED
  BY <1>1, <1>2, <1>3, <1>5 DEF T

\* What two tops reach is apart.
LEMMA Apart ==
  ASSUME NEW K, NEW R, NEW G, Forest(K, R, G), NEW x \in G, NEW y \in G, x # y
  PROVE  Reach(K, R, x) \cap Reach(K, R, y) = {}
<1> DEFINE T == Reach(K, R, x)
           U == Reach(K, R, y)
<1>1. x \in K /\ y \in K /\ \A a \in K : R[a] \subseteq K /\ x \notin R[a] /\ y \notin R[a]
  BY DEF Forest
<1>2. /\ x \in T /\ T \subseteq K /\ ClosedUnder(R, T)
      /\ \A S \in SUBSET K : x \in S /\ ClosedUnder(R, S) => T \subseteq S
  BY <1>1, ReachIs
<1>3. U \subseteq K /\ \A b \in U : b # y => \E a \in U : b \in R[a]
  BY <1>1, ReachIs
<1> HIDE DEF T, U
<1>4. x \in T \ U
  BY <1>1, <1>2, <1>3
<1>5. ClosedUnder(R, T \ U)
  <2>1. SUFFICES ASSUME NEW a \in T \ U, NEW b \in R[a], b \in U PROVE FALSE
    BY <1>2 DEF ClosedUnder
  <2>2. PICK c \in U : b \in R[c]
    BY <1>1, <1>2, <1>3, <2>1
  <2> QED
    BY <1>2, <1>3, <2>1, <2>2 DEF Forest
<1>6. T \ U \in SUBSET K
  BY <1>2
<1>7. T \subseteq T \ U
  BY <1>2, <1>4, <1>5, <1>6
<1> QED
  BY <1>7 DEF T, U

\* Every cell is reached from a top.
LEMMA AllReached ==
  ASSUME NEW K, NEW R, NEW G, Forest(K, R, G), NEW a \in K
  PROVE  \E x \in G : a \in Reach(K, R, x)
<1> DEFINE S == UNION {Reach(K, R, x) : x \in G}
<1>1. \A x \in G : x \in K /\ \A b \in K : R[b] \subseteq K
  BY DEF Forest
<1>2. \A x \in G : x \in Reach(K, R, x) /\ Reach(K, R, x) \subseteq K /\ ClosedUnder(R, Reach(K, R, x))
  BY <1>1, ReachIs
<1>3. G \subseteq S /\ S \in SUBSET K
  BY <1>2
<1>4. ClosedUnder(R, S)
  BY <1>2 DEF ClosedUnder
<1> HIDE DEF S
<1>5. S = K
  BY <1>3, <1>4 DEF Forest
<1> QED
  BY <1>5 DEF S

\* What a top reaches is cut off.
LEMMA CutOff ==
  ASSUME NEW K, NEW R, NEW G, Forest(K, R, G), NEW x \in G,
         NEW R2, \A a \in K \ Reach(K, R, x) : R2[a] = R[a]
  PROVE  Forest(K \ Reach(K, R, x), R2, G \ {x})
<1> DEFINE T == Reach(K, R, x)
<1>1. x \in K /\ \A a \in K : R[a] \subseteq K /\ R[a] \cap G = {}
  BY DEF Forest
<1>2. /\ x \in T /\ T \subseteq K /\ ClosedUnder(R, T) /\ \A b \in T : b # x => \E a \in T : b \in R[a]
  BY <1>1, ReachIs
<1>3. \A a \in K \ T : R2[a] = R[a]
  OBVIOUS
<1> HIDE DEF T
<1>4. G \ {x} \subseteq K \ T
  BY <1>1, <1>2 DEF Forest
<1>5. ASSUME NEW a \in K \ T, NEW b \in R[a] PROVE b \notin T
  <2>1. SUFFICES ASSUME b \in T PROVE FALSE
    OBVIOUS
  <2>2. PICK c \in T : b \in R[c]
    BY <1>1, <1>2, <2>1
  <2> QED
    BY <1>2, <2>2, <1>5 DEF Forest
<1>6. \A a \in K \ T : R2[a] \subseteq K \ T /\ R2[a] \cap (G \ {x}) = {}
  BY <1>1, <1>3, <1>5
<1>7. \A a, b \in K \ T : a # b => R2[a] \cap R2[b] = {}
  BY <1>3 DEF Forest
<1>8. ASSUME NEW S \in SUBSET (K \ T), G \ {x} \subseteq S, ClosedUnder(R2, S) PROVE S = K \ T
  <2>1. S \cup T \in SUBSET K /\ G \subseteq S \cup T
    BY <1>2, <1>8
  <2>2. ClosedUnder(R, S \cup T)
    BY <1>2, <1>3, <1>8 DEF ClosedUnder
  <2>3. S \cup T = K
    BY <2>1, <2>2 DEF Forest
  <2> QED
    BY <2>3
<1>9. Forest(K \ T, R2, G \ {x})
  BY <1>4, <1>6, <1>7, <1>8 DEF Forest
<1> QED
  BY <1>9 DEF T

\* What is reached from a top is a forest of its own.
LEMMA OwnForest ==
  ASSUME NEW K, NEW R, NEW G, Forest(K, R, G), NEW x \in G,
         NEW R2, \A a \in Reach(K, R, x) : R2[a] = R[a]
  PROVE  Forest(Reach(K, R, x), R2, {x})
<1> DEFINE T == Reach(K, R, x)
<1>1. x \in K /\ \A a \in K : R[a] \subseteq K /\ x \notin R[a]
  BY DEF Forest
<1>2. /\ x \in T /\ T \subseteq K /\ ClosedUnder(R, T)
      /\ \A S \in SUBSET K : x \in S /\ ClosedUnder(R, S) => T \subseteq S
  BY <1>1, ReachIs
<1>3. \A a \in T : R2[a] = R[a]
  OBVIOUS
<1> HIDE DEF T
<1>4. \A a \in T : R2[a] \subseteq T /\ R2[a] \cap {x} = {}
  BY <1>1, <1>2, <1>3 DEF ClosedUnder
<1>5. \A a, b \in T : a # b => R2[a] \cap R2[b] = {}
  BY <1>2, <1>3 DEF Forest
<1>6. ASSUME NEW S \in SUBSET T, {x} \subseteq S, ClosedUnder(R2, S) PROVE S = T
  BY <1>2, <1>3, <1>6 DEF ClosedUnder
<1>7. Forest(T, R2, {x})
  BY <1>2, <1>4, <1>5, <1>6 DEF Forest
<1> QED
  BY <1>7 DEF T

\* Two forests side by side.
LEMMA SideBySide ==
  ASSUME NEW K, NEW R, NEW G, Forest(K, R, G), NEW K2, NEW R2, NEW G2, Forest(K2, R2, G2), K \cap K2 = {},
         NEW B, \A a \in K : B[a] = R[a], \A a \in K2 : B[a] = R2[a]
  PROVE  Forest(K \cup K2, B, G \cup G2)
<1>1. \A a \in K : R[a] \subseteq K /\ R[a] \cap G = {}
  BY DEF Forest
<1>2. \A a \in K2 : R2[a] \subseteq K2 /\ R2[a] \cap G2 = {}
  BY DEF Forest
<1>3. G \subseteq K /\ G2 \subseteq K2
  BY DEF Forest
<1>4. \A a \in K \cup K2 : B[a] \subseteq K \cup K2 /\ B[a] \cap (G \cup G2) = {}
  BY <1>1, <1>2, <1>3
<1>5. ASSUME NEW a \in K \cup K2, NEW b \in K \cup K2, a # b PROVE B[a] \cap B[b] = {}
  <2>1. CASE a \in K /\ b \in K
    BY <1>5, <2>1 DEF Forest
  <2>2. CASE a \in K2 /\ b \in K2
    BY <1>5, <2>2 DEF Forest
  <2> QED
    BY <1>1, <1>2, <2>1, <2>2
<1>6. ASSUME NEW S \in SUBSET (K \cup K2), G \cup G2 \subseteq S, ClosedUnder(B, S) PROVE S = K \cup K2
  <2>1. S \cap K \in SUBSET K /\ G \subseteq S \cap K /\ ClosedUnder(R, S \cap K)
    BY <1>1, <1>3, <1>6 DEF ClosedUnder
  <2>2. S \cap K2 \in SUBSET K2 /\ G2 \subseteq S \cap K2 /\ ClosedUnder(R2, S \cap K2)
    BY <1>2, <1>3, <1>6 DEF ClosedUnder
  <2>3. S \cap K = K /\ S \cap K2 = K2
    BY <2>1, <2>2 DEF Forest
  <2> QED
    BY <2>3
<1> QED
  BY <1>3, <1>4, <1>5, <1>6 DEF Forest

\* The same forest elsewhere.
LEMMA ForestElsewhere ==
  ASSUME NEW K, NEW R, NEW G, Forest(K, R, G), NEW at, \A a, b \in K : at[a] = at[b] => a = b,
         NEW R2, \A a \in K : R2[at[a]] = {at[b] : b \in R[a]}
  PROVE  Forest({at[a] : a \in K}, R2, {at[b] : b \in G})
<1> DEFINE N == {at[a] : a \in K}
           H == {at[b] : b \in G}
<1>1. G \subseteq K /\ \A a \in K : R[a] \subseteq K /\ R[a] \cap G = {}
  BY DEF Forest
<1>2. H \subseteq N
  BY <1>1
<1>3. ASSUME NEW c \in N PROVE R2[c] \subseteq N /\ R2[c] \cap H = {}
  <2>1. PICK a \in K : c = at[a]
    OBVIOUS
  <2>2. R2[c] = {at[b] : b \in R[a]}
    BY <2>1
  <2> QED
    BY <1>1, <2>2
<1>4. ASSUME NEW c \in N, NEW d \in N, c # d PROVE R2[c] \cap R2[d] = {}
  <2>1. PICK a \in K, b \in K : c = at[a] /\ d = at[b]
    OBVIOUS
  <2>2. R2[c] = {at[e] : e \in R[a]} /\ R2[d] = {at[e] : e \in R[b]} /\ a # b
    BY <1>4, <2>1
  <2>3. R[a] \cap R[b] = {} /\ R[a] \subseteq K /\ R[b] \subseteq K
    BY <1>1, <2>2 DEF Forest
  <2> QED
    BY <2>2, <2>3
<1>5. ASSUME NEW S \in SUBSET N, H \subseteq S, ClosedUnder(R2, S) PROVE S = N
  <2> DEFINE P == {a \in K : at[a] \in S}
  <2>1. P \in SUBSET K /\ G \subseteq P
    BY <1>1, <1>5
  <2>2. ClosedUnder(R, P)
    <3>1. SUFFICES ASSUME NEW a \in P, NEW b \in R[a] PROVE b \in P
      BY DEF ClosedUnder
    <3>2. at[b] \in R2[at[a]] /\ at[a] \in S /\ b \in K
      BY <1>1
    <3> QED
      BY <1>5, <3>2 DEF ClosedUnder
  <2> HIDE DEF P
  <2>3. P = K
    BY <2>1, <2>2 DEF Forest
  <2> QED
    BY <2>3 DEF P
<1> HIDE DEF N, H
<1>6. Forest(N, R2, H)
  BY <1>2, <1>3, <1>4, <1>5 DEF Forest
<1> QED
  BY <1>6 DEF N, H

\* What a top refers to and the tops change places.
LEMMA Shifted ==
  ASSUME NEW K, NEW R, NEW G, Forest(K, R, G), NEW a \in G, NEW R2, NEW H, a \in H,
         \A b \in K : b # a => R2[b] = R[b], R2[a] \cup H = R[a] \cup G, R2[a] \cap H = {}
  PROVE  Forest(K, R2, H)
<1>1. G \subseteq K /\ \A b \in K : R[b] \subseteq K /\ R[b] \cap G = {}
  BY DEF Forest
<1>2. H \subseteq K /\ R2[a] \subseteq K
  BY <1>1
<1>3. ASSUME NEW b \in K, b # a PROVE R2[b] = R[b] /\ R[b] \cap (R[a] \cup G) = {}
  BY <1>1, <1>3 DEF Forest
<1>4. \A b \in K : R2[b] \subseteq K /\ R2[b] \cap H = {}
  BY <1>1, <1>2, <1>3
<1>5. \A b, c \in K : b # c => R2[b] \cap R2[c] = {}
  <2>1. ASSUME NEW b \in K, NEW c \in K, b # c PROVE R2[b] \cap R2[c] = {}
    <3>1. CASE b = a \/ c = a
      BY <1>3, <2>1, <3>1
    <3>2. CASE b # a /\ c # a
      BY <2>1, <3>2 DEF Forest
    <3> QED
      BY <3>1, <3>2
  <2> QED
    BY <2>1
<1>6. ASSUME NEW S \in SUBSET K, H \subseteq S, ClosedUnder(R2, S) PROVE S = K
  <2>1. G \subseteq S /\ R[a] \subseteq S
    BY <1>6 DEF ClosedUnder
  <2>2. ClosedUnder(R, S)
    BY <1>6, <2>1 DEF ClosedUnder
  <2> QED
    BY <1>6, <2>1, <2>2 DEF Forest
<1> QED
  BY <1>2, <1>4, <1>5, <1>6 DEF Forest

\* Reaching does not depend on what is not reached.
LEMMA ReachLocal ==
  ASSUME NEW K, NEW R, \A a \in K : R[a] \subseteq K, NEW x \in K,
         NEW R2, \A a \in Reach(K, R, x) : R2[a] = R[a]
  PROVE  Reach(K, R2, x) = Reach(K, R, x)
<1> DEFINE T == Reach(K, R, x)
<1>1. /\ x \in T /\ T \subseteq K /\ ClosedUnder(R, T)
      /\ \A S \in SUBSET K : x \in S /\ ClosedUnder(R, S) => T \subseteq S
  BY ReachIs
<1>2. \A a \in T : R2[a] = R[a]
  OBVIOUS
<1> HIDE DEF T
<1>3. ClosedUnder(R2, T)
  BY <1>1, <1>2 DEF ClosedUnder
<1>4. Reach(K, R2, x) \subseteq T
  BY <1>1, <1>3 DEF Reach
<1>5. ASSUME NEW S \in SUBSET K, x \in S, ClosedUnder(R2, S) PROVE T \subseteq S
  <2>1. ClosedUnder(R, S \cap T)
    BY <1>1, <1>2, <1>5 DEF ClosedUnder
  <2> QED
    BY <1>1, <1>5, <2>1
<1>6. T \subseteq Reach(K, R2, x)
  BY <1>1, <1>5 DEF Reach
<1>7. Reach(K, R2, x) = T
  BY <1>4, <1>6
<1> QED
  BY <1>7 DEF T

\* What a top refers to, x, is cut off with all that it reaches.
LEMMA ChildCutOff ==
  ASSUME NEW K, NEW R, NEW G, Forest(K, R, G), NEW a \in G, NEW x \in R[a],
         NEW R2, R2[a] = R[a] \ {x}, \A b \in K \ Reach(K, R, x) : b # a => R2[b] = R[b]
  PROVE  /\ a \notin Reach(K, R, x)
         /\ Forest(K \ Reach(K, R, x), R2, G)
<1> DEFINE B == [b \in K |-> IF b = a THEN R[a] \ {x} ELSE R[b]]
<1>0. a \in K /\ x \in K /\ x \notin G /\ \A b \in K : R[b] \subseteq K
  BY DEF Forest
<1>1. Forest(K, B, G \cup {x})
  <2>1. a \in G \cup {x} /\ B[a] \cup (G \cup {x}) = R[a] \cup G /\ \A b \in K : b # a => B[b] = R[b]
    BY <1>0
  <2>2. B[a] \cap (G \cup {x}) = {}
    BY <1>0 DEF Forest
  <2> HIDE DEF B
  <2> QED
    BY <2>1, <2>2, Shifted
<1>2. \A b \in K : B[b] \subseteq K
  BY <1>0
<1>3. B[a] = R[a] \ {x} /\ \A b \in K : b # a => B[b] = R[b]
  BY <1>0
<1> HIDE DEF B
<1>4. a # x
  BY <1>0
<1>5. a \notin Reach(K, B, x)
  <2>1. a \in Reach(K, B, a)
    BY <1>0, <1>2, ReachIs
  <2>2. Reach(K, B, a) \cap Reach(K, B, x) = {}
    BY <1>1, <1>4, Apart
  <2> QED
    BY <2>1, <2>2
<1>6. Reach(K, R, x) = Reach(K, B, x)
  <2>1. \A b \in Reach(K, B, x) : R[b] = B[b]
    BY <1>3, <1>5 DEF Reach
  <2> QED
    BY <1>0, <1>2, <2>1, ReachLocal
<1>7. Forest(K \ Reach(K, B, x), R2, (G \cup {x}) \ {x})
  <2>1. \A b \in K \ Reach(K, B, x) : R2[b] = B[b]
    BY <1>3, <1>6
  <2> QED
    BY <1>1, <2>1, CutOff
<1>8. (G \cup {x}) \ {x} = G
  BY <1>0
<1> QED
  BY <1>5, <1>6, <1>7, <1>8

-----------------------------------------------------------------------------
(* memory *)

BelowOf(cells) == [a \in DOMAIN cells |-> Below(cells[a])]

LEMMA OwnedIs ==
  ASSUME NEW cells, NEW j
  PROVE  Owned(cells, j) = IF OnHeap(j.type) THEN Reach(DOMAIN cells, BelowOf(cells), j.content) ELSE {}
<1>1. \A S \in SUBSET DOMAIN cells : Closed(cells, S) <=> ClosedUnder(BelowOf(cells), S)
  BY DEF Closed, ClosedUnder, BelowOf
<1> QED
  BY <1>1 DEF Owned, Reach

LEMMA HeapIsForest ==
  ASSUME NEW cells, NEW tops, IsHeap(cells, tops)
  PROVE  Forest(DOMAIN cells, BelowOf(cells), tops)
<1>1. \A S \in SUBSET DOMAIN cells : Closed(cells, S) <=> ClosedUnder(BelowOf(cells), S)
  BY DEF Closed, ClosedUnder, BelowOf
<1>2. \A a \in DOMAIN cells : BelowOf(cells)[a] = Below(cells[a])
  BY DEF BelowOf
<1>3. ASSUME NEW a \in DOMAIN cells PROVE Below(cells[a]) \subseteq DOMAIN cells
  <2>1. IsCell(cells, cells[a])
    BY DEF IsHeap
  <2> QED
    BY <2>1 DEF IsCell, Refers, Below, AddressesIn
<1> QED
  BY <1>1, <1>2, <1>3 DEF IsHeap, IsForest, Forest

LEMMA ForestIsHeap ==
  ASSUME NEW cells, NEW tops, Forest(DOMAIN cells, BelowOf(cells), tops),
         \A a \in DOMAIN cells : OnHeap(cells[a].type) /\ IsCell(cells, cells[a])
  PROVE  IsHeap(cells, tops)
<1>1. \A S \in SUBSET DOMAIN cells : Closed(cells, S) <=> ClosedUnder(BelowOf(cells), S)
  BY DEF Closed, ClosedUnder, BelowOf
<1>2. \A a \in DOMAIN cells : BelowOf(cells)[a] = Below(cells[a])
  BY DEF BelowOf
<1> QED
  BY <1>1, <1>2 DEF IsHeap, IsForest, Forest

\* Jsons refer as they did where the cells they refer to are as they were.
LEMMA RefersStays ==
  ASSUME NEW cells, NEW f, Refers(cells, f), NEW later,
         \A b \in AddressesIn(f) : b \in DOMAIN later /\ later[b].type = cells[b].type
  PROVE  Refers(later, f)
BY DEF Refers, AddressesIn

LEMMA CellStays ==
  ASSUME NEW cells, NEW cell, IsCell(cells, cell), NEW later,
         \A b \in Below(cell) : b \in DOMAIN later /\ later[b].type = cells[b].type
  PROVE  IsCell(later, cell)
<1>1. cell.type # "string" => Refers(later, cell.content)
  <2>1. SUFFICES ASSUME cell.type # "string" PROVE Refers(later, cell.content)
    OBVIOUS
  <2>2. Refers(cells, cell.content) /\ Below(cell) = AddressesIn(cell.content)
    BY <2>1 DEF IsCell, Below
  <2> QED
    BY <2>2, RefersStays
<1> QED
  BY <1>1 DEF IsCell

\* A Json that is a top is cleared.
LEMMA TopFreed ==
  ASSUME NEW cells, NEW tops, IsHeap(cells, tops), NEW j, OnHeap(j.type), j.content \in tops
  PROVE  /\ IsHeap(Free(cells, j), tops \ {j.content})
         /\ DOMAIN Free(cells, j) \subseteq DOMAIN cells
         /\ \A a \in DOMAIN Free(cells, j) : Free(cells, j)[a] = cells[a]
<1> DEFINE later == Free(cells, j)
           K == DOMAIN cells
           T == Reach(K, BelowOf(cells), j.content)
<1>1. Owned(cells, j) = T
  BY OwnedIs
<1>2. DOMAIN later = K \ T /\ \A a \in K \ T : later[a] = cells[a]
  BY <1>1 DEF Free
<1>3. Forest(K, BelowOf(cells), tops)
  BY HeapIsForest
<1>4. \A a \in K \ T : BelowOf(later)[a] = BelowOf(cells)[a]
  BY <1>2 DEF BelowOf
<1> HIDE DEF later
<1>5. Forest(K \ T, BelowOf(later), tops \ {j.content})
  BY <1>3, <1>4, CutOff
<1> HIDE DEF T
<1>6. ASSUME NEW a \in K \ T PROVE OnHeap(later[a].type) /\ IsCell(later, later[a])
  <2>1. Below(cells[a]) \subseteq K \ T
    BY <1>2, <1>5 DEF Forest, BelowOf
  <2>2. IsCell(cells, cells[a]) /\ OnHeap(cells[a].type)
    BY DEF IsHeap
  <2>3. \A b \in Below(cells[a]) : b \in DOMAIN later /\ later[b].type = cells[b].type
    BY <1>2, <2>1
  <2>4. IsCell(later, cells[a])
    BY <2>2, <2>3, CellStays
  <2> QED
    BY <1>2, <2>2, <2>4
<1>7. IsHeap(later, tops \ {j.content})
  BY <1>2, <1>5, <1>6, ForestIsHeap
<1> QED
  BY <1>2, <1>7 DEF later

\* A Json that is a top, with what it owns.
LEMMA TopImage ==
  ASSUME NEW cells, NEW tops, IsHeap(cells, tops), NEW j,
         OnHeap(j.type) => j.content \in tops /\ cells[j.content].type = j.type
  PROVE  IsImage(Image(cells, j))
<1> DEFINE im == Image(cells, j)
           K == DOMAIN cells
           T == Owned(cells, j)
           B == BelowOf(im.cells)
<1>1. im.json = j /\ DOMAIN im.cells = T /\ T \subseteq K /\ \A a \in T : im.cells[a] = cells[a]
  BY DEF Image, Owned
<1>2. \A a \in T : B[a] = BelowOf(cells)[a]
  BY <1>1 DEF BelowOf
<1>3. AddressesIn(<<j>>) = IF OnHeap(j.type) THEN {j.content} ELSE {}
  BY DEF AddressesIn
<1> HIDE DEF im, T
<1>4. Forest(T, B, AddressesIn(<<j>>))
  <2>1. CASE OnHeap(j.type)
    <3>1. T = Reach(K, BelowOf(cells), j.content)
      BY <2>1, OwnedIs DEF T
    <3>2. Forest(K, BelowOf(cells), tops)
      BY HeapIsForest
    <3> HIDE DEF B
    <3>3. Forest(Reach(K, BelowOf(cells), j.content), B, {j.content})
      BY <1>2, <2>1, <3>1, <3>2, OwnForest
    <3> QED
      BY <1>3, <2>1, <3>1, <3>3
  <2>2. CASE ~OnHeap(j.type)
    <3>1. T = {}
      BY <2>2, OwnedIs DEF T
    <3> QED
      BY <1>3, <2>2, <3>1 DEF Forest
  <2> QED
    BY <2>1, <2>2
<1>5. ASSUME NEW a \in T PROVE OnHeap(im.cells[a].type) /\ IsCell(im.cells, im.cells[a])
  <2>1. Below(cells[a]) \subseteq T
    BY <1>1, <1>4 DEF Forest, BelowOf
  <2>2. IsCell(cells, cells[a]) /\ OnHeap(cells[a].type)
    BY <1>1 DEF IsHeap
  <2>3. \A b \in Below(cells[a]) : b \in DOMAIN im.cells /\ im.cells[b].type = cells[b].type
    BY <1>1, <2>1
  <2>4. IsCell(im.cells, cells[a])
    BY <2>2, <2>3, CellStays
  <2> QED
    BY <1>1, <2>2, <2>4
<1>6. IsHeap(im.cells, AddressesIn(<<im.json>>))
  BY <1>1, <1>4, <1>5, ForestIsHeap
<1>7. Refers(im.cells, <<j>>)
  <2>1. OnHeap(j.type) => j.content \in T
    BY <1>3, <1>4 DEF Forest
  <2> QED
    BY <1>1, <2>1 DEF Refers
<1> QED
  BY <1>1, <1>6, <1>7 DEF IsImage, im

LEMMA RenamedAddresses ==
  ASSUME NEW at, NEW f
  PROVE  AddressesIn([i \in DOMAIN f |-> Renamed(at, f[i])]) = {at[a] : a \in AddressesIn(f)}
<1> DEFINE g == [i \in DOMAIN f |-> Renamed(at, f[i])]
<1>1. \A i \in DOMAIN f : g[i].type = f[i].type /\ (OnHeap(f[i].type) => g[i].content = at[f[i].content])
  BY DEF Renamed, Scalar
<1>2. DOMAIN g = DOMAIN f
  OBVIOUS
<1> HIDE DEF g
<1>3. AddressesIn(g) = {at[a] : a \in AddressesIn(f)}
  BY <1>1, <1>2 DEF AddressesIn
<1> QED
  BY <1>3 DEF g

LEMMA RenamedRefers ==
  ASSUME NEW cells, NEW f, Refers(cells, f), NEW at, \A a, b \in DOMAIN cells : at[a] = at[b] => a = b,
         NEW later, \A a \in DOMAIN cells : at[a] \in DOMAIN later /\ later[at[a]].type = cells[a].type
  PROVE  Refers(later, [i \in DOMAIN f |-> Renamed(at, f[i])])
<1> DEFINE g == [i \in DOMAIN f |-> Renamed(at, f[i])]
<1>1. \A i \in DOMAIN f : g[i].type = f[i].type /\ (OnHeap(f[i].type) => g[i].content = at[f[i].content])
  BY DEF Renamed, Scalar
<1>2. DOMAIN g = DOMAIN f
  OBVIOUS
<1> HIDE DEF g
<1>3. Refers(later, g)
  BY <1>1, <1>2 DEF Refers
<1> QED
  BY <1>3 DEF g

\* An image is written to memory that was not in use: its Json becomes a top.
LEMMA ImageCopied ==
  ASSUME NEW cells, NEW tops, IsHeap(cells, tops), NEW image, IsImage(image), NEW at \in Places(cells, image)
  PROVE  /\ IsHeap(Copied(cells, image, at), tops \cup AddressesIn(<<Renamed(at, image.json)>>))
         /\ AddressesIn(<<Renamed(at, image.json)>>) \cap DOMAIN cells = {}
         /\ Refers(Copied(cells, image, at), <<Renamed(at, image.json)>>)
         /\ DOMAIN cells \subseteq DOMAIN Copied(cells, image, at)
         /\ \A a \in DOMAIN cells : Copied(cells, image, at)[a] = cells[a]
<1> DEFINE later == Copied(cells, image, at)
           K == DOMAIN cells
           I == DOMAIN image.cells
           N == {at[a] : a \in I}
           top == AddressesIn(<<image.json>>)
<1>1. DOMAIN at = I /\ N \cap K = {} /\ \A a, b \in I : at[a] = at[b] => a = b
  BY DEF Places, Unused
<1>2. DOMAIN later = K \cup N /\ \A a \in K : later[a] = cells[a]
  BY <1>1 DEF Copied
<1>3. ASSUME NEW a \in I PROVE later[at[a]] = Rewritten(at, image.cells[a])
  <2>1. at[a] \in N /\ at[a] \notin K
    BY <1>1
  <2>2. (CHOOSE b \in DOMAIN at : at[b] = at[a]) = a
    BY <1>1
  <2> QED
    BY <1>1, <2>1, <2>2 DEF Copied
<1> HIDE DEF later
<1>4. /\ Forest(I, BelowOf(image.cells), top) /\ Refers(image.cells, <<image.json>>)
      /\ \A a \in I : OnHeap(image.cells[a].type) /\ IsCell(image.cells, image.cells[a])
  BY HeapIsForest DEF IsImage, IsHeap
<1>5. ASSUME NEW a \in I PROVE later[at[a]].type = image.cells[a].type
  <2> DEFINE cell == image.cells[a]
             g == [i \in DOMAIN cell.content |-> Renamed(at, cell.content[i])]
  <2>1. later[at[a]] = IF cell.type = "string" THEN cell ELSE Scalar(cell.type, g)
    BY <1>3 DEF Rewritten
  <2> HIDE DEF g
  <2> QED
    BY <2>1 DEF Scalar
<1>6. ASSUME NEW a \in I PROVE Below(later[at[a]]) = {at[b] : b \in Below(image.cells[a])}
  <2>1. CASE image.cells[a].type = "string"
    BY <1>3, <2>1 DEF Rewritten, Below
  <2>2. CASE image.cells[a].type # "string"
    <3> DEFINE f == image.cells[a].content
           g == [i \in DOMAIN f |-> Renamed(at, f[i])]
    <3>0. later[at[a]] = Scalar(image.cells[a].type, g)
      BY <1>3, <2>2 DEF Rewritten
    <3> HIDE DEF g
    <3>1. later[at[a]].content = g
      BY <3>0 DEF Scalar
    <3>2. later[at[a]].type # "string"
      BY <1>5, <2>2
    <3> HIDE DEF f
    <3>3. Below(later[at[a]]) = {at[b] : b \in AddressesIn(f)}
      BY <3>1, <3>2, RenamedAddresses DEF Below, g
    <3> QED
      BY <2>2, <3>3 DEF Below, f
  <2> QED
    BY <2>1, <2>2
<1>7. Forest(K \cup N, BelowOf(later), tops \cup {at[b] : b \in top})
  <2> DEFINE R2 == [b \in N |-> Below(later[b])]
  <2>1. \A a \in I : R2[at[a]] = {at[b] : b \in BelowOf(image.cells)[a]}
    BY <1>6 DEF BelowOf
  <2>2. \A b \in N : BelowOf(later)[b] = R2[b]
    BY <1>2 DEF BelowOf
  <2>3. \A b \in K : BelowOf(later)[b] = BelowOf(cells)[b]
    BY <1>2 DEF BelowOf
  <2> HIDE DEF R2
  <2>4. Forest(N, R2, {at[b] : b \in top})
    <3> DEFINE B == BelowOf(image.cells)
    <3>1. \A a \in I : R2[at[a]] = {at[b] : b \in B[a]}
      BY <2>1
    <3>2. Forest(I, B, top)
      BY <1>4
    <3> HIDE DEF I, B, top
    <3> QED
      BY <1>1, <3>1, <3>2, ForestElsewhere
  <2>5. Forest(K, BelowOf(cells), tops)
    BY HeapIsForest
  <2> HIDE DEF N, K, top
  <2>6. K \cap N = {}
    BY <1>1
  <2> QED
    BY <2>2, <2>3, <2>4, <2>5, <2>6, SideBySide
<1>8. AddressesIn(<<Renamed(at, image.json)>>) = {at[b] : b \in top}
  BY DEF AddressesIn, Renamed, Scalar
<1>9. ASSUME NEW a \in K PROVE OnHeap(later[a].type) /\ IsCell(later, later[a])
  <2>1. IsCell(cells, cells[a]) /\ OnHeap(cells[a].type)
    BY DEF IsHeap
  <2>2. Below(cells[a]) \subseteq K
    BY <2>1 DEF IsCell, Refers, Below, AddressesIn
  <2>3. IsCell(later, cells[a])
    BY <1>2, <2>1, <2>2, CellStays
  <2> QED
    BY <1>2, <2>1, <2>3
<1>10. ASSUME NEW a \in I PROVE OnHeap(later[at[a]].type) /\ IsCell(later, later[at[a]])
  <2> DEFINE cell == image.cells[a]
             f == cell.content
             g == [i \in DOMAIN f |-> Renamed(at, f[i])]
  <2>1. IsCell(image.cells, cell) /\ OnHeap(cell.type)
    BY <1>4
  <2>2. CASE cell.type = "string"
    <3>1. later[at[a]] = cell
      BY <1>3, <2>2 DEF Rewritten
    <3> QED
      BY <2>1, <2>2, <3>1 DEF IsCell
  <2>3. CASE cell.type # "string"
    <3>1. later[at[a]] = Scalar(cell.type, g)
      BY <1>3, <2>3 DEF Rewritten
    <3>2. Refers(image.cells, f)
      BY <2>1, <2>3 DEF IsCell
    <3>3. Refers(later, g)
      <4>1. \A b \in I : at[b] \in DOMAIN later
        BY <1>2
      <4> HIDE DEF f, cell
      <4> QED
        BY <1>1, <1>5, <3>2, <4>1, RenamedRefers
    <3>4. cell.type = "array" => g \in Seq({g[i] : i \in DOMAIN g})
      <4>1. SUFFICES ASSUME cell.type = "array" PROVE g \in Seq({g[i] : i \in DOMAIN g})
        OBVIOUS
      <4>2. f \in Seq({f[i] : i \in DOMAIN f})
        BY <2>1, <4>1 DEF IsCell
      <4>3. Len(f) \in Nat /\ DOMAIN f = 1..Len(f)
        BY <4>2
      <4>4. DOMAIN g = 1..Len(f) /\ \A i \in 1..Len(f) : g[i] \in {g[k] : k \in DOMAIN g}
        BY <4>3
      <4>5. g = [i \in 1..Len(f) |-> g[i]]
        BY <4>3
      <4> HIDE DEF g, f
      <4> QED
        BY <4>3, <4>4, <4>5, IsSeqOf
    <3> HIDE DEF g
    <3>5. later[at[a]].type = cell.type /\ later[at[a]].content = g
      BY <3>1 DEF Scalar
    <3> QED
      BY <2>1, <3>1, <3>3, <3>4, <3>5 DEF IsCell
  <2> QED
    BY <2>2, <2>3
<1>11. \A b \in DOMAIN later : OnHeap(later[b].type) /\ IsCell(later, later[b])
  BY <1>2, <1>9, <1>10
<1>12. IsHeap(later, tops \cup {at[b] : b \in top})
  BY <1>2, <1>7, <1>11, ForestIsHeap
<1>13. Refers(later, <<Renamed(at, image.json)>>)
  BY <1>1, <1>2, <1>4, <1>5 DEF Refers, Renamed, Scalar
<1>14. {at[b] : b \in top} \cap K = {}
  <2>1. top \subseteq I
    BY <1>4 DEF Forest
  <2> QED
    BY <1>1, <2>1
<1> QED
  BY <1>2, <1>8, <1>12, <1>13, <1>14 DEF later

-----------------------------------------------------------------------------
(* Jsons added, taken and rearranged *)

HeapOf(cells, f) == IsHeap(cells, AddressesIn(f)) /\ Refers(cells, f)

LEMMA AddressesOfOne ==
  ASSUME NEW j
  PROVE  AddressesIn(<<j>>) = IF OnHeap(j.type) THEN {j.content} ELSE {}
BY DEF AddressesIn

IsArray(s) == s \in Seq({s[i] : i \in DOMAIN s})

\* A Json is put where there was none, or one that refers to nothing.
Puts(f, k, x, g) ==
  /\ k \in DOMAIN f => ~OnHeap(f[k].type)
  /\ DOMAIN g = DOMAIN f \cup {k} /\ g[k] = x /\ \A i \in DOMAIN f : i # k => g[i] = f[i]

\* One is taken away; the others may move.
Drops(f, k, g) ==
  /\ \A i \in DOMAIN f : i # k => \E l \in DOMAIN g : g[l] = f[i]
  /\ \A l \in DOMAIN g : OnHeap(g[l].type) => \E i \in DOMAIN f : i # k /\ g[l] = f[i]

\* A cell is written.
Writes(cells, a, cell, later) ==
  /\ DOMAIN later = DOMAIN cells /\ later[a] = cell
  /\ \A b \in DOMAIN cells : b # a => later[b] = cells[b]

LEMMA JsonAdded ==
  ASSUME NEW cells, NEW f, Refers(cells, f), NEW x, Refers(cells, <<x>>),
         AddressesIn(f) \cap AddressesIn(<<x>>) = {}, NEW k, NEW g, Puts(f, k, x, g)
  PROVE  Refers(cells, g) /\ AddressesIn(g) = AddressesIn(f) \cup AddressesIn(<<x>>)
<1>0. /\ k \in DOMAIN f => ~OnHeap(f[k].type)
      /\ DOMAIN g = DOMAIN f \cup {k} /\ g[k] = x /\ \A i \in DOMAIN f : i # k => g[i] = f[i]
  BY DEF Puts
<1>1. OnHeap(x.type) => x.content \in DOMAIN cells /\ cells[x.content].type = x.type
  BY DEF Refers
<1>2. OnHeap(x.type) => x.content \notin AddressesIn(f)
  BY AddressesOfOne
<1>3. \A i \in DOMAIN f : OnHeap(f[i].type) => i # k /\ f[i].content \in AddressesIn(f)
  BY <1>0 DEF AddressesIn
<1>4. \A i \in DOMAIN g : OnHeap(g[i].type) =>
        g[i].content \in DOMAIN cells /\ cells[g[i].content].type = g[i].type
  BY <1>0, <1>1 DEF Refers
<1>5. ASSUME NEW i \in DOMAIN g, NEW l \in DOMAIN g, OnHeap(g[i].type), i # l, OnHeap(g[l].type)
      PROVE  g[l].content # g[i].content
  <2>1. CASE i = k
    BY <1>0, <1>2, <1>3, <1>5, <2>1
  <2>2. CASE l = k
    BY <1>0, <1>2, <1>3, <1>5, <2>2
  <2>3. CASE i # k /\ l # k
    BY <1>0, <1>5, <2>3 DEF Refers
  <2> QED
    BY <2>1, <2>2, <2>3
<1>6. Refers(cells, g)
  BY <1>4, <1>5 DEF Refers
<1>7. AddressesIn(g) \subseteq AddressesIn(f) \cup AddressesIn(<<x>>)
  BY <1>0, AddressesOfOne DEF AddressesIn
<1>8. AddressesIn(f) \subseteq AddressesIn(g)
  BY <1>0, <1>3 DEF AddressesIn
<1>9. AddressesIn(<<x>>) \subseteq AddressesIn(g)
  BY <1>0, AddressesOfOne DEF AddressesIn
<1> QED
  BY <1>6, <1>7, <1>8, <1>9

\* Jsons are put in other places, some of them left out.
LEMMA Rearranged ==
  ASSUME NEW cells, NEW f, Refers(cells, f), NEW g, NEW p,
         \A i \in DOMAIN g : p[i] \in DOMAIN f /\ g[i] = f[p[i]],
         \A i, k \in DOMAIN g : i # k => p[i] # p[k]
  PROVE  Refers(cells, g)
<1>1. \A i \in DOMAIN g : OnHeap(g[i].type) =>
        g[i].content \in DOMAIN cells /\ cells[g[i].content].type = g[i].type
  BY DEF Refers
<1>2. ASSUME NEW i \in DOMAIN g, NEW k \in DOMAIN g, OnHeap(g[i].type), i # k
      PROVE  g[k].content # g[i].content \/ ~OnHeap(g[k].type)
  BY <1>2 DEF Refers
<1> QED
  BY <1>1, <1>2 DEF Refers

\* A Json is taken away: what was left refers to the rest.
LEMMA JsonTaken ==
  ASSUME NEW cells, NEW f, Refers(cells, f), NEW k \in DOMAIN f, NEW g, Drops(f, k, g)
  PROVE  AddressesIn(g) = AddressesIn(f) \ AddressesIn(<<f[k]>>)
<1>1. AddressesIn(<<f[k]>>) = IF OnHeap(f[k].type) THEN {f[k].content} ELSE {}
  BY AddressesOfOne
<1>2. ASSUME NEW a \in AddressesIn(g) PROVE a \in AddressesIn(f) /\ a \notin AddressesIn(<<f[k]>>)
  <2>1. PICK l \in DOMAIN g : OnHeap(g[l].type) /\ a = g[l].content
    BY <1>2 DEF AddressesIn
  <2>2. PICK i \in DOMAIN f : i # k /\ g[l] = f[i]
    BY <2>1 DEF Drops
  <2> QED
    BY <1>1, <2>1, <2>2 DEF Refers, AddressesIn
<1>3. ASSUME NEW a \in AddressesIn(f), a \notin AddressesIn(<<f[k]>>) PROVE a \in AddressesIn(g)
  <2>1. PICK i \in DOMAIN f : OnHeap(f[i].type) /\ a = f[i].content
    BY <1>3 DEF AddressesIn
  <2>2. i # k
    BY <1>1, <1>3, <2>1
  <2> QED
    BY <2>1, <2>2 DEF Drops, AddressesIn
<1> QED
  BY <1>2, <1>3

LEMMA AddressIn ==
  ASSUME NEW f, NEW k \in DOMAIN f
  PROVE  AddressesIn(<<f[k]>>) \subseteq AddressesIn(f)
BY AddressesOfOne DEF AddressesIn

-----------------------------------------------------------------------------
(* heaps *)

LEMMA HeapSame ==
  ASSUME NEW cells, NEW tops, IsHeap(cells, tops),
         NEW later, DOMAIN later = DOMAIN cells, \A a \in DOMAIN cells : later[a] = cells[a]
  PROVE  IsHeap(later, tops)
<1> DEFINE B == BelowOf(later)
<1>1. Forest(DOMAIN cells, BelowOf(cells), tops)
  BY HeapIsForest
<1>2. \A a \in DOMAIN cells : B[a] = BelowOf(cells)[a]
  BY DEF BelowOf
<1> HIDE DEF B
<1>3. Forest(DOMAIN cells, B, tops)
  BY <1>1, <1>2 DEF Forest, ClosedUnder
<1>4. ASSUME NEW a \in DOMAIN cells PROVE OnHeap(later[a].type) /\ IsCell(later, later[a])
  <2>1. IsCell(cells, cells[a]) /\ OnHeap(cells[a].type)
    BY DEF IsHeap
  <2>2. \A b \in Below(cells[a]) : b \in DOMAIN later /\ later[b].type = cells[b].type
    BY <1>1 DEF Forest, BelowOf
  <2> QED
    BY <2>1, <2>2, CellStays
<1> QED
  BY <1>3, <1>4, ForestIsHeap DEF B

\* Jsons pass between a cell that is a top and the tops.
LEMMA HeapShifted ==
  ASSUME NEW cells, NEW G, IsHeap(cells, G), NEW a \in G, NEW H, a \in H,
         NEW cell, cell.type = cells[a].type, IsCell(cells, cell), NEW later, Writes(cells, a, cell, later),
         Below(cell) \cup H = Below(cells[a]) \cup G, Below(cell) \cap H = {}
  PROVE  IsHeap(later, H)
<1>0. /\ DOMAIN later = DOMAIN cells /\ later[a] = cell
      /\ \A b \in DOMAIN cells : b # a => later[b] = cells[b]
  BY DEF Writes
<1> DEFINE B == BelowOf(later)
           R == BelowOf(cells)
           K == DOMAIN cells
<1>1. Forest(K, R, G)
  BY HeapIsForest
<1>2. a \in K /\ \A b \in K : R[b] \subseteq K
  BY <1>1 DEF Forest
<1>3. /\ \A b \in K : b # a => B[b] = R[b]
      /\ B[a] = Below(cell) /\ R[a] = Below(cells[a])
  BY <1>0, <1>2 DEF BelowOf
<1>4. Forest(K, B, H)
  <2> HIDE DEF B, R, K
  <2> QED
    BY <1>1, <1>3, Shifted
<1>5. \A b \in K : later[b].type = cells[b].type
  BY <1>0
<1>6. ASSUME NEW b \in K PROVE OnHeap(later[b].type) /\ IsCell(later, later[b])
  <2>1. IsCell(cells, later[b]) /\ OnHeap(cells[b].type)
    BY <1>0 DEF IsHeap
  <2>2. Below(later[b]) \subseteq K
    BY <1>0, <1>4 DEF Forest, BelowOf
  <2> QED
    BY <1>0, <1>5, <2>1, <2>2, CellStays
<1> QED
  BY <1>0, <1>4, <1>6, ForestIsHeap

\* A container that is a top is not among what its Jsons own.
LEMMA ContainerStays ==
  ASSUME NEW cells, NEW G, IsHeap(cells, G), NEW a \in G, cells[a].type # "string",
         NEW k \in DOMAIN cells[a].content
  PROVE  a \in DOMAIN Free(cells, cells[a].content[k])
<1> DEFINE j == cells[a].content[k]
           R == BelowOf(cells)
           K == DOMAIN cells
<1>1. Forest(K, R, G)
  BY HeapIsForest
<1>2. a \in K
  BY <1>1 DEF Forest
<1>3. a \notin Owned(cells, j)
  <2>1. CASE ~OnHeap(j.type)
    BY <2>1, OwnedIs
  <2>2. CASE OnHeap(j.type)
    <3>1. j.content \in R[a]
      <4>1. j.content \in Below(cells[a])
        BY <2>2 DEF Below, AddressesIn
      <4> QED
        BY <1>2, <4>1 DEF BelowOf
    <3> DEFINE T == Reach(K, R, j.content)
               R2 == [b \in K |-> IF b = a THEN R[a] \ {j.content} ELSE R[b]]
    <3>2. R2[a] = R[a] \ {j.content} /\ \A b \in K \ Reach(K, R, j.content) : b # a => R2[b] = R[b]
      BY <1>2
    <3>3. Owned(cells, j) = T
      BY <2>2, OwnedIs
    <3> HIDE DEF R2, R, K, j
    <3>4. a \notin T
      BY <1>1, <3>1, <3>2, ChildCutOff
    <3> QED
      BY <3>3, <3>4
  <2> QED
    BY <2>1, <2>2
<1> QED
  BY <1>2, <1>3 DEF Free

\* A container that is a top loses a Json, which is cleared.
LEMMA ChildFreed ==
  ASSUME NEW cells, NEW G, IsHeap(cells, G), NEW a \in G, cells[a].type # "string",
         NEW k \in DOMAIN cells[a].content,
         NEW later, DOMAIN later = DOMAIN Free(cells, cells[a].content[k]),
         \A b \in DOMAIN later : b # a => later[b] = cells[b],
         later[a].type = cells[a].type, IsCell(cells, later[a]),
         Below(later[a]) = Below(cells[a]) \ AddressesIn(<<cells[a].content[k]>>)
  PROVE  IsHeap(later, G)
<1> DEFINE j == cells[a].content[k]
           B == BelowOf(later)
           R == BelowOf(cells)
           K == DOMAIN cells
           T == Reach(K, R, j.content)
<1>1. Forest(K, R, G)
  BY HeapIsForest
<1>2. a \in K /\ \A b \in K : R[b] \subseteq K
  BY <1>1 DEF Forest
<1>3. AddressesIn(<<j>>) = IF OnHeap(j.type) THEN {j.content} ELSE {}
  BY AddressesOfOne
<1>4. CASE ~OnHeap(j.type)
  <2>1. Owned(cells, j) = {}
    BY <1>4, OwnedIs
  <2>2. DOMAIN later = K
    BY <2>1 DEF Free
  <2>3. Below(later[a]) = Below(cells[a])
    BY <1>3, <1>4
  <2>4. Below(cells[a]) \cap G = {}
    BY <1>1, <1>2 DEF Forest, BelowOf
  <2>5. Writes(cells, a, later[a], later)
    BY <2>2 DEF Writes
  <2>6. IsHeap(later, G)
    BY <2>3, <2>4, <2>5, HeapShifted
  <2> QED
    BY <2>6
<1>5. CASE OnHeap(j.type)
  <2>1. Owned(cells, j) = T
    BY <1>5, OwnedIs
  <2>2. DOMAIN later = K \ T
    BY <2>1 DEF Free
  <2>3. j.content \in R[a]
    <3>1. j.content \in Below(cells[a])
      BY <1>5 DEF Below, AddressesIn
    <3> QED
      BY <1>2, <3>1 DEF BelowOf
  <2>4. a \notin T
    BY <2>2, ContainerStays
  <2>5. B[a] = R[a] \ {j.content} /\ \A b \in K \ T : b # a => B[b] = R[b]
    BY <1>2, <1>3, <1>5, <2>2, <2>4 DEF BelowOf
  <2>6. Forest(K \ T, B, G)
    <3> HIDE DEF R, K, j, B
    <3> QED
      BY <1>1, <2>3, <2>5, ChildCutOff DEF T
  <2> HIDE DEF T
  <2>7. ASSUME NEW b \in K \ T PROVE OnHeap(later[b].type) /\ IsCell(later, later[b])
    <3>1. IsCell(cells, later[b]) /\ OnHeap(cells[b].type) /\ later[b].type = cells[b].type
      BY <2>2 DEF IsHeap
    <3>2. Below(later[b]) \subseteq K \ T
      BY <2>2, <2>6 DEF Forest, BelowOf
    <3>3. \A d \in K \ T : later[d].type = cells[d].type
      BY <2>2
    <3> QED
      BY <2>2, <3>1, <3>2, <3>3, CellStays
  <2>8. IsHeap(later, G)
    BY <2>2, <2>6, <2>7, ForestIsHeap
  <2> QED
    BY <2>8
<1> QED
  BY <1>4, <1>5

-----------------------------------------------------------------------------
(* Json variables *)

LEMMA TopsInHeap ==
  ASSUME NEW cells, NEW f, HeapOf(cells, f)
  PROVE  AddressesIn(f) \subseteq DOMAIN cells
BY DEF HeapOf, Refers, AddressesIn

LEMMA VariableCleared ==
  ASSUME NEW cells, NEW f, HeapOf(cells, f), NEW n \in DOMAIN f,
         NEW g, DOMAIN g = DOMAIN f, ~OnHeap(g[n].type), \A m \in DOMAIN f : m # n => g[m] = f[m]
  PROVE  HeapOf(Free(cells, f[n]), g)
<1> DEFINE later == Free(cells, f[n])
<1>1. Refers(cells, f) /\ IsHeap(cells, AddressesIn(f))
  BY DEF HeapOf
<1>2. Refers(cells, g)
  BY <1>1 DEF Refers
<1>3. AddressesIn(g) = AddressesIn(f) \ AddressesIn(<<f[n]>>)
  <2>1. Drops(f, n, g)
    BY DEF Drops
  <2> QED
    BY <1>1, <2>1, JsonTaken
<1>4. IsHeap(later, AddressesIn(g)) /\ \A b \in DOMAIN later : b \in DOMAIN cells /\ later[b] = cells[b]
  <2>1. CASE OnHeap(f[n].type)
    <3>1. AddressesIn(<<f[n]>>) = {f[n].content}
      BY <2>1, AddressesOfOne
    <3>2. f[n].content \in AddressesIn(f)
      BY <2>1 DEF AddressesIn
    <3> QED
      BY <1>1, <1>3, <2>1, <3>1, <3>2, TopFreed
  <2>2. CASE ~OnHeap(f[n].type)
    <3>1. AddressesIn(<<f[n]>>) = {} /\ Owned(cells, f[n]) = {}
      BY <2>2, AddressesOfOne, OwnedIs
    <3>2. DOMAIN later = DOMAIN cells /\ \A b \in DOMAIN cells : later[b] = cells[b]
      BY <3>1 DEF Free
    <3>3. AddressesIn(g) = AddressesIn(f)
      BY <1>3, <3>1
    <3> HIDE DEF later
    <3> QED
      BY <1>1, <3>2, <3>3, HeapSame
  <2> QED
    BY <2>1, <2>2
<1>5. AddressesIn(g) \subseteq DOMAIN later
  BY <1>4 DEF IsHeap, IsForest
<1>6. Refers(later, g)
  BY <1>2, <1>4, <1>5, RefersStays
<1> QED
  BY <1>4, <1>6 DEF HeapOf

LEMMA ImageAdded ==
  ASSUME NEW cells, NEW f, HeapOf(cells, f), NEW n, n \in DOMAIN f => ~OnHeap(f[n].type),
         NEW image, IsImage(image), NEW at \in Places(cells, image),
         NEW g, DOMAIN g = DOMAIN f \cup {n}, g[n] = Renamed(at, image.json),
         \A m \in DOMAIN f : m # n => g[m] = f[m]
  PROVE  HeapOf(Copied(cells, image, at), g)
<1> DEFINE later == Copied(cells, image, at)
           x == Renamed(at, image.json)
<1>1. IsHeap(cells, AddressesIn(f)) /\ Refers(cells, f) /\ AddressesIn(f) \subseteq DOMAIN cells
  BY TopsInHeap DEF HeapOf
<1>2. /\ IsHeap(later, AddressesIn(f) \cup AddressesIn(<<x>>))
      /\ AddressesIn(<<x>>) \cap DOMAIN cells = {} /\ Refers(later, <<x>>)
      /\ DOMAIN cells \subseteq DOMAIN later /\ \A a \in DOMAIN cells : later[a] = cells[a]
  BY <1>1, ImageCopied
<1> HIDE DEF later, x
<1>3. Refers(later, f)
  BY <1>1, <1>2, RefersStays
<1>4. AddressesIn(f) \cap AddressesIn(<<x>>) = {}
  BY <1>1, <1>2
<1>5. Refers(later, g) /\ AddressesIn(g) = AddressesIn(f) \cup AddressesIn(<<x>>)
  <2>1. Puts(f, n, x, g)
    BY DEF Puts, x
  <2> QED
    BY <1>2, <1>3, <1>4, <2>1, JsonAdded
<1> QED
  BY <1>2, <1>5 DEF HeapOf, later

LEMMA VariableImage ==
  ASSUME NEW cells, NEW f, HeapOf(cells, f), NEW n \in DOMAIN f
  PROVE  IsImage(Image(cells, f[n]))
<1>1. OnHeap(f[n].type) => f[n].content \in AddressesIn(f) /\ cells[f[n].content].type = f[n].type
  BY DEF HeapOf, Refers, AddressesIn
<1> QED
  BY <1>1, TopImage DEF HeapOf

JsonInv == HeapOf(memory, root) /\ DOMAIN root = Names

LEMMA BecomesKeeps ==
  ASSUME JsonInv, NEW n \in Names, NEW image, IsImage(image), Becomes(n, image)
  PROVE  JsonInv'
<1> DEFINE g == [root EXCEPT ![n] = JsonNull]
           cells == Free(memory, root[n])
<1>1. DOMAIN g = Names /\ g[n] = JsonNull /\ ~OnHeap(g[n].type) /\ \A m \in Names : m # n => g[m] = root[m]
  BY DEF JsonInv, JsonNull, Scalar, OnHeap
<1> HIDE DEF g
<1>2. HeapOf(cells, g)
  <2>1. HeapOf(memory, root) /\ DOMAIN root = Names
    BY DEF JsonInv
  <2> QED
    BY <1>1, <2>1, VariableCleared
<1>3. PICK at \in Places(cells, image) :
        memory' = Copied(cells, image, at) /\ root' = [root EXCEPT ![n] = Renamed(at, image.json)]
  BY DEF Becomes
<1>4. /\ DOMAIN root' = Names /\ root'[n] = Renamed(at, image.json)
      /\ \A m \in Names : m # n => root'[m] = root[m]
  BY <1>3 DEF JsonInv
<1> HIDE DEF cells
<1>5. HeapOf(Copied(cells, image, at), root')
  <2>1. DOMAIN root' = DOMAIN g \cup {n} /\ \A m \in DOMAIN g : m # n => root'[m] = g[m]
    BY <1>1, <1>4
  <2> QED
    BY <1>1, <1>2, <1>4, <2>1, ImageAdded
<1> QED
  BY <1>3, <1>4, <1>5 DEF JsonInv, HeapOf

LEMMA CopyAssignKeeps ==
  ASSUME JsonInv, NEW n \in Names, NEW m \in Names, CopyAssign(n, m)
  PROVE  JsonInv'
<1> DEFINE g == [root EXCEPT ![n] = JsonNull]
           cells == Free(memory, root[n])
<1>1. DOMAIN g = Names /\ ~OnHeap(g[n].type) /\ \A i \in Names : i # n => g[i] = root[i]
  BY DEF JsonInv, JsonNull, Scalar, OnHeap
<1> HIDE DEF g
<1>2. HeapOf(cells, g)
  <2>1. HeapOf(memory, root) /\ DOMAIN root = Names
    BY DEF JsonInv
  <2> QED
    BY <1>1, <2>1, VariableCleared
<1>3. n # m /\ Becomes(n, Image(cells, root[m]))
  BY DEF CopyAssign
<1> HIDE DEF cells
<1>4. IsImage(Image(cells, root[m]))
  BY <1>1, <1>2, <1>3, VariableImage
<1> QED
  BY <1>3, <1>4, BecomesKeeps

LEMMA MoveAssignKeeps ==
  ASSUME JsonInv, NEW n \in Names, NEW m \in Names, MoveAssign(n, m)
  PROVE  JsonInv'
<1> DEFINE p == [i \in Names |-> IF i = n THEN m ELSE IF i = m THEN n ELSE i]
<1>1. DOMAIN root' = Names /\ memory' = memory
  BY DEF JsonInv, MoveAssign
<1>2. \A i \in Names : p[i] \in Names /\ root'[i] = root[p[i]] /\ p[p[i]] = i
  BY DEF JsonInv, MoveAssign
<1> HIDE DEF p
<1>3. Refers(memory, root')
  BY <1>1, <1>2, Rearranged DEF JsonInv, HeapOf
<1>4. AddressesIn(root') = AddressesIn(root)
  BY <1>1, <1>2 DEF AddressesIn, JsonInv
<1> QED
  BY <1>1, <1>3, <1>4 DEF JsonInv, HeapOf, IsHeap

LEMMA ClearKeeps ==
  ASSUME JsonInv, NEW n \in Names, Clear(n)
  PROVE  JsonInv'
<1>1. /\ DOMAIN root' = Names /\ ~OnHeap(root'[n].type) /\ memory' = Free(memory, root[n])
      /\ \A m \in Names : m # n => root'[m] = root[m]
  BY DEF JsonInv, Clear, JsonNull, Scalar, OnHeap
<1>2. HeapOf(memory', root')
  BY <1>1, VariableCleared DEF JsonInv
<1> QED
  BY <1>1, <1>2 DEF JsonInv

-----------------------------------------------------------------------------
(* containers *)

LEMMA EmptyAdded ==
  ASSUME NEW cells, NEW G, IsHeap(cells, G), NEW a, a \notin DOMAIN cells, NEW type \in {"array", "object"},
         NEW later, DOMAIN later = DOMAIN cells \cup {a}, later[a] = Scalar(type, <<>>),
         \A b \in DOMAIN cells : later[b] = cells[b]
  PROVE  IsHeap(later, G \cup {a})
<1> DEFINE R2 == [b \in {a} |-> {}]
           B == BelowOf(later)
<1>1. later[a].type = type /\ later[a].content = <<>> /\ later[a] = Scalar(later[a].type, later[a].content)
  BY DEF Scalar
<1>2. Below(later[a]) = {}
  BY <1>1 DEF Below, AddressesIn
<1>3. Forest({a}, R2, {a})
  BY DEF Forest, ClosedUnder
<1>4. Forest(DOMAIN cells, BelowOf(cells), G)
  BY HeapIsForest
<1>5. (\A b \in DOMAIN cells : B[b] = BelowOf(cells)[b]) /\ \A b \in {a} : B[b] = R2[b]
  BY <1>2 DEF BelowOf
<1>6. DOMAIN cells \cap {a} = {}
  OBVIOUS
<1> HIDE DEF R2, B
<1>7. Forest(DOMAIN cells \cup {a}, B, G \cup {a})
  BY <1>3, <1>4, <1>5, <1>6, SideBySide
<1>8. ASSUME NEW b \in DOMAIN cells PROVE OnHeap(later[b].type) /\ IsCell(later, later[b])
  <2>1. IsCell(cells, cells[b]) /\ OnHeap(cells[b].type)
    BY DEF IsHeap
  <2>2. \A d \in Below(cells[b]) : d \in DOMAIN later /\ later[d].type = cells[d].type
    <3>1. Below(cells[b]) \subseteq DOMAIN cells
      BY <1>4 DEF Forest, BelowOf
    <3> QED
      BY <3>1
  <2> QED
    BY <2>1, <2>2, CellStays
<1>9. OnHeap(later[a].type) /\ IsCell(later, later[a])
  <2>1. <<>> \in Seq({<<>>[i] : i \in DOMAIN <<>>})
    OBVIOUS
  <2>2. Refers(later, <<>>)
    BY DEF Refers
  <2> QED
    BY <1>1, <2>1, <2>2 DEF IsCell, OnHeap
<1>10. \A b \in DOMAIN later : OnHeap(later[b].type) /\ IsCell(later, later[b])
  BY <1>8, <1>9
<1> QED
  BY <1>7, <1>10, ForestIsHeap DEF B

LEMMA ContainerIs ==
  ASSUME JsonInv, NEW n \in Names, NEW type \in {"array", "object"}, NEW c \in Containers(n, type),
         NEW g, DOMAIN g = Names, g[n] = c.json, \A m \in Names : m # n => g[m] = root[m]
  PROVE  /\ HeapOf(c.cells, g) /\ DOMAIN g = Names /\ g[n] = c.json /\ OnHeap(g[n].type)
         /\ c.json.content \in AddressesIn(g)
         /\ c.cells[c.json.content].type = type
         /\ IsCell(c.cells, c.cells[c.json.content])
<1>1. DOMAIN g = Names /\ g[n] = c.json /\ \A m \in Names : m # n => g[m] = root[m]
  OBVIOUS
<1>2. HeapOf(memory, root) /\ DOMAIN root = Names
  BY DEF JsonInv
<1>3. HeapOf(c.cells, g) /\ c.json.type = type
  <2>1. CASE root[n].type = type
    <3>1. c.cells = memory /\ c.json = root[n]
      BY <2>1 DEF Containers
    <3>2. \A m \in Names : g[m] = root[m]
      BY <1>1, <3>1
    <3>3. AddressesIn(g) = AddressesIn(root) /\ Refers(memory, g)
      BY <1>1, <1>2, <3>2 DEF AddressesIn, Refers, HeapOf
    <3> QED
      BY <1>2, <2>1, <3>1, <3>3 DEF HeapOf
  <2>2. CASE root[n].type # type
    <3> DEFINE cells == Free(memory, root[n])
               g0 == [root EXCEPT ![n] = JsonNull]
    <3>1. DOMAIN g0 = Names /\ ~OnHeap(g0[n].type) /\ \A m \in Names : m # n => g0[m] = root[m]
      BY <1>2 DEF JsonNull, Scalar, OnHeap
    <3> HIDE DEF g0
    <3>2. HeapOf(cells, g0)
      BY <1>2, <3>1, VariableCleared
    <3>3. PICK a \in Unused(cells) :
            c = [cells |-> With(cells, a, Scalar(type, <<>>)), json |-> Scalar(type, a)]
      BY <2>2 DEF Containers, Emptied
    <3> HIDE DEF cells
    <3>4. c.cells = With(cells, a, Scalar(type, <<>>)) /\ c.json = Scalar(type, a)
      BY <3>3
    <3>5. c.json.type = type /\ c.json.content = a
      BY <3>4 DEF Scalar
    <3>6. a \notin DOMAIN cells
      BY DEF Unused
    <3>7. /\ DOMAIN c.cells = DOMAIN cells \cup {a} /\ c.cells[a] = Scalar(type, <<>>)
          /\ \A b \in DOMAIN cells : c.cells[b] = cells[b]
      BY <3>4, <3>6 DEF With
    <3>8. IsHeap(c.cells, AddressesIn(g0) \cup {a})
      BY <3>2, <3>6, <3>7, EmptyAdded DEF HeapOf
    <3>9. OnHeap(type) /\ AddressesIn(<<c.json>>) = {a}
      BY <3>5, AddressesOfOne DEF OnHeap
    <3>10. Refers(c.cells, <<c.json>>)
      <4>1. c.cells[a].type = type
        BY <3>7 DEF Scalar
      <4> QED
        BY <3>5, <3>7, <4>1 DEF Refers
    <3>11. AddressesIn(g0) \subseteq DOMAIN cells
      BY <3>2, TopsInHeap
    <3>12. Refers(c.cells, g0)
      BY <3>2, <3>7, <3>11, RefersStays DEF HeapOf
    <3>13. AddressesIn(g0) \cap AddressesIn(<<c.json>>) = {}
      BY <3>6, <3>9, <3>11
    <3>14. DOMAIN g = DOMAIN g0 \cup {n} /\ \A m \in DOMAIN g0 : m # n => g[m] = g0[m]
      BY <1>1, <3>1
    <3>15. Refers(c.cells, g) /\ AddressesIn(g) = AddressesIn(g0) \cup AddressesIn(<<c.json>>)
      <4>1. Puts(g0, n, c.json, g)
        BY <1>1, <3>1, <3>14 DEF Puts
      <4> QED
        BY <3>10, <3>12, <3>13, <4>1, JsonAdded
    <3> QED
      BY <3>5, <3>8, <3>9, <3>15 DEF HeapOf
  <2> QED
    BY <2>1, <2>2
<1>4. OnHeap(type)
  BY DEF OnHeap
<1>5. c.json.content \in AddressesIn(g)
  BY <1>1, <1>3, <1>4 DEF AddressesIn
<1>6. c.json.content \in DOMAIN c.cells /\ c.cells[c.json.content].type = type
  BY <1>1, <1>3, <1>4 DEF HeapOf, Refers
<1>7. IsCell(c.cells, c.cells[c.json.content])
  BY <1>3, <1>6 DEF HeapOf, IsHeap
<1> QED
  BY <1>1, <1>3, <1>4, <1>5, <1>6, <1>7

\* A container is given a Json that no variable has.
LEMMA ContainerGrows ==
  ASSUME NEW cells, NEW f, NEW x, IsHeap(cells, AddressesIn(f) \cup AddressesIn(<<x>>)),
         Refers(cells, f), Refers(cells, <<x>>), AddressesIn(f) \cap AddressesIn(<<x>>) = {},
         NEW a \in AddressesIn(f), cells[a].type # "string",
         NEW k, NEW g, Puts(cells[a].content, k, x, g), cells[a].type = "array" => IsArray(g),
         NEW later, Writes(cells, a, Scalar(cells[a].type, g), later)
  PROVE  HeapOf(later, f)
<1> DEFINE X == AddressesIn(<<x>>)
           H == AddressesIn(f)
           cell == Scalar(cells[a].type, g)
<1>1. a \in DOMAIN cells /\ H \subseteq DOMAIN cells
  BY DEF IsHeap, IsForest
<1>2. /\ IsCell(cells, cells[a]) /\ Below(cells[a]) = AddressesIn(cells[a].content)
      /\ Below(cells[a]) \cap (H \cup X) = {}
  BY <1>1 DEF IsHeap, IsForest, Below
<1>3. Refers(cells, cells[a].content)
  BY <1>2 DEF IsCell
<1>4. Refers(cells, g) /\ AddressesIn(g) = AddressesIn(cells[a].content) \cup X
  <2>1. AddressesIn(cells[a].content) \cap AddressesIn(<<x>>) = {}
    BY <1>2
  <2> QED
    BY <1>3, <2>1, JsonAdded
<1>5. cell.type = cells[a].type /\ cell.content = g /\ cell = Scalar(cell.type, cell.content)
  BY DEF Scalar
<1>6. Writes(cells, a, cell, later)
  OBVIOUS
<1> HIDE DEF X, H, cell
<1>7. Below(cell) = Below(cells[a]) \cup X
  BY <1>2, <1>4, <1>5 DEF Below
<1>8. IsCell(cells, cell)
  BY <1>4, <1>5 DEF IsCell, IsArray
<1>9. IsHeap(later, H)
  <2>1. IsHeap(cells, H \cup X) /\ a \in H \cup X /\ a \in H /\ H \cap X = {}
    BY DEF H, X
  <2>2. Below(cell) \cup H = Below(cells[a]) \cup (H \cup X)
    BY <1>7
  <2>3. Below(cell) \cap H = {}
    BY <1>2, <1>7, <2>1
  <2> QED
    BY <1>5, <1>6, <1>8, <2>1, <2>2, <2>3, HeapShifted
<1>10. Refers(later, f)
  <2>1. \A b \in DOMAIN cells : b \in DOMAIN later /\ later[b].type = cells[b].type
    BY <1>5, <1>6 DEF Writes
  <2>2. \A b \in AddressesIn(f) : b \in DOMAIN later /\ later[b].type = cells[b].type
    BY <1>1, <2>1 DEF H
  <2> QED
    BY <2>2, RefersStays
<1> QED
  BY <1>9, <1>10 DEF HeapOf, H

\* A container loses a Json, which is cleared.
LEMMA ContainerShrinks ==
  ASSUME NEW cells, NEW f, HeapOf(cells, f), NEW a \in AddressesIn(f), cells[a].type # "string",
         NEW k \in DOMAIN cells[a].content, NEW g, Refers(cells, g), Drops(cells[a].content, k, g),
         cells[a].type = "array" => IsArray(g),
         NEW cut, DOMAIN cut = DOMAIN Free(cells, cells[a].content[k]),
         \A b \in DOMAIN cut : cut[b] = cells[b],
         NEW later, Writes(cut, a, Scalar(cells[a].type, g), later)
  PROVE  HeapOf(later, f)
<1> DEFINE H == AddressesIn(f)
           cell == Scalar(cells[a].type, g)
<1>1. IsHeap(cells, H) /\ Refers(cells, f) /\ a \in DOMAIN cells
  BY TopsInHeap DEF HeapOf
<1>2. IsCell(cells, cells[a]) /\ Below(cells[a]) = AddressesIn(cells[a].content)
  BY <1>1 DEF IsHeap, Below
<1>3. AddressesIn(g) = AddressesIn(cells[a].content) \ AddressesIn(<<cells[a].content[k]>>)
  <2>1. Refers(cells, cells[a].content)
    BY <1>2 DEF IsCell
  <2> QED
    BY <2>1, JsonTaken
<1>4. cell.type = cells[a].type /\ cell.content = g /\ cell = Scalar(cell.type, cell.content)
  BY DEF Scalar
<1>5. Writes(cut, a, cell, later)
  OBVIOUS
<1> HIDE DEF H, cell
<1>6. Below(cell) = Below(cells[a]) \ AddressesIn(<<cells[a].content[k]>>)
  BY <1>2, <1>3, <1>4 DEF Below
<1>7. IsCell(cells, cell)
  BY <1>4 DEF IsCell, IsArray
<1>8. /\ DOMAIN later = DOMAIN Free(cells, cells[a].content[k]) /\ later[a] = cell
      /\ \A b \in DOMAIN later : b # a => later[b] = cells[b]
  BY <1>5 DEF Writes
<1>9. IsHeap(later, H)
  <2>1. a \in H /\ later[a].type = cells[a].type /\ IsCell(cells, later[a])
    BY <1>4, <1>7, <1>8 DEF H
  <2>2. Below(later[a]) = Below(cells[a]) \ AddressesIn(<<cells[a].content[k]>>)
    BY <1>6, <1>8
  <2> QED
    BY <1>1, <1>8, <2>1, <2>2, ChildFreed
<1>10. H \subseteq DOMAIN later /\ a \in H
  BY <1>9 DEF IsHeap, IsForest, H
<1>11. Refers(later, f)
  <2>1. \A b \in AddressesIn(f) : b \in DOMAIN later /\ later[b].type = cells[b].type
    BY <1>4, <1>8, <1>10 DEF H
  <2> QED
    BY <1>1, <2>1, RefersStays
<1> QED
  BY <1>8, <1>9, <1>10, <1>11 DEF HeapOf, H

-----------------------------------------------------------------------------
(* append, operator [] and remove *)

LEMMA AppendIs ==
  ASSUME NEW s, NEW S, s \in Seq(S), NEW x
  PROVE  Puts(s, Len(s) + 1, x, Append(s, x)) /\ IsArray(Append(s, x))
<1> DEFINE t == Append(s, x)
<1>1. s \in Seq(S \cup {x}) /\ x \in S \cup {x}
  BY SeqDef
<1>2. t \in Seq(S \cup {x}) /\ Len(t) = Len(s) + 1
  BY <1>1
<1>3. Len(s) \in Nat /\ DOMAIN s = 1..Len(s) /\ DOMAIN t = 1..Len(t) /\ Len(t) \in Nat
  BY <1>1, <1>2
<1>4. t[Len(s) + 1] = x /\ \A i \in 1..Len(s) : t[i] = s[i]
  BY <1>1
<1> HIDE DEF t
<1>5. t = [i \in 1..Len(t) |-> t[i]]
  BY <1>2
<1>6. t \in Seq({t[i] : i \in DOMAIN t})
  BY <1>3, <1>5, IsSeqOf
<1> QED
  BY <1>2, <1>3, <1>4, <1>6 DEF t, Puts, IsArray

LEMMA CellIs ==
  ASSUME NEW cells, NEW cell, IsCell(cells, cell)
  PROVE  \A g : [cell EXCEPT !.content = g] = Scalar(cell.type, g)
BY DEF IsCell, Scalar

LEMMA AppendCopyKeeps ==
  ASSUME JsonInv, NEW n \in Names, NEW m \in Names, AppendCopy(n, m)
  PROVE  JsonInv'
<1>1. PICK c \in Containers(n, "array") :
        LET image == Image(c.cells, IF n = m THEN c.json ELSE root[m]) IN
        \E at \in Places(c.cells, image) :
          /\ memory' = [Copied(c.cells, image, at) EXCEPT
                          ![c.json.content].content = Append(@, Renamed(at, image.json))]
          /\ root' = [root EXCEPT ![n] = c.json]
  BY DEF AppendCopy
<1> DEFINE image == Image(c.cells, root'[m])
           a == c.json.content
<1>2. DOMAIN root' = Names /\ root'[n] = c.json /\ \A i \in Names : i # n => root'[i] = root[i]
  BY <1>1 DEF JsonInv
<1>3. (IF n = m THEN c.json ELSE root[m]) = root'[m]
  <2>1. CASE n = m
    BY <1>2, <2>1
  <2>2. CASE n # m
    BY <1>2, <2>2
  <2> QED
    BY <2>1, <2>2
<1>4. PICK at \in Places(c.cells, image) :
        memory' = [Copied(c.cells, image, at) EXCEPT ![a].content = Append(@, Renamed(at, image.json))]
  BY <1>1, <1>3
<1> DEFINE cells == Copied(c.cells, image, at)
           x == Renamed(at, image.json)
           s == cells[a].content
<1>5. /\ HeapOf(c.cells, root') /\ a \in AddressesIn(root')
      /\ c.cells[a].type = "array" /\ IsCell(c.cells, c.cells[a])
  BY <1>2, ContainerIs
<1>6. IsImage(image)
  BY <1>2, <1>5, VariableImage
<1>7. /\ IsHeap(cells, AddressesIn(root') \cup AddressesIn(<<x>>))
      /\ AddressesIn(<<x>>) \cap DOMAIN c.cells = {} /\ Refers(cells, <<x>>)
      /\ DOMAIN c.cells \subseteq DOMAIN cells /\ \A b \in DOMAIN c.cells : cells[b] = c.cells[b]
  BY <1>5, <1>6, ImageCopied DEF HeapOf
<1>8. AddressesIn(root') \subseteq DOMAIN c.cells
  BY <1>5, TopsInHeap
<1> HIDE DEF cells, x
<1>9. cells[a].type = "array" /\ s \in Seq({s[i] : i \in DOMAIN s}) /\ a \in DOMAIN cells
  BY <1>5, <1>7, <1>8 DEF IsCell
<1>10. memory' = [cells EXCEPT ![a].content = Append(s, x)]
  BY <1>4 DEF cells, x
<1> HIDE DEF a
<1>11. Writes(cells, a, Scalar(cells[a].type, Append(s, x)), memory')
  <2>1. cells[a] = c.cells[a]
    BY <1>5, <1>7, <1>8
  <2>2. [cells[a] EXCEPT !.content = Append(s, x)] = Scalar(cells[a].type, Append(s, x))
    BY <1>5, <2>1, CellIs
  <2> HIDE DEF s
  <2>3. memory'[a] = [cells[a] EXCEPT !.content = Append(s, x)]
    BY <1>9, <1>10
  <2> QED
    BY <1>10, <2>2, <2>3 DEF Writes
<1>12. Refers(cells, root')
  BY <1>5, <1>7, <1>8, RefersStays DEF HeapOf
<1>13. AddressesIn(root') \cap AddressesIn(<<x>>) = {}
  BY <1>7, <1>8
<1>14. HeapOf(memory', root')
  <2>1. Puts(s, Len(s) + 1, x, Append(s, x)) /\ IsArray(Append(s, x)) /\ cells[a].type # "string"
    BY <1>9, <1>9, AppendIs
  <2> QED
    BY <1>5, <1>7, <1>11, <1>12, <1>13, <2>1, ContainerGrows
<1> QED
  BY <1>2, <1>14 DEF JsonInv, HeapOf

LEMMA AppendMoveKeeps ==
  ASSUME JsonInv, NEW n \in Names, NEW m \in Names, AppendMove(n, m)
  PROVE  JsonInv'
<1>1. n # m
  BY DEF AppendMove
<1>2. PICK c \in Containers(n, "array") :
        /\ memory' = [c.cells EXCEPT ![c.json.content].content = Append(@, root[m])]
        /\ root' = [root EXCEPT ![n] = c.json, ![m] = JsonNull]
  BY DEF AppendMove
<1> DEFINE cells == c.cells
           a == c.json.content
           s == cells[a].content
           x == root[m]
           f == [root EXCEPT ![n] = c.json]
<1>3. DOMAIN f = Names /\ f[n] = c.json /\ f[m] = x /\ \A i \in Names : i # n => f[i] = root[i]
  BY <1>1 DEF JsonInv
<1>4. DOMAIN root' = Names /\ ~OnHeap(root'[m].type) /\ \A i \in Names : i # m => root'[i] = f[i]
  BY <1>1, <1>2 DEF JsonInv, JsonNull, Scalar, OnHeap
<1> HIDE DEF f
<1>5. /\ HeapOf(cells, f) /\ OnHeap(f[n].type)
      /\ cells[a].type = "array" /\ IsCell(cells, cells[a])
  BY <1>3, ContainerIs
<1>6. AddressesIn(root') = AddressesIn(f) \ AddressesIn(<<f[m]>>) /\ AddressesIn(<<f[m]>>) \subseteq AddressesIn(f)
  <2>1. Drops(f, m, root')
    BY <1>3, <1>4 DEF Drops
  <2> QED
    BY <1>3, <1>5, <2>1, JsonTaken, AddressIn DEF HeapOf
<1>7. IsHeap(cells, AddressesIn(root') \cup AddressesIn(<<x>>)) /\ AddressesIn(root') \cap AddressesIn(<<x>>) = {}
  <2>1. AddressesIn(root') \cup AddressesIn(<<f[m]>>) = AddressesIn(f)
    BY <1>6
  <2> QED
    BY <1>3, <1>5, <1>6, <2>1 DEF HeapOf
<1>8. Refers(cells, <<x>>)
  BY <1>3, <1>5 DEF HeapOf, Refers
<1>9. Refers(cells, root')
  BY <1>3, <1>4, <1>5 DEF HeapOf, Refers
<1>10. a \in AddressesIn(root')
  BY <1>1, <1>3, <1>4, <1>5 DEF AddressesIn
<1>11. s \in Seq({s[i] : i \in DOMAIN s}) /\ a \in DOMAIN cells
  BY <1>5, <1>7, <1>10 DEF IsCell, IsHeap, IsForest
<1> HIDE DEF cells, x
<1>12. memory' = [cells EXCEPT ![a].content = Append(s, x)]
  BY <1>2 DEF cells, x
<1> HIDE DEF a
<1>13. Writes(cells, a, Scalar(cells[a].type, Append(s, x)), memory')
  <2>1. [cells[a] EXCEPT !.content = Append(s, x)] = Scalar(cells[a].type, Append(s, x))
    BY <1>5, CellIs
  <2> HIDE DEF s
  <2>2. memory'[a] = [cells[a] EXCEPT !.content = Append(s, x)]
    BY <1>11, <1>12
  <2> QED
    BY <1>12, <2>1, <2>2 DEF Writes
<1>14. HeapOf(memory', root')
  <2>1. Puts(s, Len(s) + 1, x, Append(s, x)) /\ IsArray(Append(s, x)) /\ cells[a].type # "string"
    BY <1>5, <1>11, AppendIs
  <2> QED
    BY <1>7, <1>8, <1>9, <1>10, <1>13, <2>1, ContainerGrows
<1> QED
  BY <1>4, <1>14 DEF JsonInv, HeapOf

\* What another variable owns does not depend on a container.
LEMMA SameImage ==
  ASSUME NEW cells, NEW f, HeapOf(cells, f), NEW a \in AddressesIn(f), NEW m \in DOMAIN f,
         OnHeap(f[m].type) => f[m].content # a,
         NEW later, DOMAIN later = DOMAIN cells, \A b \in DOMAIN cells : b # a => later[b] = cells[b]
  PROVE  Image(later, f[m]) = Image(cells, f[m])
<1> DEFINE j == f[m]
           K == DOMAIN cells
           R == BelowOf(cells)
           R2 == BelowOf(later)
<1>1. Owned(later, j) = Owned(cells, j) /\ \A b \in Owned(cells, j) : later[b] = cells[b]
  <2>1. CASE ~OnHeap(j.type)
    BY <2>1, OwnedIs
  <2>2. CASE OnHeap(j.type)
    <3> DEFINE T == Reach(K, R, j.content)
    <3>1. Owned(later, j) = Reach(K, R2, j.content) /\ Owned(cells, j) = T
      BY <2>2, OwnedIs
    <3>2. Forest(K, R, AddressesIn(f))
      BY HeapIsForest DEF HeapOf
    <3>3. j.content \in AddressesIn(f)
      BY <2>2 DEF AddressesIn
    <3>4. a \in K /\ j.content \in K /\ \A b \in K : R[b] \subseteq K
      BY <3>2, <3>3 DEF Forest
    <3>5. \A b \in K : b # a => R2[b] = R[b] /\ later[b] = cells[b]
      BY DEF BelowOf
    <3>6. j.content # a
      BY <2>2
    <3> HIDE DEF R, R2, K, j
    <3>7. a \notin T /\ T \subseteq K
      <4>1. a \in Reach(K, R, a) /\ T \subseteq K
        BY <3>4, ReachIs
      <4>2. Reach(K, R, a) \cap T = {}
        BY <3>2, <3>3, <3>6, Apart
      <4> QED
        BY <4>1, <4>2
    <3>8. \A b \in T : R2[b] = R[b] /\ later[b] = cells[b]
      BY <3>5, <3>7
    <3>9. Reach(K, R2, j.content) = T
      BY <3>4, <3>8, ReachLocal
    <3> QED
      BY <3>1, <3>8, <3>9
  <2> QED
    BY <2>1, <2>2
<1> HIDE DEF j
<1>2. Image(later, j) = Image(cells, j)
  BY <1>1 DEF Image
<1> QED
  BY <1>2 DEF j

\* A member, those without it, and memory with a cell written.
Member(f, k) == IF k \in DOMAIN f THEN f[k] ELSE JsonNull
Without(f, k) == [y \in DOMAIN f \ {k} |-> f[y]]
Written(cells, a, cell) == [b \in DOMAIN cells |-> IF b = a THEN cell ELSE cells[b]]

\* A member is cleared, if it is there, to be set.
LEMMA MemberCut ==
  ASSUME NEW cells, NEW f, HeapOf(cells, f), NEW a \in AddressesIn(f), cells[a].type = "object", NEW k,
         NEW cut, cut = Free(cells, Member(cells[a].content, k))
  PROVE  /\ HeapOf(Written(cut, a, Scalar("object", Without(cells[a].content, k))), f)
         /\ a \in DOMAIN cut /\ cut[a] = cells[a]
<1> DEFINE g == Without(cells[a].content, k)
           later == Written(cut, a, Scalar("object", g))
<1>0. /\ DOMAIN later = DOMAIN cut /\ \A b \in DOMAIN cut : later[b] = IF b = a THEN Scalar("object", g) ELSE cut[b]
      /\ DOMAIN g = DOMAIN cells[a].content \ {k} /\ \A i \in DOMAIN g : g[i] = cells[a].content[i]
  BY DEF Without, Written
<1> HIDE DEF g, later
<1>1. IsHeap(cells, AddressesIn(f)) /\ a \in DOMAIN cells
  BY TopsInHeap DEF HeapOf
<1>2. Refers(cells, cells[a].content) /\ IsCell(cells, cells[a])
  BY <1>1 DEF IsHeap, IsCell
<1>3. Refers(cells, g)
  BY <1>0, <1>2 DEF Refers
<1>4. \A b \in DOMAIN cut : b \in DOMAIN cells /\ cut[b] = cells[b]
  BY DEF Free
<1>5. CASE k \in DOMAIN cells[a].content
  <2>1. cut = Free(cells, cells[a].content[k])
    BY <1>5 DEF Member
  <2>2. a \in DOMAIN cut
    BY <1>1, <1>5, <2>1, ContainerStays
  <2>3. Writes(cut, a, Scalar(cells[a].type, g), later)
    BY <1>0, <2>2 DEF Writes
  <2>4. Drops(cells[a].content, k, g)
    BY <1>0 DEF Drops
  <2>5. HeapOf(later, f)
    <3>1. DOMAIN cut = DOMAIN Free(cells, cells[a].content[k]) /\ cells[a].type # "string" /\ cells[a].type # "array"
      BY <2>1
    <3> QED
      BY <1>3, <1>4, <1>5, <2>3, <2>4, <3>1, ContainerShrinks
  <2> QED
    BY <1>4, <2>2, <2>5 DEF g, later
<1>6. CASE k \notin DOMAIN cells[a].content
  <2>1. cut = Free(cells, JsonNull) /\ ~OnHeap(JsonNull.type)
    BY <1>6 DEF Member, JsonNull, Scalar, OnHeap
  <2>2. DOMAIN cut = DOMAIN cells
    <3>1. Owned(cells, JsonNull) = {}
      BY <2>1, OwnedIs
    <3> QED
      BY <2>1, <3>1 DEF Free
  <2> DEFINE cell == Scalar("object", g)
  <2>3. cell.type = "object" /\ cell.content = g /\ cell = Scalar(cell.type, cell.content)
    BY DEF Scalar
  <2>4. Writes(cells, a, cell, later)
    BY <1>0, <1>1, <1>4, <2>2 DEF Writes
  <2>5. DOMAIN g = DOMAIN cells[a].content /\ \A i \in DOMAIN g : g[i] = cells[a].content[i]
    BY <1>0, <1>6
  <2> HIDE DEF cell
  <2>6. Below(cell) = Below(cells[a])
    BY <2>3, <2>5 DEF Below, AddressesIn
  <2>7. IsCell(cells, cell)
    BY <1>3, <2>3 DEF IsCell
  <2>8. Below(cells[a]) \cap AddressesIn(f) = {}
    BY <1>1 DEF IsHeap, IsForest
  <2>9. IsHeap(later, AddressesIn(f))
    BY <1>1, <2>3, <2>4, <2>6, <2>7, <2>8, HeapShifted
  <2>10. \A b \in DOMAIN cells : b \in DOMAIN later /\ later[b].type = cells[b].type
    BY <2>3, <2>4 DEF Writes
  <2>11. AddressesIn(f) \subseteq DOMAIN cells
    BY TopsInHeap
  <2>12. Refers(later, f)
    BY <2>10, <2>11, RefersStays DEF HeapOf
  <2> QED
    BY <1>1, <1>4, <2>2, <2>9, <2>12 DEF HeapOf, g, later
<1> QED
  BY <1>5, <1>6 DEF g, later

LEMMA SetKeeps ==
  ASSUME JsonInv, NEW n \in Names, NEW k \in Labels, NEW m \in Names, Set(n, k, m)
  PROVE  JsonInv'
<1>1. n # m
  BY DEF Set
<1>2. PICK c \in Containers(n, "object") :
        LET members == c.cells[c.json.content].content
            cells == Free(c.cells, IF k \in DOMAIN members THEN members[k] ELSE JsonNull)
            image == Image(cells, root[m]) IN
        \E at \in Places(cells, image) :
          /\ memory' = [Copied(cells, image, at) EXCEPT
                          ![c.json.content].content = With(@, k, Renamed(at, image.json))]
          /\ root' = [root EXCEPT ![n] = c.json]
  BY DEF Set
<1> DEFINE a == c.json.content
           members == c.cells[a].content
           cut == Free(c.cells, Member(members, k))
           image == Image(cut, root[m])
           g == Without(members, k)
           cells == Written(cut, a, Scalar("object", g))
<1>3. PICK at \in Places(cut, image) :
        memory' = [Copied(cut, image, at) EXCEPT ![a].content = With(@, k, Renamed(at, image.json))]
  BY <1>2 DEF Member
<1>4. DOMAIN root' = Names /\ root'[n] = c.json /\ root'[m] = root[m] /\ \A i \in Names : i # n => root'[i] = root[i]
  BY <1>1, <1>2 DEF JsonInv
<1>5. /\ HeapOf(c.cells, root') /\ OnHeap(root'[n].type) /\ a \in AddressesIn(root')
      /\ c.cells[a].type = "object" /\ IsCell(c.cells, c.cells[a])
  BY <1>4, ContainerIs
<1>6. HeapOf(cells, root') /\ a \in DOMAIN cut /\ cut[a] = c.cells[a]
  <2> HIDE DEF a
  <2> QED
    BY <1>5, MemberCut
<1>7. DOMAIN cells = DOMAIN cut /\ cells[a] = Scalar("object", g) /\ \A b \in DOMAIN cut : b # a => cells[b] = cut[b]
  BY <1>6 DEF Written
<1>8. OnHeap(root'[m].type) => root'[m].content # a
  BY <1>1, <1>4, <1>5 DEF HeapOf, Refers
<1> HIDE DEF cells, cut
<1>9. Image(cells, root'[m]) = image
  <2>1. \A b \in DOMAIN cells : b # a => cut[b] = cells[b]
    BY <1>7
  <2> HIDE DEF a
  <2>2. Image(cut, root'[m]) = Image(cells, root'[m])
    BY <1>4, <1>5, <1>6, <1>7, <1>8, <2>1, SameImage
  <2> QED
    BY <1>4, <2>2
<1>10. IsImage(image)
  BY <1>4, <1>6, <1>9, VariableImage
<1>11. at \in Places(cells, image)
  BY <1>3, <1>7 DEF Places, Unused
<1> DEFINE later == Copied(cells, image, at)
           before == Copied(cut, image, at)
           x == Renamed(at, image.json)
<1> HIDE DEF image
<1>12. /\ IsHeap(later, AddressesIn(root') \cup AddressesIn(<<x>>))
       /\ AddressesIn(<<x>>) \cap DOMAIN cells = {} /\ Refers(later, <<x>>)
       /\ DOMAIN cells \subseteq DOMAIN later /\ \A b \in DOMAIN cells : later[b] = cells[b]
  BY <1>6, <1>10, <1>11, ImageCopied DEF HeapOf
<1>13. /\ DOMAIN before = DOMAIN later /\ before[a] = c.cells[a] /\ a \in DOMAIN later
       /\ \A b \in DOMAIN later : b # a => before[b] = later[b]
  BY <1>6, <1>7 DEF Copied
<1>14. AddressesIn(root') \subseteq DOMAIN cells
  BY <1>6, TopsInHeap
<1>15. memory' = [before EXCEPT ![a].content = With(members, k, x)]
  BY <1>3, <1>13
<1> HIDE DEF later, before, x, a
<1>16. Writes(later, a, Scalar("object", With(members, k, x)), memory')
  <2>1. [before[a] EXCEPT !.content = With(members, k, x)] = Scalar("object", With(members, k, x))
    BY <1>5, <1>13, CellIs
  <2> HIDE DEF members
  <2>2. memory'[a] = [before[a] EXCEPT !.content = With(members, k, x)]
    BY <1>13, <1>15
  <2> QED
    BY <1>13, <1>15, <2>1, <2>2 DEF Writes
<1>17. later[a] = Scalar("object", g)
  BY <1>6, <1>7, <1>12
<1>18. Puts(g, k, x, With(members, k, x))
  <2> HIDE DEF members
  <2> QED
    BY DEF Puts, With, Without
<1> HIDE DEF members, g
<1>19. later[a].content = g /\ later[a].type = "object"
  BY <1>17 DEF Scalar
<1>20. Refers(later, root')
  BY <1>6, <1>12, <1>14, RefersStays DEF HeapOf
<1>21. AddressesIn(root') \cap AddressesIn(<<x>>) = {}
  BY <1>12, <1>14
<1>22. HeapOf(memory', root')
  <2>1. Puts(later[a].content, k, x, With(members, k, x)) /\ Writes(later, a, Scalar(later[a].type, With(members, k, x)), memory')
    BY <1>16, <1>18, <1>19
  <2>2. later[a].type # "string" /\ later[a].type # "array"
    BY <1>19
  <2> QED
    BY <1>5, <1>12, <1>20, <1>21, <2>1, <2>2, ContainerGrows
<1> QED
  BY <1>4, <1>22 DEF JsonInv, HeapOf

LEMMA CutKeeps ==
  ASSUME JsonInv, NEW n \in Names, OnHeap(root[n].type), root[n].type # "string",
         NEW k \in DOMAIN memory[root[n].content].content,
         NEW g, Refers(memory, g), Drops(memory[root[n].content].content, k, g),
         root[n].type = "array" => IsArray(g),
         memory' = [Erased(memory, memory[root[n].content].content[k]) EXCEPT ![root[n].content].content = g],
         UNCHANGED root
  PROVE  JsonInv'
<1> DEFINE a == root[n].content
           cut == Free(memory, memory[a].content[k])
<1>1. HeapOf(memory, root) /\ DOMAIN root = Names
  BY DEF JsonInv
<1>2. a \in AddressesIn(root) /\ memory[a].type = root[n].type /\ a \in DOMAIN memory
  BY <1>1 DEF HeapOf, Refers, AddressesIn
<1>3. IsHeap(memory, AddressesIn(root)) /\ IsCell(memory, memory[a])
  BY <1>1, <1>2 DEF HeapOf, IsHeap
<1>4. a \in DOMAIN cut /\ \A b \in DOMAIN cut : cut[b] = memory[b]
  <2>1. a \in DOMAIN cut
    BY <1>2, <1>3, ContainerStays
  <2> QED
    BY <2>1 DEF Free
<1>5. memory' = [cut EXCEPT ![a].content = g]
  BY DEF Erased
<1> HIDE DEF cut, a
<1>6. Writes(cut, a, Scalar(memory[a].type, g), memory')
  <2>1. [cut[a] EXCEPT !.content = g] = Scalar(memory[a].type, g)
    BY <1>3, <1>4, CellIs
  <2>2. memory'[a] = [cut[a] EXCEPT !.content = g]
    BY <1>4, <1>5
  <2> QED
    BY <1>5, <2>1, <2>2 DEF Writes
<1>7. HeapOf(memory', root)
  <2>1. DOMAIN cut = DOMAIN Free(memory, memory[a].content[k])
    BY DEF cut
  <2>2. /\ memory[a].type # "string" /\ k \in DOMAIN memory[a].content /\ Drops(memory[a].content, k, g)
        /\ memory[a].type = "array" => IsArray(g)
    BY <1>2 DEF a
  <2> QED
    BY <1>1, <1>2, <1>4, <1>6, <2>1, <2>2, ContainerShrinks
<1> QED
  BY <1>1, <1>7 DEF JsonInv, HeapOf

LEMMA ContentRefers ==
  ASSUME JsonInv, NEW n \in Names, root[n].type \in {"array", "object"}
  PROVE  /\ OnHeap(root[n].type)
         /\ Refers(memory, memory[root[n].content].content)
         /\ root[n].type = "array" => IsArray(memory[root[n].content].content)
<1>1. OnHeap(root[n].type) /\ root[n].type # "string"
  BY DEF OnHeap
<1>2. root[n].content \in DOMAIN memory /\ memory[root[n].content].type = root[n].type
  BY <1>1 DEF JsonInv, HeapOf, Refers
<1>3. IsCell(memory, memory[root[n].content])
  BY <1>2 DEF JsonInv, HeapOf, IsHeap
<1> QED
  BY <1>1, <1>2, <1>3 DEF IsCell, IsArray

LEMMA RemoveMemberKeeps ==
  ASSUME JsonInv, NEW n \in Names, NEW k \in Labels, RemoveMember(n, k)
  PROVE  JsonInv'
<1> DEFINE s == memory[root[n].content].content
           g == [x \in DOMAIN s \ {k} |-> s[x]]
<1>1. /\ root[n].type = "object" /\ k \in DOMAIN s /\ UNCHANGED root
      /\ memory' = [Erased(memory, s[k]) EXCEPT
                      ![root[n].content].content = [x \in DOMAIN @ \ {k} |-> @[x]]]
  BY DEF RemoveMember
<1>2. OnHeap(root[n].type) /\ Refers(memory, s)
  BY <1>1, ContentRefers
<1>3. root[n].content \in DOMAIN Erased(memory, s[k]) =>
        Erased(memory, s[k])[root[n].content].content = s
  BY DEF Erased, Free
<1>4. memory' = [Erased(memory, s[k]) EXCEPT ![root[n].content].content = g]
  <2> DEFINE cut == Erased(memory, s[k])
  <2>1. root[n].content \in DOMAIN cut
    <3>1. /\ IsHeap(memory, AddressesIn(root)) /\ root[n].content \in AddressesIn(root)
          /\ memory[root[n].content].type = root[n].type
      BY <1>2 DEF JsonInv, HeapOf, AddressesIn, Refers
    <3> QED
      BY <1>1, <3>1, ContainerStays DEF Erased
  <2>2. cut[root[n].content].content = s
    BY <1>3, <2>1
  <2> HIDE DEF cut
  <2>3. memory' = [cut EXCEPT ![root[n].content].content = [x \in DOMAIN @ \ {k} |-> @[x]]]
    BY <1>1 DEF cut
  <2> QED
    BY <2>2, <2>3 DEF cut
<1>5. Refers(memory, g) /\ Drops(s, k, g)
  <2> HIDE DEF s
  <2>1. Refers(memory, g)
    BY <1>2 DEF Refers
  <2>2. Drops(s, k, g)
    BY DEF Drops
  <2> QED
    BY <2>1, <2>2
<1> HIDE DEF g
<1> QED
  BY <1>1, <1>2, <1>4, <1>5, CutKeeps

LEMMA RemoveElementKeeps ==
  ASSUME JsonInv, NEW n \in Names, NEW i, RemoveElement(n, i)
  PROVE  JsonInv'
<1> DEFINE s == memory[root[n].content].content
           g == [x \in 1..Len(s) - 1 |-> IF x < i THEN s[x] ELSE s[x + 1]]
<1>1. /\ root[n].type = "array" /\ i \in DOMAIN s /\ UNCHANGED root
      /\ memory' = [Erased(memory, s[i]) EXCEPT
                      ![root[n].content].content =
                         [x \in 1..Len(@) - 1 |-> IF x < i THEN @[x] ELSE @[x + 1]]]
  BY DEF RemoveElement
<1>2. OnHeap(root[n].type) /\ Refers(memory, s) /\ IsArray(s)
  BY <1>1, ContentRefers
<1>3. root[n].content \in DOMAIN Erased(memory, s[i]) =>
        Erased(memory, s[i])[root[n].content].content = s
  BY DEF Erased, Free
<1>4. memory' = [Erased(memory, s[i]) EXCEPT ![root[n].content].content = g]
  <2> DEFINE cut == Erased(memory, s[i])
  <2>1. root[n].content \in DOMAIN cut
    <3>1. /\ IsHeap(memory, AddressesIn(root)) /\ root[n].content \in AddressesIn(root)
          /\ memory[root[n].content].type = root[n].type
      BY <1>2 DEF JsonInv, HeapOf, AddressesIn, Refers
    <3> QED
      BY <1>1, <3>1, ContainerStays DEF Erased
  <2>2. cut[root[n].content].content = s
    BY <1>3, <2>1
  <2> HIDE DEF cut
  <2>3. memory' = [cut EXCEPT ![root[n].content].content =
                     [x \in 1..Len(@) - 1 |-> IF x < i THEN @[x] ELSE @[x + 1]]]
    BY <1>1 DEF cut
  <2> QED
    BY <2>2, <2>3 DEF cut
<1>5. DOMAIN s = 1..Len(s) /\ Len(s) \in Nat /\ i \in DOMAIN s
  <2>1. i \in DOMAIN s
    BY <1>1
  <2> HIDE DEF s
  <2> QED
    BY <1>2, <2>1 DEF IsArray
<1> HIDE DEF s
<1>6. Len(s) - 1 \in Nat /\ i \in Nat /\ i > 0
  BY <1>5
<1>7. DOMAIN g = 1..Len(s) - 1
  OBVIOUS
<1> DEFINE p == [x \in 1..Len(s) - 1 |-> IF x < i THEN x ELSE x + 1]
<1>8. \A x \in DOMAIN g : p[x] \in DOMAIN s /\ p[x] # i /\ g[x] = s[p[x]]
  BY <1>5, <1>6
<1>9. \A x, y \in DOMAIN g : x # y => p[x] # p[y]
  BY <1>5, <1>6, <1>7
<1>10. \A y \in DOMAIN s : y # i => \E x \in DOMAIN g : g[x] = s[y]
  <2>1. SUFFICES ASSUME NEW y \in DOMAIN s, y # i PROVE \E x \in DOMAIN g : g[x] = s[y]
    OBVIOUS
  <2>2. CASE y < i
    <3>1. y \in DOMAIN g
      BY <1>5, <1>6, <1>7, <2>2
    <3>2. g[y] = s[y]
      BY <2>2, <3>1
    <3> QED
      BY <3>1, <3>2
  <2>3. CASE ~(y < i)
    <3>1. y - 1 \in DOMAIN g /\ ~(y - 1 < i) /\ y - 1 + 1 = y
      BY <1>5, <1>6, <1>7, <2>1, <2>3
    <3>2. g[y - 1] = s[y]
      BY <3>1
    <3> QED
      BY <3>1, <3>2
  <2> QED
    BY <2>2, <2>3
<1>11. g = [x \in 1..Len(s) - 1 |-> g[x]]
  OBVIOUS
<1> HIDE DEF g, p
<1>12. IsArray(g)
  BY <1>6, <1>7, <1>11, IsSeqOf DEF IsArray
<1>13. Refers(memory, g)
  BY <1>2, <1>8, <1>9, Rearranged
<1>14. Drops(s, i, g)
  BY <1>8, <1>10 DEF Drops
<1> QED
  BY <1>1, <1>2, <1>4, <1>12, <1>13, <1>14, CutKeeps DEF s

-----------------------------------------------------------------------------

LEMMA JsonInitHolds ==
  JsonInit => JsonInv
<1> SUFFICES ASSUME JsonInit PROVE JsonInv
  OBVIOUS
<1>1. \A n \in Names : ~OnHeap(root[n].type)
  BY DEF JsonInit, JsonNull, Scalar, OnHeap
<1>2. AddressesIn(root) = {} /\ Refers(memory, root) /\ DOMAIN root = Names
  BY <1>1 DEF JsonInit, AddressesIn, Refers
<1>3. DOMAIN memory = {}
  BY DEF JsonInit
<1>4. IsHeap(memory, {})
  BY <1>3 DEF IsHeap, IsForest
<1> QED
  BY <1>2, <1>4 DEF JsonInv, HeapOf

LEMMA JsonNextKeeps ==
  JsonInv /\ [JsonNext]_jsonVars => JsonInv'
<1> SUFFICES ASSUME JsonInv, [JsonNext]_jsonVars PROVE JsonInv'
  OBVIOUS
<1>1. CASE UNCHANGED jsonVars
  BY <1>1 DEF jsonVars, JsonInv, HeapOf, IsHeap, IsForest, Closed
<1>2. ASSUME NEW n \in Names, NEW text \in DOMAIN Loaded, Load(n, text) PROVE JsonInv'
  BY <1>2, JsonAssumption, BecomesKeeps DEF Load
<1>3. CASE JsonNext
  BY <1>2, <1>3, CopyAssignKeeps, MoveAssignKeeps, AppendCopyKeeps, AppendMoveKeeps,
     RemoveMemberKeeps, SetKeeps, RemoveElementKeeps, ClearKeeps DEF JsonNext
<1> QED
  BY <1>1, <1>3

LEMMA InvOneOwner ==
  JsonInv => OneOwner
<1> SUFFICES ASSUME JsonInv PROVE OneOwner
  OBVIOUS
<1> DEFINE K == DOMAIN memory
           R == BelowOf(memory)
           G == AddressesIn(root)
<1>1. IsHeap(memory, G) /\ Refers(memory, root) /\ DOMAIN root = Names
  BY DEF JsonInv, HeapOf
<1>2. Forest(K, R, G)
  BY <1>1, HeapIsForest
<1>3. \A n \in Names : OnHeap(root[n].type) => root[n].content \in G /\ Owned(memory, root[n]) = Reach(K, R, root[n].content)
  BY <1>1, OwnedIs DEF AddressesIn
<1>4. \A n \in Names : ~OnHeap(root[n].type) => Owned(memory, root[n]) = {}
  BY OwnedIs
<1>5. \A x \in G : \E n \in Names : OnHeap(root[n].type) /\ root[n].content = x
  BY <1>1 DEF AddressesIn
<1> HIDE DEF R, G
<1>6. ASSUME NEW n \in Names, NEW m \in Names, n # m
      PROVE  Owned(memory, root[n]) \cap Owned(memory, root[m]) = {}
  <2>1. CASE OnHeap(root[n].type) /\ OnHeap(root[m].type)
    <3>1. root[n].content # root[m].content
      BY <1>1, <1>6, <2>1 DEF Refers
    <3> QED
      BY <1>2, <1>3, <2>1, <3>1, Apart
  <2> QED
    BY <1>4, <2>1
<1>7. UNION {Owned(memory, root[n]) : n \in Names} = K
  <2>1. \A n \in Names : Owned(memory, root[n]) \subseteq K
    BY DEF Owned
  <2>2. ASSUME NEW a \in K PROVE \E n \in Names : a \in Owned(memory, root[n])
    <3>1. PICK x \in G : a \in Reach(K, R, x)
      BY <1>2, AllReached
    <3>2. PICK n \in Names : OnHeap(root[n].type) /\ root[n].content = x
      BY <1>5
    <3> QED
      BY <1>3, <3>1, <3>2
  <2> QED
    BY <2>1, <2>2
<1>8. \A a, b \in K : a # b => Below(memory[a]) \cap Below(memory[b]) = {}
  BY <1>1 DEF IsHeap, IsForest
<1>9. \A a \in K : memory[a].type # "string" => Refers(memory, memory[a].content)
  BY <1>1 DEF IsHeap, IsCell
<1> QED
  BY <1>6, <1>7, <1>8, <1>9 DEF OneOwner

\* JsonInv, the inductive invariant of the JSON library: the Json variables and the containers
\* in memory refer to the memory in use as a forest, each to cells of its own type.
THEOREM JsonInvariant ==
  JsonSpec => []JsonInv
<1> QED
  BY JsonInitHolds, JsonNextKeeps, PTL DEF JsonSpec

\* OneOwner: whatever is loaded, copied, moved, appended, set, removed and cleared, every
\* piece of memory belongs to one Json variable, once.
THEOREM CellsHaveOneOwner ==
  JsonSpec => []OneOwner
<1> QED
  BY JsonInvariant, InvOneOwner, PTL

================================================================================
