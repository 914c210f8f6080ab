--------------------------- MODULE ThreadPoolProofs ---------------------------
(***************************************************************************)
(* Proofs about ThreadPool for any number of workers, callers and tasks.   *)
(***************************************************************************)
EXTENDS ThreadPool, TLAPS

\* Appending a task adds it to the queued ones, at one position.
LEMMA QueueAppend ==
  ASSUME NEW q \in Seq(Tasks), NEW t \in Tasks
  PROVE  /\ Append(q, t) \in Seq(Tasks)
         /\ Len(Append(q, t)) = Len(q) + 1
         /\ \A i \in 1..Len(q) : Append(q, t)[i] = q[i]
         /\ Append(q, t)[Len(q) + 1] = t
  OBVIOUS

\* Taking the front leaves the others, shifted by one.
LEMMA QueueTail ==
  ASSUME NEW q \in Seq(Tasks), q # <<>>
  PROVE  /\ Head(q) \in Tasks
         /\ Head(q) = q[1]
         /\ Len(q) >= 1
         /\ Tail(q) \in Seq(Tasks)
         /\ Len(Tail(q)) = Len(q) - 1
         /\ \A i \in 1..Len(Tail(q)) : Tail(q)[i] = q[i + 1]
  OBVIOUS

\* The initial state satisfies the inductive invariant.
LEMMA PoolInit == Init => PoolInv
<1> SUFFICES ASSUME Init
             PROVE  PoolInv
  OBVIOUS
<1> USE DEF Init
<1>1. TypeOK
  <2>1. m_tasks \in Seq(Tasks)
    OBVIOUS
  <2>2. /\ worker \in [Workers -> {"lock", "wait", "run", "returned"}]
        /\ task \in [Workers -> Tasks \cup {NoTask}]
        /\ \A w \in Workers : worker[w] # "run"
    OBVIOUS
  <2>3. QED
    BY <2>1, <2>2 DEF TypeOK
<1>2. ShutdownOrder
  BY DEF ShutdownOrder
<1>3. Queued = {} /\ Held = {}
  BY DEF Queued, Held
<1>4. TaskAccounted
  BY <1>3 DEF TaskAccounted
<1>5. NoLostWakeup /\ NobodySleepsAfterBroadcast
  BY DEF NoLostWakeup, NobodySleepsAfterBroadcast, Waiting
<1>6. QED
  BY <1>1, <1>2, <1>4, <1>5 DEF PoolInv

\* Every step keeps the types.
LEMMA TypeStep == TypeOK /\ [Next]_vars => TypeOK'
<1> SUFFICES ASSUME TypeOK, [Next]_vars
             PROVE  TypeOK'
  OBVIOUS
<1> USE DEF TypeOK
<1>1. ASSUME NEW c \in Callers, NEW t \in Tasks, Enqueue(c, t)
      PROVE  TypeOK'
  BY <1>1, QueueAppend DEF Enqueue, MayCall
<1>2. ASSUME NEW c \in Callers, NEW t \in Tasks, EnqueueThrows(c, t)
      PROVE  TypeOK'
  BY <1>2 DEF EnqueueThrows
<1>3. ASSUME NEW c \in Callers, NotifyOne(c)
      PROVE  TypeOK'
  BY <1>3 DEF NotifyOne, Waiting
<1>4. ASSUME NEW w \in Workers, Wait(w) \/ SpuriousWakeup(w) \/ Return(w)
      PROVE  TypeOK'
  BY <1>4 DEF Wait, SpuriousWakeup, Return
<1>5. ASSUME NEW w \in Workers, Take(w)
      PROVE  TypeOK'
  BY <1>5, QueueTail DEF Take
<1>6. ASSUME NEW w \in Workers, Run(w)
      PROVE  TypeOK'
  BY <1>6 DEF Run
<1>7. CASE Stop \/ NotifyAll \/ Join
  BY <1>7 DEF Stop, NotifyAll, Join
<1>8. CASE UNCHANGED vars
  BY <1>8 DEF vars
<1>9. QED
  BY <1>1, <1>2, <1>3, <1>4, <1>5, <1>6, <1>7, <1>8 DEF Next, WorkerStep

\* Take moves the front of the queue, a task of its own, to the worker.
LEMMA TakeMoves ==
  ASSUME TypeOK, TaskAccounted, NEW w \in Workers, Take(w)
  PROVE  /\ Head(m_tasks) \in Queued /\ Head(m_tasks) \notin Queued'
         /\ Queued = Queued' \cup {Head(m_tasks)}
         /\ Held' = Held \cup {Head(m_tasks)}
<1> DEFINE t == Head(m_tasks)
           n == Len(m_tasks)
<1>1. /\ n \in Nat
      /\ n >= 1
      /\ t = m_tasks[1]
      /\ Len(m_tasks') = n - 1
      /\ \A i \in 1..(n - 1) : m_tasks'[i] = m_tasks[i + 1]
  BY QueueTail DEF Take, TypeOK
<1>2. t \in Queued
  BY <1>1 DEF Queued
<1>3. t \notin Queued'
  BY <1>1 DEF Queued, TaskAccounted
<1>4. Queued' \subseteq Queued
  BY <1>1 DEF Queued
<1>5. Queued \subseteq Queued' \cup {t}
  <2> SUFFICES ASSUME NEW i \in 1..n, i # 1
               PROVE  m_tasks[i] \in Queued'
    BY <1>1 DEF Queued
  <2>1. i - 1 \in 1..(n - 1) /\ m_tasks'[i - 1] = m_tasks[i]
    BY <1>1
  <2>2. QED
    BY <1>1, <2>1 DEF Queued
<1>6. Held' = Held \cup {t}
  BY DEF Take, TypeOK, Held
<1>7. QED
  BY <1>2, <1>3, <1>4, <1>5, <1>6

\* Run moves the worker's task from what is held to what has run.
LEMMA RunMoves ==
  ASSUME TypeOK, TaskAccounted, NEW w \in Workers, Run(w)
  PROVE  task[w] \in Held /\ Held' = Held \ {task[w]} /\ Queued' = Queued
BY DEF Run, TypeOK, TaskAccounted, Held, Queued

\* Every step keeps the account of the tasks: Enqueue, Take and Run move one
\* task to its next place, the other steps move none.
LEMMA AccountStep ==
  TypeOK /\ TaskAccounted /\ [Next]_vars => TaskAccounted'
<1> SUFFICES ASSUME TypeOK, TaskAccounted, [Next]_vars
             PROVE  TaskAccounted'
  OBVIOUS
<1> USE DEF TaskAccounted
<1>1. ASSUME NEW c \in Callers, NEW t \in Tasks, Enqueue(c, t)
      PROVE  TaskAccounted'
  <2>1. t \notin Queued \cup Held \cup executed
    BY <1>1 DEF Enqueue, MayCall
  <2>2. Queued' = Queued \cup {t}
    BY <1>1, QueueAppend DEF Enqueue, TypeOK, Queued
  <2>3. Held' = Held
    BY <1>1 DEF Enqueue, Held
  <2>4. \A i, j \in 1..Len(m_tasks') : m_tasks'[i] = m_tasks'[j] => i = j
    BY <1>1, <2>1, QueueAppend DEF Enqueue, TypeOK, Queued
  <2>5. QED
    BY <1>1, <2>1, <2>2, <2>3, <2>4 DEF Enqueue
<1>2. ASSUME NEW w \in Workers, Take(w)
      PROVE  TaskAccounted'
  <2> DEFINE t == Head(m_tasks)
             n == Len(m_tasks)
  <2>1. /\ n \in Nat
        /\ n >= 1
        /\ t = m_tasks[1]
        /\ Len(m_tasks') = n - 1
        /\ \A i \in 1..(n - 1) : m_tasks'[i] = m_tasks[i + 1]
    BY <1>2, QueueTail DEF Take, TypeOK
  <2>2. /\ t \in Queued /\ t \notin Queued'
        /\ Queued = Queued' \cup {t} /\ Held' = Held \cup {t}
    BY <1>2, TakeMoves
  <2>6. \A i, j \in 1..Len(m_tasks') : m_tasks'[i] = m_tasks'[j] => i = j
    <3> SUFFICES ASSUME NEW i \in 1..(n - 1), NEW j \in 1..(n - 1),
                        m_tasks'[i] = m_tasks'[j]
                 PROVE  i = j
      BY <2>1
    <3>1. i + 1 \in 1..n /\ j + 1 \in 1..n /\ m_tasks[i + 1] = m_tasks[j + 1]
      BY <2>1
    <3>2. QED
      BY <2>1, <3>1
  <2>8. t \notin Held
    BY <2>2
  <2>9. \A u, v \in Workers :
          worker'[u] = "run" /\ worker'[v] = "run" /\ task'[u] = task'[v] => u = v
    BY <1>2, <2>8 DEF Take, TypeOK, Held
  <2>10. accepted' = accepted /\ executed' = executed
    BY <1>2 DEF Take
  <2>11. QED
    BY <2>2, <2>6, <2>8, <2>9, <2>10
<1>3. ASSUME NEW w \in Workers, Run(w)
      PROVE  TaskAccounted'
  <2>1. task[w] \in Held /\ Held' = Held \ {task[w]} /\ Queued' = Queued
    BY <1>3, RunMoves
  <2>2. \A u, v \in Workers :
          worker'[u] = "run" /\ worker'[v] = "run" /\ task'[u] = task'[v] => u = v
    BY <1>3 DEF Run, TypeOK
  <2>3. QED
    BY <1>3, <2>1, <2>2 DEF Run
<1>4. ASSUME UNCHANGED <<m_tasks, task, accepted, executed>>,
             \A w \in Workers : (worker'[w] = "run") <=> (worker[w] = "run")
      PROVE  TaskAccounted'
  <2>1. Queued' = Queued /\ Held' = Held
    BY <1>4 DEF Queued, Held
  <2>2. QED
    BY <1>4, <2>1
<1>5. ASSUME NEW c \in Callers, NEW t \in Tasks, EnqueueThrows(c, t)
      PROVE  TaskAccounted'
  BY <1>4, <1>5 DEF EnqueueThrows
<1>6. ASSUME NEW c \in Callers, NotifyOne(c)
      PROVE  TaskAccounted'
  BY <1>4, <1>6 DEF NotifyOne, Waiting, TypeOK
<1>7. ASSUME NEW w \in Workers, Wait(w) \/ SpuriousWakeup(w) \/ Return(w)
      PROVE  TaskAccounted'
  BY <1>4, <1>7 DEF Wait, SpuriousWakeup, Return, TypeOK
<1>8. CASE Stop \/ NotifyAll \/ Join
  BY <1>4, <1>8 DEF Stop, NotifyAll, Join, TypeOK
<1>9. CASE UNCHANGED vars
  BY <1>4, <1>9 DEF vars
<1>10. QED
  BY <1>1, <1>2, <1>3, <1>5, <1>6, <1>7, <1>8, <1>9 DEF Next, WorkerStep

\* Every step keeps the order of the shutdown.
LEMMA ShutdownStep ==
  TypeOK /\ ShutdownOrder /\ [Next]_vars => ShutdownOrder'
<1> SUFFICES ASSUME TypeOK, ShutdownOrder, [Next]_vars
             PROVE  ShutdownOrder'
  OBVIOUS
<1> USE DEF TypeOK, ShutdownOrder
<1>1. ASSUME NEW c \in Callers, NEW t \in Tasks, Enqueue(c, t) \/ EnqueueThrows(c, t)
      PROVE  ShutdownOrder'
  BY <1>1 DEF Enqueue, EnqueueThrows, MayCall
<1>2. ASSUME NEW c \in Callers, NotifyOne(c)
      PROVE  ShutdownOrder'
  BY <1>2 DEF NotifyOne, Waiting
<1>3. ASSUME NEW w \in Workers, WorkerStep(w) \/ SpuriousWakeup(w)
      PROVE  ShutdownOrder'
  BY <1>3 DEF WorkerStep, Wait, SpuriousWakeup, Return, Take, Run
<1>4. CASE Stop \/ NotifyAll \/ Join
  BY <1>4 DEF Stop, NotifyAll, Join
<1>5. CASE UNCHANGED vars
  BY <1>5 DEF vars
<1>6. QED
  BY <1>1, <1>2, <1>3, <1>4, <1>5 DEF Next

\* Every step keeps a worker awake, or a notify_one owed, while a task is
\* queued.  A worker goes to sleep only at an empty queue; a notify_one that
\* wakes nobody finds every worker awake.
LEMMA WakeupStep ==
  TypeOK /\ ShutdownOrder /\ NoLostWakeup /\ [Next]_vars => NoLostWakeup'
<1> SUFFICES ASSUME TypeOK, ShutdownOrder, NoLostWakeup, [Next]_vars
             PROVE  NoLostWakeup'
  OBVIOUS
<1> USE DEF TypeOK, NoLostWakeup
<1>1. ASSUME NEW c \in Callers, NEW t \in Tasks, Enqueue(c, t) \/ EnqueueThrows(c, t)
      PROVE  NoLostWakeup'
  BY <1>1 DEF Enqueue, EnqueueThrows
<1>2. ASSUME NEW c \in Callers, NotifyOne(c)
      PROVE  NoLostWakeup'
  <2>1. CASE Waiting = {}
    <3>1. \A w \in Workers : worker[w] # "wait"
      BY <2>1 DEF Waiting
    <3>2. m_tasks # <<>> => \A w \in Workers : worker[w] \in {"lock", "run"}
      BY <3>1 DEF ShutdownOrder
    <3>3. QED
      BY PoolAssumption, <1>2, <2>1, <3>2 DEF NotifyOne
  <2>2. CASE Waiting # {}
    BY <1>2, <2>2 DEF NotifyOne, Waiting
  <2>3. QED
    BY <2>1, <2>2
<1>3. ASSUME NEW w \in Workers, WorkerStep(w) \/ SpuriousWakeup(w)
      PROVE  NoLostWakeup'
  BY <1>3 DEF WorkerStep, Wait, SpuriousWakeup, Return, Take, Run
<1>4. CASE Stop \/ NotifyAll \/ Join
  BY <1>4 DEF Stop, NotifyAll, Join
<1>5. CASE UNCHANGED vars
  BY <1>5 DEF vars
<1>6. QED
  BY <1>1, <1>2, <1>3, <1>4, <1>5 DEF Next

\* Every step keeps the workers awake after the broadcast.
LEMMA BroadcastStep ==
  TypeOK /\ ShutdownOrder /\ NobodySleepsAfterBroadcast /\ [Next]_vars
    => NobodySleepsAfterBroadcast'
<1> SUFFICES ASSUME TypeOK, ShutdownOrder, NobodySleepsAfterBroadcast, [Next]_vars
             PROVE  NobodySleepsAfterBroadcast'
  OBVIOUS
<1> USE DEF TypeOK, ShutdownOrder, NobodySleepsAfterBroadcast, Waiting
<1>1. ASSUME NEW c \in Callers, NEW t \in Tasks, Enqueue(c, t) \/ EnqueueThrows(c, t)
      PROVE  NobodySleepsAfterBroadcast'
  BY <1>1 DEF Enqueue, EnqueueThrows
<1>2. ASSUME NEW c \in Callers, NotifyOne(c)
      PROVE  NobodySleepsAfterBroadcast'
  BY <1>2 DEF NotifyOne
<1>3. ASSUME NEW w \in Workers, WorkerStep(w) \/ SpuriousWakeup(w)
      PROVE  NobodySleepsAfterBroadcast'
  BY <1>3 DEF WorkerStep, Wait, SpuriousWakeup, Return, Take, Run
<1>4. CASE Stop \/ NotifyAll \/ Join
  BY <1>4 DEF Stop, NotifyAll, Join
<1>5. CASE UNCHANGED vars
  BY <1>5 DEF vars
<1>6. QED
  BY <1>1, <1>2, <1>3, <1>4, <1>5 DEF Next

\* The inductive invariant holds in every reachable state.
THEOREM PoolInvariant == Spec => []PoolInv
<1>1. PoolInv /\ [Next]_vars => PoolInv'
  BY TypeStep, AccountStep, ShutdownStep, WakeupStep, BroadcastStep DEF PoolInv
<1>2. QED
  BY PoolInit, <1>1, PTL DEF Spec

\* The state of the pool is well typed.
THEOREM PoolTypes == Spec => []TypeOK
<1>1. PoolInv => TypeOK
  BY DEF PoolInv
<1>2. QED
  BY PoolInvariant, <1>1, PTL

\* No task accepted by enqueue is lost or runs twice.
THEOREM EveryTaskAccounted == Spec => []TaskAccounted
<1>1. PoolInv => TaskAccounted
  BY DEF PoolInv
<1>2. QED
  BY PoolInvariant, <1>1, PTL

\* A queued task always finds a worker awake or a notify_one owed.
THEOREM WakeupNeverLost == Spec => []NoLostWakeup
<1>1. PoolInv => NoLostWakeup
  BY DEF PoolInv
<1>2. QED
  BY PoolInvariant, <1>1, PTL

\* The destructor returns only after every accepted task has run.
THEOREM DrainedBeforeJoin == Spec => []JoinedMeansDrained
<1>1. PoolInv => JoinedMeansDrained
  <2> SUFFICES ASSUME PoolInv, destructor = "joined"
               PROVE  executed = accepted
    BY DEF JoinedMeansDrained
  <2>1. \A w \in Workers : worker[w] = "returned"
    BY DEF PoolInv, ShutdownOrder
  <2>2. Held = {}
    BY <2>1 DEF Held
  <2>3. m_tasks = <<>>
    BY PoolAssumption, <2>1 DEF PoolInv, ShutdownOrder
  <2>4. Queued = {}
    BY <2>3 DEF Queued
  <2>5. QED
    BY <2>2, <2>4 DEF PoolInv, TaskAccounted
<1>2. QED
  BY PoolInvariant, <1>1, PTL

-----------------------------------------------------------------------------
(* the pool keeps the promise of TaskLedger *)

\* A task is refused or accepted, never both.
RefusedApart == refused \cap accepted = {}

LEMMA RefusedStep == RefusedApart /\ [Next]_vars => RefusedApart'
<1> SUFFICES ASSUME RefusedApart, [Next]_vars
             PROVE  RefusedApart'
  OBVIOUS
<1>1. ASSUME NEW c \in Callers, NEW t \in Tasks, Enqueue(c, t) \/ EnqueueThrows(c, t)
      PROVE  RefusedApart'
  BY <1>1 DEF Enqueue, EnqueueThrows, MayCall, RefusedApart
<1>2. CASE UNCHANGED <<accepted, refused>>
  BY <1>2 DEF RefusedApart
<1>3. QED
  BY <1>1, <1>2 DEF Next, vars, NotifyOne, WorkerStep, Wait, SpuriousWakeup, Return, Take,
                    Run, Stop, NotifyAll, Join

\* A step that changes the status of one task is that task's move.
LEMMA MoveOne ==
  ASSUME NEW t \in Tasks, NEW from, NEW to,
         StatusOf(t) = from, StatusOf(t)' = to, PhaseOf' = PhaseOf,
         \A u \in Tasks \ {t} : StatusOf(u)' = StatusOf(u)
  PROVE  Ledger!Move(t, from, to)
BY DEF Ledger!Move

\* A step that moves no task leaves the status of each as it is.
LEMMA StatusFrame ==
  ASSUME UNCHANGED <<refused, executed>>, Queued' = Queued, Held' = Held
  PROVE  [t \in Tasks |-> StatusOf(t)]' = [t \in Tasks |-> StatusOf(t)]
BY DEF StatusOf

\* Every step of the pool is a step of the ledger or none.
LEMMA LedgerStep ==
  PoolInv /\ RefusedApart /\ [Next]_vars => [Ledger!Next]_(Ledger!vars)
<1> SUFFICES ASSUME PoolInv, RefusedApart, [Next]_vars
             PROVE  [Ledger!Next]_(Ledger!vars)
  OBVIOUS
<1> USE DEF PoolInv
<1>1. ASSUME NEW c \in Callers, NEW t \in Tasks, Enqueue(c, t)
      PROVE  Ledger!Next
  <2>1. t \notin refused /\ t \notin Queued \cup Held \cup executed
    BY <1>1 DEF Enqueue, MayCall, TaskAccounted
  <2>2. /\ Queued' = Queued \cup {t}
        /\ Held' = Held /\ UNCHANGED <<refused, executed, destructor, m_stop>>
    BY <1>1, QueueAppend DEF Enqueue, TypeOK, Queued, Held
  <2>3. StatusOf(t) = "new" /\ StatusOf(t)' = "pending"
    BY <2>1, <2>2 DEF StatusOf
  <2>4. \A u \in Tasks \ {t} : StatusOf(u)' = StatusOf(u)
    BY <2>2 DEF StatusOf
  <2>5. PhaseOf = "open" /\ PhaseOf' = PhaseOf
    BY <1>1, <2>2 DEF Enqueue, MayCall, PhaseOf
  <2>6. Ledger!Move(t, "new", "pending")
    BY <2>3, <2>4, <2>5, MoveOne
  <2>7. QED
    BY <2>5, <2>6 DEF Ledger!Next, Ledger!Accept
<1>2. ASSUME NEW c \in Callers, NEW t \in Tasks, EnqueueThrows(c, t)
      PROVE  Ledger!Next
  <2>1. t \notin refused /\ t \notin Queued \cup Held \cup executed
    BY <1>2 DEF EnqueueThrows, MayCall, TaskAccounted
  <2>2. /\ refused' = refused \cup {t}
        /\ Queued' = Queued /\ Held' = Held /\ UNCHANGED <<executed, destructor, m_stop>>
    BY <1>2 DEF EnqueueThrows, Queued, Held
  <2>3. StatusOf(t) = "new" /\ StatusOf(t)' = "refused"
    BY <2>1, <2>2 DEF StatusOf
  <2>4. \A u \in Tasks \ {t} : StatusOf(u)' = StatusOf(u)
    BY <2>2 DEF StatusOf
  <2>5. PhaseOf = "closed" /\ PhaseOf' = PhaseOf
    BY <1>2, <2>2 DEF EnqueueThrows, MayCall, PhaseOf
  <2>6. Ledger!Move(t, "new", "refused")
    BY <2>3, <2>4, <2>5, MoveOne
  <2>7. QED
    BY <2>5, <2>6 DEF Ledger!Next, Ledger!Refuse
<1>3. ASSUME NEW w \in Workers, Take(w)
      PROVE  Ledger!Next
  <2>1. PICK t \in Tasks : /\ t \in Queued /\ t \notin Queued'
                           /\ Queued = Queued' \cup {t} /\ Held' = Held \cup {t}
    BY <1>3, TakeMoves, QueueTail DEF Take, TypeOK
  <2>2. UNCHANGED <<refused, executed, destructor, m_stop>>
    BY <1>3 DEF Take
  <2>3. t \notin refused /\ t \notin Held \cup executed
    BY <2>1 DEF TaskAccounted, RefusedApart
  <2>4. StatusOf(t) = "pending" /\ StatusOf(t)' = "running"
    BY <2>1, <2>2, <2>3 DEF StatusOf
  <2>5. \A u \in Tasks \ {t} : StatusOf(u)' = StatusOf(u)
    BY <2>1, <2>2 DEF StatusOf
  <2>6. PhaseOf # "gone" /\ PhaseOf' = PhaseOf
    BY <1>3, <2>2 DEF Take, PhaseOf, ShutdownOrder
  <2>7. Ledger!Move(t, "pending", "running")
    BY <2>4, <2>5, <2>6, MoveOne
  <2>8. QED
    BY <2>6, <2>7 DEF Ledger!Next, Ledger!Start
<1>4. ASSUME NEW w \in Workers, Run(w)
      PROVE  Ledger!Next
  <2>1. PICK t \in Tasks : /\ t \in Held /\ Held' = Held \ {t} /\ Queued' = Queued
                           /\ executed' = executed \cup {t}
    BY <1>4, RunMoves DEF Run, TypeOK
  <2>2. UNCHANGED <<refused, destructor, m_stop>>
    BY <1>4 DEF Run
  <2>3. t \notin refused /\ t \notin executed
    BY <2>1 DEF TaskAccounted, RefusedApart
  <2>4. StatusOf(t) = "running" /\ StatusOf(t)' = "done"
    BY <2>1, <2>2, <2>3 DEF StatusOf
  <2>5. \A u \in Tasks \ {t} : StatusOf(u)' = StatusOf(u)
    BY <2>1, <2>2 DEF StatusOf
  <2>6. PhaseOf # "gone" /\ PhaseOf' = PhaseOf
    BY <1>4, <2>2 DEF Run, PhaseOf, ShutdownOrder
  <2>7. Ledger!Move(t, "running", "done")
    BY <2>4, <2>5, <2>6, MoveOne
  <2>8. QED
    BY <2>6, <2>7 DEF Ledger!Next, Ledger!Finish
<1>5. ASSUME UNCHANGED <<m_tasks, task, executed, refused>>,
             \A w \in Workers : (worker'[w] = "run") <=> (worker[w] = "run")
      PROVE  [t \in Tasks |-> StatusOf(t)]' = [t \in Tasks |-> StatusOf(t)]
  BY <1>5, StatusFrame DEF Queued, Held
<1>6. CASE Stop
  <2>1. [t \in Tasks |-> StatusOf(t)]' = [t \in Tasks |-> StatusOf(t)]
    BY <1>5, <1>6 DEF Stop
  <2>2. PhaseOf = "open" /\ PhaseOf' = "closed"
    BY <1>6 DEF Stop, PhaseOf, ShutdownOrder
  <2>3. QED
    BY <2>1, <2>2 DEF Ledger!Next, Ledger!Close
<1>7. CASE Join
  <2>1. [t \in Tasks |-> StatusOf(t)]' = [t \in Tasks |-> StatusOf(t)]
    BY <1>5, <1>7 DEF Join
  <2>2. PhaseOf = "closed" /\ PhaseOf' = "gone"
    BY <1>7 DEF Join, PhaseOf, ShutdownOrder
  <2>3. Held = {} /\ m_tasks = <<>>
    BY <1>7, PoolAssumption DEF Join, Held, ShutdownOrder
  <2>4. Queued = {}
    BY <2>3 DEF Queued
  <2>5. \A t \in Tasks : StatusOf(t) \notin {"pending", "running"}
    BY <2>3, <2>4 DEF StatusOf
  <2>6. QED
    BY <2>1, <2>2, <2>5 DEF Ledger!Next, Ledger!Vanish
<1>8. CASE \/ \E c \in Callers : NotifyOne(c)
           \/ \E w \in Workers : Wait(w) \/ SpuriousWakeup(w) \/ Return(w)
           \/ NotifyAll
           \/ UNCHANGED vars
  <2>1. /\ UNCHANGED <<m_tasks, task, executed, refused, m_stop>>
        /\ destructor' = destructor \/ NotifyAll
        /\ \A w \in Workers : (worker'[w] = "run") <=> (worker[w] = "run")
    BY <1>8 DEF NotifyOne, Waiting, Wait, SpuriousWakeup, Return, NotifyAll, vars, TypeOK
  <2>2. PhaseOf' = PhaseOf
    BY <2>1 DEF NotifyAll, PhaseOf
  <2>3. [t \in Tasks |-> StatusOf(t)]' = [t \in Tasks |-> StatusOf(t)]
    BY <1>5, <2>1
  <2>4. QED
    BY <2>2, <2>3 DEF Ledger!vars
<1>9. QED
  BY <1>1, <1>2, <1>3, <1>4, <1>6, <1>7, <1>8 DEF Next, WorkerStep

\* Whatever callers, workers and the destructor do, a task that enqueue takes runs once, one
\* that it refuses never runs, and the destructor returns when none is left.
THEOREM PoolImplementsLedger == Spec => RefinesLedger
<1>1. Init => Ledger!Init /\ RefusedApart
  <2> SUFFICES ASSUME Init
               PROVE  Ledger!Init /\ RefusedApart
    OBVIOUS
  <2>1. Queued = {} /\ Held = {}
    BY DEF Init, Queued, Held
  <2>2. \A t \in Tasks : StatusOf(t) = "new"
    BY <2>1 DEF Init, StatusOf
  <2>3. PhaseOf = "open"
    BY DEF Init, PhaseOf
  <2>4. QED
    BY <2>2, <2>3 DEF Init, RefusedApart, Ledger!Init
<1>2. QED
  BY <1>1, LedgerStep, RefusedStep, PoolInvariant, PTL DEF Spec, RefinesLedger, Ledger!Spec

===============================================================================
