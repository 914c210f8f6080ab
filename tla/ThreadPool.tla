------------------------------ MODULE ThreadPool ------------------------------
(***************************************************************************)
(* The engine's worker pool, thread_manager/thread_pool.h: a FIFO of tasks *)
(* behind one mutex and one condition variable.  The controller owns two   *)
(* of them, one for inserts and one for flushes.                           *)
(*                                                                         *)
(* A critical section of m_queue_mutex is one action.  notify_one and      *)
(* notify_all run after the mutex is released, so each is an action of its *)
(* own, and a waiting thread may also wake up spuriously.  A task is the   *)
(* packaged_task of one call of enqueue: what it throws goes to its        *)
(* future, so running it always brings the worker back to its loop.        *)
(***************************************************************************)
EXTENDS Naturals, Sequences

CONSTANTS
  Workers,   \* the threads the constructor starts
  Callers,   \* the threads that call enqueue
  Tasks,     \* the calls of enqueue, each with a task of its own
  NoTask     \* the empty std::function a worker holds between two tasks

ASSUME PoolAssumption ==
  /\ Workers # {}
  /\ NoTask \notin Tasks

VARIABLES
  m_tasks,     \* the queue
  m_stop,      \* set by the destructor
  worker,      \* where each worker is in its loop
  task,        \* the task each worker holds
  notifying,   \* the callers between the push and notify_one
  destructor,  \* where the destructor is
  accepted,    \* the tasks enqueue has pushed
  refused,     \* the tasks for which enqueue has thrown
  executed     \* the tasks that have run

vars == <<m_tasks, m_stop, worker, task, notifying, destructor,
          accepted, refused, executed>>

Waiting == {w \in Workers : worker[w] = "wait"}

Init ==
  /\ m_tasks = <<>>
  /\ m_stop = FALSE
  /\ worker = [w \in Workers |-> "lock"]
  /\ task = [w \in Workers |-> NoTask]
  /\ notifying = {}
  /\ destructor = "live"
  /\ accepted = {}
  /\ refused = {}
  /\ executed = {}

-----------------------------------------------------------------------------
(* enqueue *)

\* A caller may start a call while the pool object still exists.
MayCall(c, t) ==
  /\ c \notin notifying
  /\ destructor # "joined"
  /\ t \notin accepted \cup refused

\* Mutant of Enqueue: accepts a task after the destructor has set m_stop.
Enqueue_IgnoresStop(c, t) ==
  /\ MayCall(c, t)
  /\ m_tasks' = Append(m_tasks, t)
  /\ accepted' = accepted \cup {t}
  /\ notifying' = notifying \cup {c}
  /\ UNCHANGED <<m_stop, worker, task, destructor, refused, executed>>

\* Mutant of Enqueue: forgets notify_one.
Enqueue_Silent(c, t) ==
  /\ MayCall(c, t)
  /\ ~m_stop
  /\ m_tasks' = Append(m_tasks, t)
  /\ accepted' = accepted \cup {t}
  /\ UNCHANGED <<m_stop, worker, task, notifying, destructor, refused, executed>>

Enqueue(c, t) ==
  /\ MayCall(c, t)
  /\ ~m_stop
  /\ m_tasks' = Append(m_tasks, t)
  /\ accepted' = accepted \cup {t}
  /\ notifying' = notifying \cup {c}
  /\ UNCHANGED <<m_stop, worker, task, destructor, refused, executed>>

EnqueueThrows(c, t) ==
  /\ MayCall(c, t)
  /\ m_stop
  /\ refused' = refused \cup {t}
  /\ UNCHANGED <<m_tasks, m_stop, worker, task, notifying, destructor,
                 accepted, executed>>

NotifyOne(c) ==
  /\ c \in notifying
  /\ notifying' = notifying \ {c}
  /\ \/ /\ Waiting = {}
        /\ UNCHANGED worker
     \/ \E w \in Waiting : worker' = [worker EXCEPT ![w] = "lock"]
  /\ UNCHANGED <<m_tasks, m_stop, task, destructor, accepted, refused, executed>>

-----------------------------------------------------------------------------
(* the loop of a worker *)

Wait(w) ==
  /\ worker[w] = "lock"
  /\ ~m_stop
  /\ m_tasks = <<>>
  /\ worker' = [worker EXCEPT ![w] = "wait"]
  /\ UNCHANGED <<m_tasks, m_stop, task, notifying, destructor, accepted,
                 refused, executed>>

SpuriousWakeup(w) ==
  /\ worker[w] = "wait"
  /\ worker' = [worker EXCEPT ![w] = "lock"]
  /\ UNCHANGED <<m_tasks, m_stop, task, notifying, destructor, accepted,
                 refused, executed>>

\* Mutant of Return: leaves as soon as m_stop is set.
Return_Undrained(w) ==
  /\ worker[w] = "lock"
  /\ m_stop
  /\ worker' = [worker EXCEPT ![w] = "returned"]
  /\ UNCHANGED <<m_tasks, m_stop, task, notifying, destructor, accepted,
                 refused, executed>>

Return(w) ==
  /\ worker[w] = "lock"
  /\ m_stop
  /\ m_tasks = <<>>
  /\ worker' = [worker EXCEPT ![w] = "returned"]
  /\ UNCHANGED <<m_tasks, m_stop, task, notifying, destructor, accepted,
                 refused, executed>>

\* Mutant of Take: reads the front of the queue and does not pop it.
Take_NoPop(w) ==
  /\ worker[w] = "lock"
  /\ m_tasks # <<>>
  /\ task' = [task EXCEPT ![w] = Head(m_tasks)]
  /\ worker' = [worker EXCEPT ![w] = "run"]
  /\ UNCHANGED <<m_tasks, m_stop, notifying, destructor, accepted, refused,
                 executed>>

Take(w) ==
  /\ worker[w] = "lock"
  /\ m_tasks # <<>>
  /\ task' = [task EXCEPT ![w] = Head(m_tasks)]
  /\ m_tasks' = Tail(m_tasks)
  /\ worker' = [worker EXCEPT ![w] = "run"]
  /\ UNCHANGED <<m_stop, notifying, destructor, accepted, refused, executed>>

Run(w) ==
  /\ worker[w] = "run"
  /\ executed' = executed \cup {task[w]}
  /\ task' = [task EXCEPT ![w] = NoTask]
  /\ worker' = [worker EXCEPT ![w] = "lock"]
  /\ UNCHANGED <<m_tasks, m_stop, notifying, destructor, accepted, refused>>

-----------------------------------------------------------------------------
(* ~ThreadPool *)

Stop ==
  /\ destructor = "live"
  /\ m_stop' = TRUE
  /\ destructor' = "stopped"
  /\ UNCHANGED <<m_tasks, worker, task, notifying, accepted, refused, executed>>

\* Mutant of NotifyAll: notify_one where notify_all is needed.
NotifyAll_One ==
  /\ destructor = "stopped"
  /\ \/ /\ Waiting = {}
        /\ UNCHANGED worker
     \/ \E w \in Waiting : worker' = [worker EXCEPT ![w] = "lock"]
  /\ destructor' = "joining"
  /\ UNCHANGED <<m_tasks, m_stop, task, notifying, accepted, refused, executed>>

NotifyAll ==
  /\ destructor = "stopped"
  /\ worker' = [w \in Workers |-> IF worker[w] = "wait" THEN "lock" ELSE worker[w]]
  /\ destructor' = "joining"
  /\ UNCHANGED <<m_tasks, m_stop, task, notifying, accepted, refused, executed>>

Join ==
  /\ destructor = "joining"
  /\ \A w \in Workers : worker[w] = "returned"
  /\ destructor' = "joined"
  /\ UNCHANGED <<m_tasks, m_stop, worker, task, notifying, accepted, refused,
                 executed>>

-----------------------------------------------------------------------------

\* The steps a worker takes by itself once it is awake.
WorkerStep(w) == Wait(w) \/ Return(w) \/ Take(w) \/ Run(w)

Next ==
  \/ \E c \in Callers, t \in Tasks : Enqueue(c, t) \/ EnqueueThrows(c, t)
  \/ \E c \in Callers : NotifyOne(c)
  \/ \E w \in Workers : WorkerStep(w) \/ SpuriousWakeup(w)
  \/ Stop
  \/ NotifyAll
  \/ Join

Spec == Init /\ [][Next]_vars

\* A runnable thread runs: a worker takes its next step, a caller that has
\* pushed reaches its notify_one, a destructor that has begun goes on.
\* Nobody has to call enqueue or the destructor, and a spurious wakeup is
\* never owed.
Fairness ==
  /\ \A w \in Workers : WF_vars(WorkerStep(w))
  /\ \A c \in Callers : WF_vars(NotifyOne(c))
  /\ WF_vars(NotifyAll)
  /\ WF_vars(Join)

FairSpec == Spec /\ Fairness

-----------------------------------------------------------------------------

\* The type invariant.
TypeOK ==
  /\ m_tasks \in Seq(Tasks)
  /\ m_stop \in BOOLEAN
  /\ worker \in [Workers -> {"lock", "wait", "run", "returned"}]
  /\ task \in [Workers -> Tasks \cup {NoTask}]
  /\ \A w \in Workers : worker[w] = "run" => task[w] \in Tasks
  /\ notifying \subseteq Callers
  /\ destructor \in {"live", "stopped", "joining", "joined"}
  /\ accepted \subseteq Tasks
  /\ refused \subseteq Tasks
  /\ executed \subseteq Tasks

Queued == {m_tasks[i] : i \in 1..Len(m_tasks)}

\* What the workers hold between Take and the end of Run.
Held == {task[w] : w \in {v \in Workers : worker[v] = "run"}}

\* Every task enqueue accepted is in exactly one place: queued at one
\* position, held by one worker, or executed.  So no task is lost on its way
\* and none runs twice, whichever workers race for the queue.
TaskAccounted ==
  /\ accepted = Queued \cup Held \cup executed
  /\ Queued \cap (Held \cup executed) = {}
  /\ Held \cap executed = {}
  /\ \A i, j \in 1..Len(m_tasks) : m_tasks[i] = m_tasks[j] => i = j
  /\ \A v, w \in Workers :
       worker[v] = "run" /\ worker[w] = "run" /\ task[v] = task[w] => v = w

\* No wake-up is lost between the push and notify_one: while a task is queued,
\* some worker is awake and will look at the queue, or a caller still owes its
\* notify_one.
NoLostWakeup ==
  m_tasks # <<>> =>
    \/ \E w \in Workers : worker[w] \in {"lock", "run"}
    \/ notifying # {}

\* The destructor joins only once every accepted task has run: a task queued
\* before m_stop was set is executed, not dropped.
JoinedMeansDrained ==
  destructor = "joined" => executed = accepted

\* Once the destructor has broadcast, no worker goes back to sleep, so join
\* cannot wait for a sleeping thread.
NobodySleepsAfterBroadcast ==
  destructor \in {"joining", "joined"} => Waiting = {}

\* What the other invariants need to be inductive: m_stop is the destructor's,
\* a worker returns only from a stopped and empty pool, and join waits for all.
ShutdownOrder ==
  /\ m_stop <=> destructor # "live"
  /\ \A w \in Workers : worker[w] = "returned" => m_stop /\ m_tasks = <<>>
  /\ destructor = "joined" => \A w \in Workers : worker[w] = "returned"

PoolInv ==
  /\ TypeOK
  /\ TaskAccounted
  /\ ShutdownOrder
  /\ NoLostWakeup
  /\ NobodySleepsAfterBroadcast

\* Every accepted task is eventually executed, destructor or not.
AcceptedTaskRuns ==
  \A t \in Tasks : t \in accepted ~> t \in executed

\* A destructor that has begun returns.
DestructorReturns ==
  destructor = "stopped" ~> destructor = "joined"

\* What callers and the destructor wait for happens.
PoolFinishes == AcceptedTaskRuns /\ DestructorReturns

-----------------------------------------------------------------------------
(* refinement *)

StatusOf(t) ==
  IF t \in refused THEN "refused"
  ELSE IF t \in executed THEN "done"
  ELSE IF t \in Held THEN "running"
  ELSE IF t \in Queued THEN "pending"
  ELSE "new"

PhaseOf ==
  IF destructor = "joined" THEN "gone"
  ELSE IF m_stop THEN "closed"
  ELSE "open"

Ledger == INSTANCE TaskLedger
  WITH status <- [t \in Tasks |-> StatusOf(t)], phase <- PhaseOf

\* The pool keeps the promise of TaskLedger: whatever the interleaving of
\* callers, workers and destructor, each task goes through
\* new - pending - running - done, or is refused, and the pool vanishes only
\* with nothing pending or running.
RefinesLedger == Ledger!Spec

===============================================================================
