------------------------------ MODULE TaskLedger ------------------------------
(***************************************************************************)
(* What a caller of dt::thread::ThreadPool may rely on: a task handed over *)
(* while the pool is open runs once, a task handed over after it closed is *)
(* refused, and the pool is gone only when nothing is left to run.         *)
(***************************************************************************)
CONSTANTS Tasks

VARIABLES
  status,  \* what has become of each task
  phase    \* the life of the pool

vars == <<status, phase>>

Init ==
  /\ status = [t \in Tasks |-> "new"]
  /\ phase = "open"

Move(t, from, to) ==
  /\ status[t] = from
  /\ status' = [status EXCEPT ![t] = to]
  /\ UNCHANGED phase

Accept(t) == phase = "open" /\ Move(t, "new", "pending")
Refuse(t) == phase = "closed" /\ Move(t, "new", "refused")
Start(t)  == phase # "gone" /\ Move(t, "pending", "running")
Finish(t) == phase # "gone" /\ Move(t, "running", "done")

Close ==
  /\ phase = "open"
  /\ phase' = "closed"
  /\ UNCHANGED status

Vanish ==
  /\ phase = "closed"
  /\ \A t \in Tasks : status[t] \notin {"pending", "running"}
  /\ phase' = "gone"
  /\ UNCHANGED status

Next ==
  \/ \E t \in Tasks : Accept(t) \/ Refuse(t) \/ Start(t) \/ Finish(t)
  \/ Close
  \/ Vanish

Spec == Init /\ [][Next]_vars

===============================================================================
