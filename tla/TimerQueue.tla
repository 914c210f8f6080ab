------------------------------- MODULE TimerQueue -------------------------------
(***************************************************************************)
(* The timers of an event_loop (server/src/timer_queue.cpp): a binary heap *)
(* on time stamps, the position of each timer in it, and one timerfd.      *)
(*                                                                         *)
(* A queue is [lst, position, next, pioneer, armed]: the heap, the map     *)
(* from identifiers to positions, _next_time_id, _pioneer, and the time    *)
(* the timerfd is set to.  A timer is [id, ts, cb]; an interval has no     *)
(* effect, as get_timo drops the timers it should add again.  Positions    *)
(* count from 1.                                                           *)
(***************************************************************************)
EXTENDS Naturals, Sequences, SequencesExt

CONSTANT Never   \* (uint64_t)-1, later than every time stamp

ASSUME NeverAssumption == Never \in Nat

NoTimers == [lst |-> <<>>, position |-> <<>>, next |-> 0, pioneer |-> Never, armed |-> Never]

\* The element of a set that has one.
Only(S) == CHOOSE x \in S : TRUE

Swap(q, i, j) ==
  [q EXCEPT !.lst = [@ EXCEPT ![i] = q.lst[j], ![j] = q.lst[i]],
            !.position = [@ EXCEPT ![q.lst[i].id] = j, ![q.lst[j].id] = i]]

\* A round of the loop of heap_add: the timer at w.at rises above its parent.
Rise(w) ==
  IF w.at = 1 \/ w.queue.lst[w.at].ts >= w.queue.lst[w.at \div 2].ts THEN w
  ELSE [queue |-> Swap(w.queue, w.at, w.at \div 2), at |-> w.at \div 2]

\* The loop, which goes up at most as often as there are positions below i.
SiftUp(q, i) ==
  LET rounds[n \in 0..i] ==
        IF n = 0 THEN [queue |-> q, at |-> i] ELSE Only({Rise(w) : w \in {rounds[n - 1]}})
  IN rounds[i].queue

HeapAdd(q, te) ==
  SiftUp([q EXCEPT !.lst = Append(@, te),
                   !.position = [x \in DOMAIN @ \cup {te.id} |->
                                   IF x = te.id THEN Len(q.lst) + 1 ELSE @[x]]],
         Len(q.lst) + 1)

\* The position heap_hold swaps i with: the least of i and its children, the leftmost
\* of equals.
LeastOf(q, i) ==
  LET family == {i, 2 * i, 2 * i + 1} \cap DOMAIN q.lst
  IN CHOOSE j \in family :
       \A k \in family : q.lst[j].ts < q.lst[k].ts \/ (q.lst[j].ts = q.lst[k].ts /\ j <= k)

\* heap_hold: the timer at i sinks below its least child, by one level only: it calls itself
\* for i again, where the least of the family now is.
HeapHold(q, i) ==
  IF i \notin DOMAIN q.lst \/ LeastOf(q, i) = i THEN q ELSE Swap(q, i, LeastOf(q, i))

\* Mutant of Drop: the last timer moves and its position does not.
Drop_Unmoved(q, i) ==
  LET gone == q.lst[i].id
      moved == Last(q.lst)
  IN [q EXCEPT !.lst = Front([@ EXCEPT ![i] = moved]),
               !.position = [x \in DOMAIN @ \ {gone} |-> @[x]]]

\* The last timer takes position i and the timer there is gone.
Drop(q, i) ==
  LET gone == q.lst[i].id
      moved == Last(q.lst)
  IN [q EXCEPT !.lst = Front([@ EXCEPT ![i] = moved]),
               !.position = [x \in DOMAIN @ \ {gone} |-> IF x = moved.id THEN i ELSE @[x]]]

\* heap_del and heap_pop: what moves to i may sink, and never rises.
HeapDel(q, i) == Only({HeapHold(left, i) : left \in {Drop(q, i)}})

\* Mutant of Reset: the timerfd keeps its time.
Reset_Pioneer(q, ts) == [q EXCEPT !.pioneer = ts]

\* _pioneer and reset_timo
Reset(q, ts) == [q EXCEPT !.pioneer = ts, !.armed = ts]

\* add_timer, from run_at, run_after and run_every
AddTimer(q, ts, cb) ==
  LET te == [id |-> q.next, ts |-> ts, cb |-> cb]
      Arm(added) ==
        IF added.lst[1].ts < q.pioneer THEN Reset(added, added.lst[1].ts) ELSE added
  IN Only({Arm(added) : added \in {HeapAdd([q EXCEPT !.next = @ + 1], te)}})

\* del_timer
DelTimer(q, id) ==
  LET Arm(left) == IF left.lst = <<>> THEN Reset(left, Never)
                   ELSE IF left.lst[1].ts < left.pioneer THEN Reset(left, left.lst[1].ts)
                   ELSE left
  IN IF id \notin DOMAIN q.position THEN q
     ELSE Only({Arm(left) : left \in {HeapDel(q, q.position[id])}})

\* A round of the loop of get_timo.
Pop(w) ==
  IF w.queue.lst = <<>> \/ w.queue.lst[1].ts # w.queue.pioneer THEN w
  ELSE [queue |-> HeapDel(w.queue, 1), fired |-> Append(w.fired, w.queue.lst[1])]

\* get_timo takes the timers of the time stamp _pioneer only, and does not set the
\* timerfd again.
GetTimo(q) ==
  LET rounds[n \in 0..Len(q.lst)] ==
        IF n = 0 THEN [queue |-> q, fired |-> <<>>] ELSE Only({Pop(w) : w \in {rounds[n - 1]}})
  IN rounds[Len(q.lst)]

\* The timerfd is never read: once its time has come it stays readable.
Expired(q, now) == q.armed # Never /\ q.armed <= now

-----------------------------------------------------------------------------

IsHeap(q) == \A i \in DOMAIN q.lst : i > 1 => q.lst[i \div 2].ts <= q.lst[i].ts

PositionsMatch(q) ==
  /\ DOMAIN q.position = {q.lst[i].id : i \in DOMAIN q.lst}
  /\ \A i \in DOMAIN q.lst : q.position[q.lst[i].id] = i

=============================================================================
