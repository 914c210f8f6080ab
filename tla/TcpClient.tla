-------------------------------- MODULE TcpClient --------------------------------
(***************************************************************************)
(* A client and its event loop (server/src/tcp_client.cpp, event_loop.cpp, *)
(* timer_queue.cpp): connecting and connecting again, its two buffers, and *)
(* the timers of the loop, which the application uses as well.             *)
(*                                                                         *)
(* One thread runs the loop and a callback is one action.  do_connect      *)
(* closes its socket before it makes the next, so the client has one       *)
(* descriptor, Sock.  A message is a head of HeadLength units and its      *)
(* body, cut anywhere on the wire.                                         *)
(***************************************************************************)
EXTENDS Integers, Sequences, SequencesExt, EventLoop, TimerQueue

CONSTANTS HeadLength,
          Lens,         \* lengths of the bodies the application sends
          Scripts,      \* what a server sends on a connection: sequences of [cmd, len]
          Capacity,     \* of ibuf and obuf
          RetryDelay,   \* connection_cb retries after 2 s
          Delays,       \* of the timers of the application
          LastTime, MaxConnects, MaxSends, MaxTimers   \* bounds, that of the timers for each use

ASSUME ClientAssumption ==
  /\ HeadLength \in Nat \ {0} /\ RetryDelay \in Nat \ {0}
  /\ Lens \subseteq Nat /\ Delays \subseteq Nat /\ Capacity \in Nat
  /\ \A script \in Scripts : script \in Seq([cmd : {"known", "unknown"}, len : Nat])
  /\ LastTime \in Nat /\ LastTime + RetryDelay < Never

VARIABLES
  use,        \* what the client is used for in this behaviour: a bound
  now,
  queue,      \* _timer_que
  loop,       \* the registrations of the event loop
  net_ok,
  ibuf, obuf,
  sock,       \* the socket: [state, script, sent, wire, got]
  ended,      \* "no", "exit" or "abort": exit_log, or an assertion or an invalid copy
  connects,   \* calls of do_connect
  sends,      \* messages taken by send_data
  timers,     \* timers of the application
  handled,    \* units given to callbacks on this connection
  cut,        \* a connection ended in the middle of a message
  fired,      \* timers that have fired: [id, ts, at]
  deleted,    \* timers that have been deleted
  crowded     \* a timer has left a heap of more than four

vars == <<use, now, queue, loop, net_ok, ibuf, obuf, sock, ended, connects, sends, timers, handled,
          cut, fired, deleted, crowded>>

talks == use = "talk"

timing == <<use, now, queue, timers, fired, deleted, crowded>>
talk == <<ibuf, obuf, sends, handled, cut>>

Sock == 1

\* Unit j of a message m is <<m, j>>.
Frame(m) == [j \in 1..HeadLength + m.len |-> <<m, j>>]
Stream(script) == FlattenSeq([i \in DOMAIN script |-> Frame(script[i])])
Streams == [script \in Scripts |-> Stream(script)]
Messages == UNION {{script[i] : i \in DOMAIN script} : script \in Scripts}

\* Unit j of message i that send_data took, of n units.  send_data copies as many units
\* of the body as a head has; the others are what the buffer held before.
Sent(i, len) ==
  [j \in 1..HeadLength + len |->
     [msg |-> i, j |-> j, n |-> HeadLength + len, copied |-> j <= 2 * HeadLength]]

\* The heads handle_read may see at the beginning of a buffer: that of its first message,
\* or any if units of two connections met there.
Heads(buffer) ==
  IF buffer[HeadLength] = <<buffer[1][1], HeadLength>> /\ buffer[1][2] = 1
  THEN {buffer[1][1]} ELSE Messages

Socket(state) == [state |-> state, script |-> <<>>, sent |-> 0, wire |-> <<>>, got |-> <<>>]

Smaller(a, b) == IF a < b THEN a ELSE b

Runs == ended = "no"

-----------------------------------------------------------------------------

\* Mutant of Take: only the head is sure to have room.
Take_Head(out, n, len) ==
  IF Len(out) + HeadLength > Capacity
  THEN [obuf |-> out, sends |-> n, watch |-> FALSE]
  ELSE [obuf |-> SubSeq(out \o Sent(n + 1, len), 1, Smaller(Capacity, Len(out) + HeadLength + len)),
        sends |-> n + 1, watch |-> out = <<>>]

\* send_data: the buffers after it, and whether it has the socket watched.
Take(out, n, len) ==
  IF Len(out) + HeadLength + len > Capacity
  THEN [obuf |-> out, sends |-> n, watch |-> FALSE]
  ELSE [obuf |-> out \o Sent(n + 1, len), sends |-> n + 1, watch |-> out = <<>>]

\* What the application may do in a callback: nothing, or send a message.
Idle == [obuf |-> obuf, sends |-> sends, watch |-> FALSE]
Replies ==
  {Idle} \cup {Take(obuf, sends, len) : len \in IF talks /\ sends < MaxSends THEN Lens ELSE {}}

\* do_connect: connect() is in progress, or done at once and nobody watches the socket,
\* or fails and the process exits.
DoConnect(registered) ==
  /\ connects < MaxConnects
  /\ connects' = connects + 1
  /\ handled' = <<>>
  /\ \/ /\ sock' = Socket("connecting")
        /\ loop' = Watch(registered, Sock, "out")
        /\ net_ok' = FALSE /\ ended' = "no"
        /\ UNCHANGED <<obuf, sends>>
     \/ /\ \E script \in Scripts : sock' = [Socket("up") EXCEPT !.script = script]
        /\ net_ok' = TRUE /\ ended' = "no"
        /\ \E reply \in Replies :
             /\ obuf' = reply.obuf /\ sends' = reply.sends
             /\ loop' = IF reply.watch THEN Watch(registered, Sock, "out") ELSE registered
     \/ /\ sock' = Socket("none")
        /\ loop' = registered
        /\ net_ok' = FALSE /\ ended' = "exit"
        /\ UNCHANGED <<obuf, sends>>

Init ==
  /\ use \in {"talk", "retry", "timers"}
  /\ now = 0 /\ queue = NoTimers /\ timers = 0 /\ fired = <<>> /\ deleted = {} /\ crowded = FALSE
  /\ loop = Watch(NoEvents, Sock, "out") /\ net_ok = FALSE
  /\ ibuf = <<>> /\ obuf = <<>>
  /\ sock = Socket("connecting") /\ connects = 1
  /\ ended = "no" /\ sends = 0 /\ handled = <<>> /\ cut = FALSE

-----------------------------------------------------------------------------
(* the network and the server *)

Resolves ==
  /\ use # "timers"  \* a bound
  /\ sock.state = "connecting"
  /\ \/ \E script \in Scripts : sock' = [sock EXCEPT !.state = "up", !.script = script]
     \/ sock' = [sock EXCEPT !.state = "refused"]
  /\ UNCHANGED <<timing, loop, net_ok, talk, ended, connects>>

ServerSends ==
  /\ talks
  /\ sock.state = "up"
  /\ LET all == Streams[sock.script] IN
       \E n \in sock.sent + 1..Len(all) :
         sock' = [sock EXCEPT !.sent = n, !.wire = @ \o SubSeq(all, sock.sent + 1, n)]
  /\ UNCHANGED <<timing, loop, net_ok, talk, ended, connects>>

ServerCloses ==
  /\ sock.state = "up"
  /\ sock' = [sock EXCEPT !.state = "closed"]
  /\ UNCHANGED <<timing, loop, net_ok, talk, ended, connects>>

-----------------------------------------------------------------------------
(* the client *)

SendData(len) ==
  /\ Runs
  /\ net_ok
  /\ talks /\ sends < MaxSends
  /\ LET after == Take(obuf, sends, len)
     IN /\ obuf' = after.obuf /\ sends' = after.sends
        /\ loop' = IF after.watch THEN Watch(loop, Sock, "out") ELSE loop
  /\ UNCHANGED <<timing, net_ok, ibuf, sock, ended, connects, handled, cut>>

\* connection_cb on a connection that is up, with what the callback of the application
\* sends: nothing, or a message.
Connected ==
  /\ Runs /\ ~net_ok
  /\ Watches(loop, Sock, "out")
  /\ sock.state \in {"up", "closed"}
  /\ net_ok' = TRUE
  /\ \E reply \in Replies :
       /\ obuf' = reply.obuf /\ sends' = reply.sends
       /\ LET free == Unwatch(loop, Sock)
              called == IF reply.watch THEN Watch(free, Sock, "out") ELSE free
              reading == Watch(called, Sock, "in")
          IN loop' = IF reply.obuf # <<>> THEN Watch(reading, Sock, "out") ELSE reading
  /\ UNCHANGED <<timing, ibuf, sock, ended, connects, handled, cut>>

\* connection_cb on a connection that failed: again after RetryDelay.
Refused ==
  /\ Runs /\ ~net_ok
  /\ Watches(loop, Sock, "out")
  /\ sock.state = "refused"
  /\ sock' = [sock EXCEPT !.state = "failed"]
  /\ loop' = Unwatch(loop, Sock)
  /\ queue' = AddTimer(queue, now + RetryDelay, "reconn")
  /\ UNCHANGED <<use, now, timers, fired, deleted, crowded, net_ok, talk, ended, connects>>

\* clean_conn: the buffers keep what they hold.
Clean ==
  /\ cut' = (cut \/ (obuf # <<>> /\ obuf[1].j # 1))
  /\ DoConnect(Unwatch(loop, Sock))
  /\ UNCHANGED timing

Abort ==
  /\ ended' = "abort"
  /\ UNCHANGED <<timing, loop, net_ok, talk, sock, connects>>

\* handle_read leaves its loop when more than the first message is there.
TooMuch(buffer, m) == HeadLength + m.len < Len(buffer)

Read == ibuf \o sock.wire

\* handle_read only takes the data: there is no head, or too much.
HandleRead ==
  /\ Runs /\ net_ok
  /\ Watches(loop, Sock, "in") /\ sock.wire # <<>>
  /\ Len(Read) <= Capacity
  /\ Len(Read) >= HeadLength => \E m \in Heads(Read) : TooMuch(Read, m)
  /\ ibuf' = Read
  /\ sock' = [sock EXCEPT !.wire = <<>>]
  /\ UNCHANGED <<timing, loop, net_ok, obuf, ended, connects, sends, handled, cut>>

\* pop and adjust: the copy of a negative length ends the process.
AfterPop(have, taken) == IF have < taken THEN "abort" ELSE "no"

\* handle_read dispatches the last message.  One that is not there completely is
\* dispatched all the same.
Dispatch ==
  /\ Runs /\ net_ok
  /\ Watches(loop, Sock, "in") /\ sock.wire # <<>>
  /\ Len(Read) \in HeadLength..Capacity
  /\ \E m \in Heads(Read) :
       /\ ~TooMuch(Read, m)
       /\ m.cmd = "known"
       /\ ibuf' = SubSeq(Read, HeadLength + m.len + 1, Len(Read))
       /\ handled' = Append(handled, [m |-> m, units |-> Len(Read)])
       /\ ended' = AfterPop(Len(Read), HeadLength + m.len)
  /\ sock' = [sock EXCEPT !.wire = <<>>]
  /\ \E reply \in Replies :
       /\ obuf' = reply.obuf /\ sends' = reply.sends
       /\ loop' = IF reply.watch THEN Watch(loop, Sock, "out") ELSE loop
  /\ UNCHANGED <<timing, net_ok, connects, cut>>

\* handle_read finds no callback, and the body stays in the buffer.
NoCallback ==
  /\ Runs /\ net_ok
  /\ Watches(loop, Sock, "in") /\ sock.wire # <<>>
  /\ Len(Read) \in HeadLength..Capacity
  /\ \E m \in Heads(Read) : ~TooMuch(Read, m) /\ m.cmd = "unknown"
  /\ ibuf' = SubSeq(Read, HeadLength + 1, Len(Read))
  /\ Clean

\* handle_read asserts that the buffer takes what has arrived.
ReadOverflows ==
  /\ Runs /\ net_ok
  /\ Watches(loop, Sock, "in")
  /\ Len(Read) > Capacity
  /\ Abort

HandleReadEnds ==
  /\ Runs
  /\ net_ok
  /\ Watches(loop, Sock, "in")
  /\ sock.wire = <<>> /\ sock.state = "closed"
  /\ Clean
  /\ UNCHANGED ibuf

\* handle_write asserts that there is something to write.
HandleWrite ==
  /\ Runs
  /\ net_ok
  /\ Watches(loop, Sock, "out")
  /\ \/ obuf = <<>> /\ Abort
     \/ /\ sock.state = "up"
        /\ \E n \in 1..Len(obuf) :
             /\ obuf' = SubSeq(obuf, n + 1, Len(obuf))
             /\ sock' = [sock EXCEPT !.got = @ \o SubSeq(obuf, 1, n)]
             /\ loop' = IF n = Len(obuf) THEN UnwatchOne(loop, Sock, "out") ELSE loop
        /\ UNCHANGED <<timing, net_ok, ibuf, ended, connects, sends, handled, cut>>
     \/ /\ sock.state = "closed" /\ obuf # <<>>
        /\ Clean
        /\ UNCHANGED ibuf

-----------------------------------------------------------------------------
(* timers *)

RunAfter(delay) ==
  /\ Runs /\ ~talks
  /\ timers < MaxTimers[use]
  /\ timers' = timers + 1
  /\ queue' = AddTimer(queue, now + delay, "user")
  /\ UNCHANGED <<use, now, fired, deleted, crowded, loop, net_ok, talk, sock, ended, connects>>

\* The application deletes a timer of its own.
Delete(id) ==
  /\ Runs
  /\ \E i \in DOMAIN queue.lst : queue.lst[i].id = id /\ queue.lst[i].cb = "user"
  /\ queue' = DelTimer(queue, id)
  /\ deleted' = deleted \cup {id}
  /\ crowded' = (crowded \/ Len(queue.lst) > 4)
  /\ UNCHANGED <<use, now, timers, fired, loop, net_ok, talk, sock, ended, connects>>

\* timer_queue_cb: reconn_cb is do_connect.
TimerQueueCb ==
  /\ Runs
  /\ Expired(queue, now)
  /\ queue.lst # <<>> /\ queue.lst[1].ts = queue.pioneer
  /\ \E due \in {GetTimo(queue)} :
        /\ queue' = due.queue
        /\ fired' = fired \o [i \in DOMAIN due.fired |->
                                [id |-> due.fired[i].id, ts |-> due.fired[i].ts, at |-> now]]
        /\ IF \E i \in DOMAIN due.fired : due.fired[i].cb = "reconn"
           THEN DoConnect(loop) /\ UNCHANGED <<ibuf, cut>>
           ELSE UNCHANGED <<loop, net_ok, talk, sock, ended, connects>>
  /\ crowded' = (crowded \/ Len(queue.lst) > 4)
  /\ UNCHANGED <<use, now, timers, deleted>>

Tick ==
  /\ now < LastTime
  /\ ~talks \/ queue.lst # <<>>  \* a bound
  /\ now' = now + 1
  /\ UNCHANGED <<use, queue, timers, fired, deleted, crowded, loop, net_ok, talk, sock, ended,
                 connects>>

-----------------------------------------------------------------------------

Network == Resolves \/ ServerSends \/ ServerCloses
Client == Connected \/ Refused \/ HandleRead \/ Dispatch \/ NoCallback
            \/ ReadOverflows \/ HandleReadEnds \/ HandleWrite \/ \E len \in Lens : SendData(len)
Timers == TimerQueueCb \/ Tick \/ (\E delay \in Delays : RunAfter(delay))
            \/ \E id \in 0..queue.next : Delete(id)

Next == Network \/ Client \/ Timers

\* Time passes, an attempt to connect ends, and epoll reports what is ready.
Spec ==
  /\ Init /\ [][Next]_vars
  /\ WF_vars(Tick) /\ WF_vars(Resolves)
  /\ WF_vars(Connected \/ Refused) /\ WF_vars(TimerQueueCb)

-----------------------------------------------------------------------------

\* What a server gets on a connection, with what is still to be written, is a sequence
\* of messages of the lengths send_data was given, none cut short, unless an earlier connection ended in the
\* middle of a message.
WholeMessages ==
  cut \/ LET all == sock.got \o obuf
         IN /\ \A i \in DOMAIN all :
                 IF i = 1 \/ all[i - 1].j = all[i - 1].n
                 THEN all[i].j = 1
                 ELSE all[i].msg = all[i - 1].msg /\ all[i].j = all[i - 1].j + 1
            /\ obuf # <<>> => Last(obuf).j = Last(obuf).n

\* A callback gets a message that is not whole only just before the process dies.
HandledWhole ==
  \A k \in DOMAIN handled :
    \/ k = Len(handled) /\ ended = "abort"
    \/ handled[k].units = HeadLength + handled[k].m.len

\* handle_write is called only with something to write.
WriteHasData == Runs /\ net_ok /\ Watches(loop, Sock, "out") => obuf # <<>>

\* The units a server gets are the caller's in messages whose body is no longer than a head.
\* In a longer one those past that length are not: send_data does not copy them.
OfCaller(unit) == unit.copied <=> unit.n <= 2 * HeadLength \/ unit.j <= 2 * HeadLength

LongBodiesLoseTheirEnd ==
  LET all == sock.got \o obuf IN \A i \in DOMAIN all : OfCaller(all[i])

\* Messages cross the client whole, in both directions, but for the end of long bodies it
\* sends, and it writes when there is one.
MessagesAreWhole == WholeMessages /\ LongBodiesLoseTheirEnd /\ HandledWhole /\ WriteHasData

\* Each timer is in the heap, has fired or was deleted, and fires once.
EachTimerInOnePlace ==
  LET waiting == {queue.lst[i].id : i \in DOMAIN queue.lst}
      gone == {fired[k].id : k \in DOMAIN fired}
  IN /\ waiting \cup gone \cup deleted = 0..queue.next - 1
     /\ waiting \cap gone = {} /\ waiting \cap deleted = {} /\ gone \cap deleted = {}
     /\ \A k, l \in DOMAIN fired : fired[k].id = fired[l].id => k = l

\* The positions del_timer relies on are those of the heap, no timer is lost, fires twice or
\* fires early, and the heap is in order unless a timer has left more than four.
TimersInPlace ==
  /\ PositionsMatch(queue)
  /\ crowded \/ IsHeap(queue)
  /\ EachTimerInOnePlace
  /\ \A k \in DOMAIN fired : fired[k].at >= fired[k].ts

\* The first connection has failed, no timer has fired or been deleted before, and there is
\* time to try again.
FirstFailed ==
  /\ Runs /\ sock.state = "failed" /\ connects = 1
  /\ fired = <<>> /\ deleted = {} /\ now + RetryDelay <= LastTime

\* The first connection that fails is tried again, unless another timer fires or is deleted.
FirstFailureIsRetried == FirstFailed ~> connects > 1 \/ deleted # {} \/ fired # <<>>

=============================================================================
