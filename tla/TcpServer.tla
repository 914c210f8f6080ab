-------------------------------- MODULE TcpServer --------------------------------
(***************************************************************************)
(* The server (server/src): the acceptor and its limits, the connections   *)
(* with their buffers, the event loop that drives them, and the peers.     *)
(*                                                                         *)
(* One thread runs the loop, so a callback is one action; only do_accept   *)
(* is split, since peers come and go between its calls of accept.  If the  *)
(* configuration asks for threads, do_accept hands each connection to the  *)
(* queue of a reactor thread instead.                                      *)
(*                                                                         *)
(* A descriptor is a number, and a new one is the least that is free.  A   *)
(* message is a head of HeadLength units and its body; a peer sends the    *)
(* messages of its script, cut anywhere.  The callback of a message is the *)
(* user's: it answers with a body of ReplyLength units.                    *)
(***************************************************************************)
EXTENDS Naturals, Sequences, FiniteSets, SequencesExt, EventLoop

CONSTANTS Fds,          \* the reserve and the descriptors free when the server is built,
                        \* numbered from 1; nothing else in the process takes one
          Limits,       \* what the configuration may ask for: the values of _max_conns
          Scripts,      \* what peers send: sequences of [cmd, len]
          HeadLength, ReplyLength,
          LengthLimit,  \* MSG_LENGTH_LIMIT
          Capacity,     \* the largest io_buffer
          MaxClients    \* bound on the peers in a behaviour

ASSUME ServerAssumption ==
  /\ IsFiniteSet(Fds) /\ Cardinality(Fds) > 1 /\ Fds = 1..Cardinality(Fds)
  /\ HeadLength \in Nat \ {0} /\ {ReplyLength, LengthLimit, Capacity} \subseteq Nat
  /\ Limits \subseteq Nat \ {0}
  /\ \A script \in Scripts : script \in Seq([cmd : {"known", "unknown"}, len : Nat])

VARIABLES
  _thd_pool,   \* the configuration asks for reactor threads
  _max_conns,
  _conn_size,  \* length of conns
  used,        \* open descriptors
  _reserve_fd,
  accepting,   \* do_accept: "no", or the value of conn_full, "free" or "full"
  backlog,     \* peers waiting to be accepted
  arrivals,    \* peers there have been
  queue,       \* the messages in the queue of the reactor threads
  _curr_conns,
  conn,        \* descriptor |-> the connection set up on it: [ibuf, obuf, head]
  sock,        \* descriptor |-> the socket: [script, sent, wire, out, closed]
  loop,        \* the registrations of the event loop
  aborted,     \* an assertion of the server has failed
  handled,     \* descriptor |-> frames given to callbacks
  accepted,    \* descriptor |-> number of replies taken by send_data
  flushed,     \* descriptors whose output has once been written completely
  spoiled,     \* descriptors whose output lost its first units
  lost,        \* the acceptor returned while _reserve_fd was closed
  stolen       \* descriptors of connections that the acceptor closed

config == <<_thd_pool, _max_conns, _conn_size>>
vars == <<config, used, _reserve_fd, accepting, backlog, arrivals, queue, _curr_conns, conn,
          sock, loop, aborted, handled, accepted, flushed, spoiled, lost, stolen>>
acceptVars == <<used, _reserve_fd, accepting, backlog, arrivals, queue, lost, stolen>>
history == <<handled, accepted, flushed, spoiled>>

-----------------------------------------------------------------------------
(* frames *)

\* The units of message i of a script, of which the first HeadLength are the head.
Frame(script, i) == [j \in 1..HeadLength + script[i].len |-> <<i, j>>]

Frames(script) == [i \in DOMAIN script |-> Frame(script, i)]

Stream(script) == FlattenSeq(Frames(script))
Streams == [script \in Scripts \cup {<<>>} |-> Stream(script)]

ReplyUnits(n) == [j \in 1..HeadLength + ReplyLength |-> <<n, j>>]

\* The units of the replies 1 to n.
Replies(n) == FlattenSeq([i \in 1..n |-> ReplyUnits(i)])

-----------------------------------------------------------------------------

Lowest(S) == CHOOSE fd \in S : \A other \in S : fd <= other

New == Lowest(Fds \ used)   \* the next descriptor

Live == DOMAIN conn
Loop == ~aborted /\ accepting = "no"   \* the thread of the loop waits in epoll_wait

Init ==
  /\ _thd_pool \in BOOLEAN /\ _max_conns \in Limits
  /\ used = {1} /\ _reserve_fd = 1
  /\ _conn_size = _max_conns + New
  /\ accepting = "no" /\ backlog = 0 /\ arrivals = 0
  /\ queue = <<>> /\ _curr_conns = 0
  /\ conn = <<>> /\ sock = <<>> /\ loop = NoEvents
  /\ aborted = FALSE
  /\ handled = <<>> /\ accepted = <<>>
  /\ flushed = {} /\ spoiled = {} /\ stolen = {}
  /\ lost = FALSE

-----------------------------------------------------------------------------
(* peers *)

PeerConnects ==
  /\ arrivals < MaxClients
  /\ arrivals' = arrivals + 1
  /\ backlog' = backlog + 1
  /\ UNCHANGED <<config, used, _reserve_fd, accepting, queue, _curr_conns, conn, sock, loop,
                 aborted, history, lost, stolen>>

PeerGivesUp ==
  /\ backlog > 0
  /\ backlog' = backlog - 1
  /\ UNCHANGED <<config, used, _reserve_fd, accepting, arrivals, queue, _curr_conns, conn,
                 sock, loop, aborted, history, lost, stolen>>

\* Some more of its script arrives.
PeerSends(fd) ==
  /\ fd \in DOMAIN sock
  /\ ~sock[fd].closed
  /\ LET all == Streams[sock[fd].script] IN
       \E n \in sock[fd].sent + 1..Len(all) :
         sock' = [sock EXCEPT ![fd].sent = n,
                              ![fd].wire = @ \o SubSeq(all, sock[fd].sent + 1, n)]
  /\ UNCHANGED <<config, acceptVars, _curr_conns, conn, loop, aborted, history>>

PeerCloses(fd) ==
  /\ fd \in DOMAIN sock
  /\ ~sock[fd].closed
  /\ sock' = [sock EXCEPT ![fd].closed = TRUE]
  /\ UNCHANGED <<config, acceptVars, _curr_conns, conn, loop, aborted, history>>

-----------------------------------------------------------------------------
(* the acceptor *)

BeginAccept ==
  /\ Loop
  /\ backlog > 0
  /\ accepting' = "free"
  /\ UNCHANGED <<config, used, _reserve_fd, backlog, arrivals, queue, _curr_conns, conn, sock,
                 loop, aborted, history, lost, stolen>>

\* accept gives a descriptor.
Given(full) ==
  /\ ~aborted
  /\ accepting = full
  /\ backlog > 0
  /\ used # Fds
  /\ backlog' = backlog - 1

\* The peer is turned away and the reserve opened again, on the least free descriptor.
TurnAway ==
  /\ Given("full")
  /\ used' = used \cup {New}
  /\ _reserve_fd' = New
  /\ UNCHANGED <<config, accepting, arrivals, queue, _curr_conns, conn, sock, loop, aborted,
                 history, lost, stolen>>

OverLimit ==
  /\ Given("free")
  /\ _curr_conns >= _max_conns
  /\ UNCHANGED <<config, used, _reserve_fd, accepting, arrivals, queue, _curr_conns, conn,
                 sock, loop, aborted, history, lost, stolen>>

\* There is a slot in conns for the descriptor, as do_accept asserts.
HasSlot == New < _conn_size

\* The assertion fails: fewer connections are counted than descriptors are in use.
NoSlot ==
  /\ Given("free")
  /\ _curr_conns < _max_conns
  /\ ~HasSlot
  /\ aborted' = TRUE
  /\ UNCHANGED <<config, used, _reserve_fd, accepting, arrivals, queue, _curr_conns, conn,
                 sock, loop, history, lost, stolen>>

\* The peers of the other connections are silent: a bound.
Silent == \E fd \in DOMAIN sock : sock[fd].script # <<>>
ScriptsNow == IF Silent THEN {<<>>} ELSE Scripts

Socket(script) == [script |-> script, sent |-> 0, wire |-> <<>>, out |-> <<>>, closed |-> FALSE]

\* tcp_conn::init on the new descriptor.
SetUp ==
  /\ Given("free")
  /\ _curr_conns < _max_conns
  /\ HasSlot
  /\ ~_thd_pool
  /\ used' = used \cup {New}
  /\ \E script \in ScriptsNow : sock' = With(sock, New, Socket(script))
  /\ conn' = With(conn, New, [ibuf |-> <<>>, obuf |-> <<>>, head |-> 0])
  /\ loop' = Watch(loop, New, "in")
  /\ _curr_conns' = _curr_conns + 1
  /\ handled' = With(handled, New, <<>>)
  /\ accepted' = With(accepted, New, 0)
  /\ flushed' = flushed \ {New} /\ spoiled' = spoiled \ {New}
  /\ UNCHANGED <<config, _reserve_fd, accepting, arrivals, queue, aborted, lost, stolen>>

\* With threads the connection goes to the queue of one of them.
HandOver ==
  /\ Given("free")
  /\ _curr_conns < _max_conns
  /\ HasSlot
  /\ _thd_pool
  /\ used' = used \cup {New}
  /\ \E script \in ScriptsNow : sock' = With(sock, New, Socket(script))
  /\ queue' = Append(queue, New)
  /\ UNCHANGED <<config, _reserve_fd, accepting, arrivals, _curr_conns, conn, loop, aborted,
                 history, lost, stolen>>

\* Mutant of NoDescriptor: conn_full is not set.
NoDescriptor_Free ==
  /\ ~aborted
  /\ accepting # "no"
  /\ backlog > 0
  /\ used = Fds
  /\ used' = used \ {_reserve_fd}
  /\ sock' = Without(sock, _reserve_fd)
  /\ loop' = Closed(loop, _reserve_fd)
  /\ stolen' = IF _reserve_fd \in Live THEN stolen \cup {_reserve_fd} ELSE stolen
  /\ UNCHANGED <<config, _reserve_fd, accepting, backlog, arrivals, queue, _curr_conns, conn,
                 aborted, history, lost>>

\* EMFILE: close(_reserve_fd) closes whatever has that number now.
NoDescriptor ==
  /\ ~aborted
  /\ accepting # "no"
  /\ backlog > 0
  /\ used = Fds
  /\ accepting' = "full"
  /\ used' = used \ {_reserve_fd}
  /\ sock' = Without(sock, _reserve_fd)
  /\ loop' = Closed(loop, _reserve_fd)
  /\ stolen' = IF _reserve_fd \in Live THEN stolen \cup {_reserve_fd} ELSE stolen
  /\ UNCHANGED <<config, _reserve_fd, backlog, arrivals, queue, _curr_conns, conn, aborted,
                 history, lost>>

\* EAGAIN
EndAccept ==
  /\ ~aborted
  /\ accepting # "no"
  /\ backlog = 0
  /\ accepting' = "no"
  /\ lost' = (lost \/ _reserve_fd \notin used)
  /\ UNCHANGED <<config, used, _reserve_fd, backlog, arrivals, queue, _curr_conns, conn, sock,
                 loop, aborted, history, stolen>>

\* msg_comming_cb: nobody makes the tcp_conn of a descriptor with threads, so conns[fd]
\* is null and the connection is dropped, its descriptor left open.
MessageComes ==
  /\ queue # <<>>
  /\ queue' = <<>>
  /\ UNCHANGED <<config, used, _reserve_fd, accepting, backlog, arrivals, _curr_conns, conn,
                 sock, loop, aborted, history, lost, stolen>>

-----------------------------------------------------------------------------
(* a connection *)

\* clean_conn
Clean(fd) ==
  /\ conn' = Without(conn, fd)
  /\ sock' = Without(sock, fd)
  /\ loop' = Unwatch(loop, fd)
  /\ used' = used \ {fd}
  /\ _curr_conns' = _curr_conns - 1
  /\ stolen' = stolen \ {fd}
  /\ UNCHANGED <<config, _reserve_fd, accepting, backlog, arrivals, queue, aborted, history, lost>>

Abort ==
  /\ aborted' = TRUE
  /\ UNCHANGED <<config, acceptVars, _curr_conns, conn, sock, loop, history>>

\* A state of handle_read between two messages: what is left of the buffers, the frames
\* handled, the replies taken, and the end: "more", "wait", "clean" or "abort".
Work(c, fd) == [ibuf |-> c.ibuf, obuf |-> c.obuf, head |-> c.head, frames |-> handled[fd],
                replies |-> accepted[fd], spoilt |-> fd \in spoiled, end |-> "more"]

\* tcp_conn::send_data.  If there is no room for the body, the units of a head are
\* popped, from the front; then the buffer does not begin at 0 and the next call fails.
Reply(work) ==
  LET units == ReplyUnits(work.replies + 1)
      room == Capacity - Len(work.obuf)
  IN IF work.obuf # <<>> /\ work.head # 0 THEN [work EXCEPT !.end = "abort"]
     ELSE IF room < HeadLength THEN work
     ELSE IF room < Len(units)
          THEN LET left == SubSeq(work.obuf \o SubSeq(units, 1, HeadLength),
                                  HeadLength + 1, Len(work.obuf) + HeadLength)
               IN [work EXCEPT !.obuf = left,
                               !.head = IF left = <<>> THEN 0 ELSE HeadLength,
                               !.spoilt = @ \/ work.obuf # <<>>]
     ELSE [work EXCEPT !.obuf = @ \o units, !.head = 0, !.replies = @ + 1]

\* Mutant of IsHalf: a unit more than the message must be there.
IsHalf_More(work, len) == Len(work.ibuf) <= HeadLength + len

\* The message is not there completely.
IsHalf(work, len) == Len(work.ibuf) < HeadLength + len

\* Mutant of Pop: one unit stays.
Pop_Less(buffer, n) == IF n = 0 THEN buffer ELSE SubSeq(buffer, n, Len(buffer))

Pop(buffer, n) == SubSeq(buffer, n + 1, Len(buffer))

\* One round of the loop over messages.  After the head of a message without a body the
\* buffer may be empty and gone, and popping the body fails an assertion.
Message(work, script) ==
  IF Len(work.ibuf) < HeadLength THEN [work EXCEPT !.end = "wait"]
  ELSE LET m == script[work.ibuf[1][1]]
           after == [work EXCEPT !.ibuf = Pop(@, HeadLength + m.len),
                                 !.frames = Append(@, SubSeq(work.ibuf, 1, HeadLength + m.len))]
       IN CASE m.len > LengthLimit -> [work EXCEPT !.end = "clean"]
            [] m.len <= LengthLimit /\ IsHalf(work, m.len) -> [work EXCEPT !.end = "wait"]
            [] m.len <= LengthLimit /\ ~IsHalf(work, m.len) /\ m.cmd = "unknown" ->
                 [work EXCEPT !.end = "clean"]
            [] OTHER ->
                 IF m.len = 0 /\ Len(work.ibuf) = HeadLength
                 THEN [Reply(after) EXCEPT !.end = "abort"]
                 ELSE Reply(after)

Round(work, script) == IF work.end = "more" THEN Message(work, script) ELSE work

\* The loop: a round that is not the last takes a unit or more from the buffer.  (The choice
\* from one element names the work before a round, which TLC then computes once.)
Messages(work, script) ==
  LET rounds[n \in 0..Len(work.ibuf) + 1] ==
        IF n = 0 THEN work
        ELSE CHOOSE next \in {Round(last, script) : last \in {rounds[n - 1]}} : TRUE
  IN rounds[Len(work.ibuf) + 1]

\* handle_read with data: read_data, the loop, and adjust.  If the output was empty, the
\* first reply has it watched.
HandleRead(fd) ==
  /\ Loop
  /\ fd \in Live \cap DOMAIN sock
  /\ Watches(loop, fd, "in")
  /\ sock[fd].wire # <<>>
  /\ Len(conn[fd].ibuf) + Len(sock[fd].wire) <= Capacity
  /\ LET read == [conn[fd] EXCEPT !.ibuf = @ \o sock[fd].wire]
     IN \E work \in {Messages(Work(read, fd), sock[fd].script)} :
        IF work.end = "clean" THEN Clean(fd)
        ELSE /\ aborted' = (work.end = "abort")
             /\ conn' = [conn EXCEPT ![fd] = [ibuf |-> work.ibuf, obuf |-> work.obuf,
                                              head |-> work.head]]
             /\ sock' = [sock EXCEPT ![fd].wire = <<>>]
             /\ loop' = IF conn[fd].obuf = <<>> /\ work.replies > accepted[fd]
                        THEN Watch(loop, fd, "out") ELSE loop
             /\ handled' = [handled EXCEPT ![fd] = work.frames]
             /\ accepted' = [accepted EXCEPT ![fd] = work.replies]
             /\ spoiled' = IF work.spoilt THEN spoiled \cup {fd} ELSE spoiled
             /\ UNCHANGED <<config, acceptVars, _curr_conns, flushed>>

\* handle_read closes the connection: its peer has, or no buffer is large enough.
HandleReadEnds(fd) ==
  /\ Loop
  /\ fd \in Live \cap DOMAIN sock
  /\ Watches(loop, fd, "in")
  /\ \/ sock[fd].wire = <<>> /\ sock[fd].closed
     \/ Len(conn[fd].ibuf) + Len(sock[fd].wire) > Capacity
  /\ Clean(fd)

\* handle_write: as much as the socket takes.
HandleWrite(fd) ==
  /\ Loop
  /\ fd \in Live \cap DOMAIN sock
  /\ Watches(loop, fd, "out")
  /\ ~sock[fd].closed
  /\ conn[fd].head = 0
  /\ \E n \in 0..Len(conn[fd].obuf) :
       /\ n > 0 \/ conn[fd].obuf = <<>>
       /\ conn' = [conn EXCEPT ![fd].obuf = Pop(@, n)]
       /\ sock' = [sock EXCEPT ![fd].out = @ \o SubSeq(conn[fd].obuf, 1, n)]
       /\ IF n = Len(conn[fd].obuf)
          THEN /\ loop' = UnwatchOne(loop, fd, "out")
               /\ flushed' = flushed \cup {fd}
          ELSE UNCHANGED <<loop, flushed>>
  /\ UNCHANGED <<config, acceptVars, _curr_conns, aborted, handled, accepted, spoiled>>

HandleWriteFails(fd) ==
  /\ Loop
  /\ fd \in Live \cap DOMAIN sock
  /\ Watches(loop, fd, "out")
  /\ IF conn[fd].head # 0 THEN Abort ELSE sock[fd].closed /\ Clean(fd)

-----------------------------------------------------------------------------

Peers == PeerConnects \/ PeerGivesUp \/ \E fd \in Fds : PeerSends(fd) \/ PeerCloses(fd)

Accept ==
  \/ BeginAccept \/ TurnAway \/ OverLimit \/ NoSlot \/ SetUp \/ HandOver
  \/ NoDescriptor \/ EndAccept

Connection(fd) == HandleRead(fd) \/ HandleReadEnds(fd) \/ HandleWrite(fd) \/ HandleWriteFails(fd)

Next == Peers \/ Accept \/ MessageComes \/ \E fd \in Fds : Connection(fd)

\* epoll reports what stays ready, and process_evs takes every report.
Spec ==
  /\ Init /\ [][Next]_vars
  /\ WF_vars(BeginAccept \/ EndAccept) /\ WF_vars(TurnAway \/ OverLimit \/ NoSlot \/ SetUp \/ HandOver)
  /\ \A fd \in Fds : WF_vars(HandleRead(fd) \/ HandleReadEnds(fd))

-----------------------------------------------------------------------------

\* What callbacks get are the messages the peer sent, whole and in order, however the
\* stream was cut and however many arrive at once.
FramesAreWhole ==
  \A fd \in Live \cap DOMAIN sock :
    \A i \in DOMAIN handled[fd] : handled[fd][i] = Frame(sock[fd].script, i)

\* What a peer receives is the beginning of the replies, one after the other, unless a
\* reply that did not fit took the first units of the output with it.
RepliesAreWhole ==
  \A fd \in Live \cap DOMAIN sock :
    fd \in spoiled \/ sock[fd].out \o conn[fd].obuf = Replies(accepted[fd])

\* Messages cross the server whole, in both directions.
MessagesAreWhole == FramesAreWhole /\ RepliesAreWhole

\* The loop stops watching a connection only once its output has been written
\* completely: up to its first reply every connection is read, and closed with its peer.
DeafOnlyAfterReply ==
  \A fd \in Live \cap DOMAIN sock :
    ~Watches(loop, fd, "in") => fd \in flushed \/ lost

\* The acceptor closes the descriptor of a connection only if it once returned while
\* its reserve was closed, because the peer it had made room for was gone.
StolenOnlyAfterLoss == stolen # {} => lost

\* With reactor threads the descriptors of all slots are in use, by connections that were
\* handed over and that nobody counts or closes.
SlotsRunOut == _thd_pool /\ _curr_conns = 0 /\ \A fd \in Fds : fd < _conn_size => fd \in used

\* The server aborts only on a message without a body at the end of what it has read, on
\* output for which there was no room, or when slots run out; so without threads the
\* count of connections keeps descriptors within conns.
AbortHasCause ==
  aborted =>
    \/ \E fd \in Live : \/ fd \in spoiled
                        \/ handled[fd] # <<>> /\ Len(Last(handled[fd])) = HeadLength
    \/ SlotsRunOut

\* Losses have the causes above and no others: not the order in which connections come
\* and go nor, without threads, their number.
LossHasCause == StolenOnlyAfterLoss /\ AbortHasCause

\* A first request that has arrived whole is handled, or its connection closed, unless
\* the server aborts or is left without descriptors.
FirstRequestIsHandled ==
  \A fd \in Fds :
    fd \in Live \cap DOMAIN sock /\ handled[fd] = <<>> /\ sock[fd].script # <<>>
         /\ Len(sock[fd].wire) >= HeadLength + sock[fd].script[1].len
      ~> aborted \/ lost \/ used = Fds \/ fd \notin Live \/ handled[fd] # <<>>

=============================================================================
