-------------------------------- MODULE EventLoop --------------------------------
(***************************************************************************)
(* The registrations of an event_loop (server/src/event_loop.cpp).         *)
(*                                                                         *)
(* A loop is [io, ep]: io is _io_evs, what the loop believes it watches,   *)
(* and ep is what epoll watches, both functions from descriptors to sets   *)
(* of events.  Closing a descriptor removes it from ep and not from io.    *)
(***************************************************************************)
EXTENDS Naturals

NoEvents == [io |-> <<>>, ep |-> <<>>]

Without(f, fd) == [x \in DOMAIN f \ {fd} |-> f[x]]
With(f, fd, events) == [x \in DOMAIN f \cup {fd} |-> IF x = fd THEN events ELSE f[x]]

\* Mutant of Watch: the new event replaces those watched.
Watch_Only(loop, fd, event) ==
  [io |-> With(loop.io, fd, {event}), ep |-> With(loop.ep, fd, {event})]

\* add_ioev: EPOLL_CTL_ADD for a descriptor the loop does not know, EPOLL_CTL_MOD for
\* one it knows, which fails if epoll does not.
Watch(loop, fd, event) ==
  IF fd \notin DOMAIN loop.io
  THEN [io |-> With(loop.io, fd, {event}), ep |-> With(loop.ep, fd, {event})]
  ELSE LET mask == loop.io[fd] \cup {event}
       IN [io |-> With(loop.io, fd, mask),
           ep |-> IF fd \in DOMAIN loop.ep THEN With(loop.ep, fd, mask) ELSE loop.ep]

\* del_ioev(fd)
Unwatch(loop, fd) == [io |-> Without(loop.io, fd), ep |-> Without(loop.ep, fd)]

\* del_ioev(fd, mask): EPOLL_CTL_DEL also when an event remains.
UnwatchOne(loop, fd, event) ==
  IF fd \notin DOMAIN loop.io THEN loop
  ELSE [io |-> IF loop.io[fd] = {event} THEN Without(loop.io, fd)
               ELSE With(loop.io, fd, loop.io[fd] \ {event}),
        ep |-> Without(loop.ep, fd)]

\* The kernel forgets a descriptor that is closed.
Closed(loop, fd) == [loop EXCEPT !.ep = Without(@, fd)]

Watches(loop, fd, event) == fd \in DOMAIN loop.ep /\ event \in loop.ep[fd]

=============================================================================
