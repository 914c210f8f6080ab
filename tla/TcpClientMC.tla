------------------------------- MODULE TcpClientMC -------------------------------
(* Two failures in a row fit before LastTime, and a message is longer than two heads. *)
EXTENDS TcpClient

m(n) == [cmd |-> "known", len |-> n]
Servers == {<<m(1), m(0)>>, <<[cmd |-> "unknown", len |-> 1]>>}
Bodies == {1, 3}
DelaysOfTimers == {1, 3}
TimersFor == [talk |-> 0, retry |-> 2, timers |-> 5]
=============================================================================
