------------------------------- MODULE TcpServerMC -------------------------------
(* Three descriptors, so that two connections and the reserve use them up. *)
EXTENDS TcpServer

ThreeFds == 1..3
ConnectionLimits == {1, 3}
m(n) == [cmd |-> "known", len |-> n]
Requests == {<<m(1), m(1)>>, <<m(0), m(1)>>, <<m(1), [cmd |-> "unknown", len |-> 0]>>, <<m(3)>>}
=============================================================================
