------------------------------ MODULE MCImport ------------------------------
(* An instance of Import for TLC. *)
EXTENDS Import

R(name, type, host, port, pace, interval) ==
    [name |-> name, type |-> type, host |-> host, port |-> port, pace |-> pace, interval |-> interval]

\* One name each with another configuration than the files have, the default name,
\* and a port the gate refuses.
SomeRequests ==
    { R(<< "a" >>, "", "h", 0, "fast", 0), R(<< >>, "tcp", "h", 1, "", 86400),
      R(<< "b" >>, "tcp", "h", 65536, "", 0) }

\* Ping and TCP, with and without a name, a blank in front of a name, a name that is
\* too long because the host is, a bad port under a good name, no object at all.
SomeRows ==
    { R(<< "a" >>, "ping", "h", 7, "normal", 0), R(<< " ", "a" >>, "tcp", "h", 1, "", 60),
      R(<< >>, "tcp", "h", 1, "slow", 0), R(<< >>, "icmp", "long", 0, "", 0),
      R(<< "a" >>, "tcp", "h", 0, "", 0), R(<< >>, "garbage", "", 0, "", 0) }

SomeFiles ==
    [format : {TRUE}, version : {1}, rows : UNION {[1 .. n -> SomeRows] : n \in 0 .. 2}]
    \cup [format : {TRUE}, version : {1}, rows : {[k \in 1 .. 3 |-> R(<< "a" >>, "ping", "h", 0, "", 0)]}]
    \cup [format : BOOLEAN, version : {0, 2}, rows : {<< >>}]

SomeNames == {<< "a" >>, << "b" >>, << "h", 1 >>}
SomeBadHosts == {"", "bad"}
SomeBadNames == {<< "long" >>}
SomeCfgs == [type : {"icmp", "tcp"}, host : {"h", "long"}, port : {0, 1}, pace : {"", "fast", "slow"},
             interval : {0, 60, 86400}]
=============================================================================
