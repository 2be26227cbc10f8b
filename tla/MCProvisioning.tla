--------------------------- MODULE MCProvisioning ---------------------------
(* Finite instances of Provisioning for TLC. *)
EXTENDS Provisioning, TLC

CONSTANTS s1, s2, request1, request2, cron

NoServer   == {}
OneServer  == {s1}
TwoServers == {s1, s2}

OneRequest  == {request1}
TwoRequests == {request1, request2}
NoCron      == {}
OneCron     == {cron}

NoInputs == {}
Disable  == {"disabled"}
Delete   == {"deleted"}

\* Every kind of fault occurs in one of the three runs that pass.
NoFaults        == {}
CreateFaults    == {"publish"}
AdminFaults     == {"crash", "handler", "redelivery", "statement"}
ReconcileFaults == {"loss", "marking"}

\* Servers and goroutines are interchangeable; used by safety runs only.
Symmetry == Permutations(Servers) \cup Permutations(Requests)
=============================================================================
