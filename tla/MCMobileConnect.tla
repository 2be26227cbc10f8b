-------------------------- MODULE MCMobileConnect --------------------------
(* Finite instances of MobileConnect for TLC, and of AutoServer, which resolves *)
(* the server_id AnyServer. *)
EXTENDS MobileConnect, AutoServer, TLC

CONSTANTS s1, s2, r1, r2, k1, k2, o1, o2

OneServer  == {s1}
TwoServers == {s1, s2}
OneRequest  == {r1}
TwoRequests == {r1, r2}
OneKey  == {k1}
TwoKeys == {k1, k2}
TwoOperations == {o1, o2}

OneTarget  == {s1}
AutoTarget == {s1, AnyServer}

Connecting == {"connect", "poll"}
AllKinds   == KindNames

NoFaults  == {}
AllFaults == FaultKinds

Symmetry == Permutations(Requests) \cup Permutations(Operations) \cup Permutations(Keys)

Health == [status: {"online", "degraded"}, alive: BOOLEAN, online: 0..1, seen: 0..1]

NodeWith(server, h) ==
    [server |-> server, status |-> h.status, alive |-> h.alive, xui |-> FALSE,
     online |-> h.online, seen |-> h.seen]

\* The loop finds the best of three nodes, in whatever order the rows come: their
\* health and their order are any.
ASSUME LoopFindsTheBest ==
    \A h \in [1..3 -> Health], order \in Permutations(1..3) :
        LET nodes == [i \in 1..3 |-> NodeWith(order[i], h[order[i]])]
        IN  Best(Healthiest(nodes), {nodes[i] : i \in 1..3})
=============================================================================
