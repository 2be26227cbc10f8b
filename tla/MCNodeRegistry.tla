---------------------------- MODULE MCNodeRegistry ----------------------------
(* A finite instance of NodeRegistry for TLC. *)
EXTENDS NodeRegistry

CONSTANTS s1, i1, i2

OneServer   == {s1}
TwoInbounds == {i1, i2}

Up   == [fit |-> "both", inbounds |-> [i \in TwoInbounds |-> "managed"]]
Down == [fit |-> "protocol",
         inbounds |-> [i \in TwoInbounds |-> IF i = i1 THEN "plain" ELSE None]]

UpAndDown == {Up, Down}
=============================================================================
