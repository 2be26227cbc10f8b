------------------------------ MODULE MCVPNLinks ------------------------------
(* A finite instance of VPNLinks for TLC: two jobs of one batch that create a  *)
(* VLESS and a Trojan link, or one that collects statistics and one that       *)
(* probes a server.                                                            *)
EXTENDS VPNLinks

CONSTANTS j1, j2, b1, b2, r1

TwoJobs    == {j1, j2}
TwoBatches == {b1, b2}
OneRequest == {r1}

JobRow(b, act, proto) == [batch |-> b, action |-> act, protocol |-> proto]

Columns ==
    {[j \in TwoJobs |-> IF j = j1 THEN JobRow(b1, "create_client", "vless")
                                  ELSE JobRow(b1, "create_client", "trojan")],
     [j \in TwoJobs |-> IF j = j1 THEN JobRow(b1, "collect_node_stats", "vless")
                                  ELSE JobRow(b2, "probe_node", "vless")]}
=============================================================================
