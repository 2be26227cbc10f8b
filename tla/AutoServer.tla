------------------------------ MODULE AutoServer ------------------------------
(***************************************************************************)
(* The virtual server "auto": the global routing settings, and the server  *)
(* that resolveAutoServer makes of it for a create request.  All of this   *)
(* is sequential: operators over rows, and the loop over them as a fold.   *)
(***************************************************************************)
EXTENDS Integers, Sequences

LOCAL INSTANCE SequencesExt

CONSTANT NoServer  \* no server_id

-----------------------------------------------------------------------------
(***************************************************************************)
(* Routing settings (vpn_routing_settings, the row with id 1)              *)
(***************************************************************************)

\* GetOrCreateRoutingSettings, when there is no row yet.
DefaultSettings == [mode |-> "automatic", server |-> NoServer]

\* UpdateRoutingSettings: the row is created if need be, then both columns are set.
StoredSettings(mode, server) == [mode |-> mode, server |-> server]

\* registered: the rows of server_registry, a set of [server, enabled, archived].
MayPin(server, registered) ==
    /\ server # NoServer
    /\ \E r \in registered : r.server = server /\ r.enabled /\ ~r.archived

\* UpdateAutoRoutingSettings: an empty mode is automatic, which forgets the pin; what
\* cannot be accepted leaves the row as it is.
UpdatedSettings(settings, mode, server, registered) ==
    IF mode \in {"", "automatic"} THEN StoredSettings("automatic", NoServer)
    ELSE IF mode = "pinned" /\ MayPin(server, registered)
      THEN StoredSettings("pinned", server)
      ELSE settings

-----------------------------------------------------------------------------
(***************************************************************************)
(* The healthiest node                                                     *)
(*                                                                         *)
(* A server_id is its rank in the order of strings, a time a number.  An   *)
(* xui_available that is not known counts as false.                        *)
(***************************************************************************)

Node == [server: Int, status: {"online", "degraded", "stale", "offline", "unknown"},
         alive: BOOLEAN, xui: BOOLEAN, online: Int, seen: Int]

StatusScore == [online |-> 100, degraded |-> 50, stale |-> 20, offline |-> 0, unknown |-> 0]

NodeHealthScore(n) ==
    StatusScore[n.status] + (IF n.alive THEN 20 ELSE 0) + (IF n.xui THEN 20 ELSE 0)

HealthierNode(left, right) ==
    \/ NodeHealthScore(left) > NodeHealthScore(right)
    \/ /\ NodeHealthScore(left) = NodeHealthScore(right)
       /\ \/ left.online < right.online
          \/ left.online = right.online /\ left.seen > right.seen
          \/ /\ left.online = right.online /\ left.seen = right.seen
             /\ left.server < right.server

Better(best, candidate) ==
    IF HealthierNode(candidate, best) THEN candidate ELSE best

\* The loop of resolveAutoServer.
Healthiest(nodes) == FoldLeft(Better, Head(nodes), Tail(nodes))

\* nodes: what EnabledNodesByGroupForUser returns for the user, in any order.
ResolveAutoServer(settings, nodes) ==
    LET offered == {nodes[i].server : i \in DOMAIN nodes}
    IN  IF settings.mode = "pinned"
          THEN IF settings.server \in offered THEN settings.server ELSE NoServer
        ELSE IF offered = {} THEN NoServer ELSE Healthiest(nodes).server

-----------------------------------------------------------------------------
(***************************************************************************)
(* The order of the nodes                                                  *)
(***************************************************************************)

AtLeastAsHealthy(left, right) == ~HealthierNode(right, left)

Best(n, nodes) == n \in nodes /\ \A other \in nodes : AtLeastAsHealthy(n, other)

\* Servers have one row of node_states each.
OneRowPerServer(nodes) ==
    nodes \subseteq Node /\ \A m, n \in nodes : m.server = n.server => m = n
=============================================================================
