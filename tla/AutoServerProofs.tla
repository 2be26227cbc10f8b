--------------------------- MODULE AutoServerProofs ---------------------------
(***************************************************************************)
(* Theorems about the choice of the automatic server: the order by which   *)
(* resolveAutoServer compares rows, and one turn of its loop.              *)
(***************************************************************************)
EXTENDS AutoServer, TLAPS

\* The score of a node is a number.
LEMMA ScoreType == ASSUME NEW n \in Node PROVE NodeHealthScore(n) \in Int
BY DEF NodeHealthScore, StatusScore, Node

\* healthierNode is a strict order, total on nodes of different servers: whatever
\* their health, counters and clocks, two servers are never tied.
THEOREM HealthierIsAnOrder ==
    ASSUME NEW l \in Node, NEW m \in Node, NEW n \in Node
    PROVE  /\ ~HealthierNode(l, l)
           /\ HealthierNode(l, m) /\ HealthierNode(m, n) => HealthierNode(l, n)
           /\ l.server # m.server => HealthierNode(l, m) \/ HealthierNode(m, l)
<1>1. /\ NodeHealthScore(l) \in Int /\ l.server \in Int /\ l.online \in Int /\ l.seen \in Int
      /\ NodeHealthScore(m) \in Int /\ m.server \in Int /\ m.online \in Int /\ m.seen \in Int
      /\ NodeHealthScore(n) \in Int /\ n.server \in Int /\ n.online \in Int /\ n.seen \in Int
  BY ScoreType DEF Node
<1>2. ~HealthierNode(l, l)
  BY <1>1 DEF HealthierNode
<1>3. HealthierNode(l, m) /\ HealthierNode(m, n) => HealthierNode(l, n)
  BY <1>1 DEF HealthierNode
<1>4. l.server # m.server => HealthierNode(l, m) \/ HealthierNode(m, l)
  BY <1>1 DEF HealthierNode
<1>5. QED  BY <1>2, <1>3, <1>4

\* One turn of the loop of resolveAutoServer: if best was the best node of those
\* looked at, then Better is the best of them and the candidate.
THEOREM LoopKeepsTheBest ==
    ASSUME NEW looked \in SUBSET Node, NEW best \in Node, NEW candidate \in Node,
           Best(best, looked)
    PROVE  Best(Better(best, candidate), looked \cup {candidate})
<1>1. CASE HealthierNode(candidate, best)
  <2>1. ASSUME NEW other \in looked PROVE AtLeastAsHealthy(candidate, other)
    <3>1. other \in Node /\ ~HealthierNode(other, best)
      BY DEF Best, AtLeastAsHealthy
    <3>2. SUFFICES ASSUME HealthierNode(other, candidate) PROVE FALSE
      BY DEF AtLeastAsHealthy
    <3>3. HealthierNode(other, best)
      BY <1>1, <3>1, <3>2, HealthierIsAnOrder
    <3>4. QED  BY <3>1, <3>3
  <2>2. AtLeastAsHealthy(candidate, candidate)
    BY HealthierIsAnOrder DEF AtLeastAsHealthy
  <2>3. Better(best, candidate) = candidate
    BY <1>1 DEF Better
  <2>4. QED  BY <2>1, <2>2, <2>3 DEF Best
<1>2. CASE ~HealthierNode(candidate, best)
  <2>1. Better(best, candidate) = best
    BY <1>2 DEF Better
  <2>2. QED  BY <1>2, <2>1 DEF Best, AtLeastAsHealthy
<1>3. QED  BY <1>1, <1>2

\* There is one best node at most: the choice does not depend on the order in which
\* the database returns the rows.
THEOREM BestIsUnique ==
    ASSUME NEW nodes, OneRowPerServer(nodes),
           NEW m \in nodes, NEW n \in nodes, Best(m, nodes), Best(n, nodes)
    PROVE  m = n
<1>1. m \in Node /\ n \in Node
  BY DEF OneRowPerServer
<1>2. ~HealthierNode(m, n) /\ ~HealthierNode(n, m)
  BY DEF Best, AtLeastAsHealthy
<1>3. m.server = n.server
  BY <1>1, <1>2, HealthierIsAnOrder
<1>4. QED  BY <1>3 DEF OneRowPerServer

PinIsNamed(settings) == settings.mode = "pinned" <=> settings.server # NoServer

\* A pin always names a server, and automatic routing none: the default settings are
\* so, and stay so whatever an administrator sends to UpdateAutoRoutingSettings.
THEOREM PinNamesAServer ==
    ASSUME NEW settings, PinIsNamed(settings), NEW mode, NEW server, NEW registered
    PROVE  /\ PinIsNamed(DefaultSettings)
           /\ PinIsNamed(UpdatedSettings(settings, mode, server, registered))
<1>1. PinIsNamed(DefaultSettings)
  BY DEF PinIsNamed, DefaultSettings
<1>2. CASE mode \in {"", "automatic"}
  BY <1>1, <1>2 DEF PinIsNamed, UpdatedSettings, StoredSettings
<1>3. CASE mode = "pinned" /\ MayPin(server, registered)
  BY <1>1, <1>3 DEF PinIsNamed, UpdatedSettings, StoredSettings, MayPin
<1>4. CASE mode \notin {"", "automatic"} /\ ~(mode = "pinned" /\ MayPin(server, registered))
  BY <1>1, <1>4 DEF UpdatedSettings
<1>5. QED  BY <1>2, <1>3, <1>4
=============================================================================
