----------------------------- MODULE NodeRegistry -----------------------------
(***************************************************************************)
(* The registry of VPN servers: snapshots that agents send through two     *)
(* queues, administrators, and the archiving of servers that fell silent   *)
(* (service/nodes.go over repository/nodes.go).  Provisioning asks it      *)
(* which servers are eligible.                                             *)
(*                                                                         *)
(* A statement is one action, at READ COMMITTED.  A snapshot is applied in *)
(* one transaction, which locks the server's row first and makes its       *)
(* writes visible at the commit.                                           *)
(***************************************************************************)
EXTENDS Integers, FiniteSets

CONSTANTS
    Servers,
    Inbounds,    \* ids of the inbounds of a server
    Contents,    \* what snapshots report
    Healthy,     \* what a server reports in the end
    StaleAfter,  \* a server that is silent for longer is stale
    MaxTime,     \* bound: ticks of the clock
    MaxQueued,   \* bound: snapshots waiting in a queue
    None         \* the missing value

Consumers == {"events", "results"}

\* both: a protocol is reported with its endpoint group; protocol: with another group, or
\* an unknown one.
Fits == {"both", "protocol", "none"}

\* inbounds: inbound -> managed, plain, or None when it is not reported.
Content == [fit: Fits, inbounds: [Inbounds -> {"managed", "plain", None}]]

ASSUME RegistryAssumption ==
    /\ Contents \subseteq Content
    /\ Healthy \in Contents /\ Healthy.fit = "both"
    /\ StaleAfter \in Nat /\ MaxTime \in Nat /\ MaxQueued \in Nat
    /\ None \notin Servers \cup Consumers \cup Nat \cup {"managed", "plain"}

VARIABLES
    registry,  \* server_registry: server -> row
    state,     \* node_states: server -> row
    inbound,   \* server_inbounds: server -> inbound -> row
    history,   \* node_state_snapshots: server -> its rows with the latest sent_at
    queue,     \* consumer -> messages in its queue
    task,      \* program state of the consumers
    lock,      \* server -> consumer whose transaction holds its registry row
    stale,     \* the UPDATE of ArchiveStaleDiscovered under way
    clock,
    stable     \* the surroundings have calmed down (liveness only)

vars == <<registry, state, inbound, history, queue, task, lock, stale, clock, stable>>

tables == <<registry, state, inbound, history>>

-----------------------------------------------------------------------------

Times == 0..MaxTime

Registry == [status: {"none", "row"}, source: {"discovered", "migrated"},
             enabled: BOOLEAN, archived: BOOLEAN, fit: Fits, seen: Times]

NoRegistry == [status |-> "none", source |-> "discovered",
               enabled |-> TRUE, archived |-> FALSE, fit |-> "none", seen |-> 0]

\* sent is last_snapshot_at, None: no row.
State == [sent: Times \cup {None}, enabled: BOOLEAN, fit: Fits]

NoState == [sent |-> None, enabled |-> FALSE, fit |-> "none"]

Message == [server: Servers \cup {None}, sent: Times, content: Contents]

\* Neither server_id nor node_id.
Malformed == [server |-> None, sent |-> 0, content |-> Healthy]

Task == [pc: {"idle", "lock", "create", "apply", "ack", "failed"},
         message: Message \cup {None}, received: Times]

IdleTask == [pc |-> "idle", message |-> None, received |-> 0]

\* found: what the statement's subquery answered, None: no statement under way.
NoStatement == [found |-> None, cutoff |-> 0]

\* The migration has made a row for every server that node_states knew.
Init ==
    /\ \E migrated \in SUBSET Servers :
          /\ registry = [s \in Servers |-> IF s \in migrated
                THEN [NoRegistry EXCEPT !.status = "row", !.source = "migrated"]
                ELSE NoRegistry]
          /\ state = [s \in Servers |-> IF s \in migrated
                THEN [NoState EXCEPT !.sent = 0, !.enabled = TRUE] ELSE NoState]
    /\ inbound = [s \in Servers |-> [i \in Inbounds |-> None]]
    /\ history = [s \in Servers |-> {}]
    /\ queue = [c \in Consumers |-> {}]
    /\ task = [c \in Consumers |-> IdleTask]
    /\ lock = [s \in Servers |-> None]
    /\ stale = NoStatement
    /\ clock = 0
    /\ stable = FALSE

-----------------------------------------------------------------------------
(***************************************************************************)
(* Consumers                                                               *)
(***************************************************************************)

Unlocked(s) == lock[s] = None

\* The handler has not come to its end.
Running == {"lock", "create", "apply"}

\* The handler's time of receipt ends with it.
Goto(c, pc) ==
    task' = [task EXCEPT ![c].pc = pc, ![c].received = IF pc \in Running THEN @ ELSE 0]

\* The end of a transaction.
Unlock(c) == lock' = [s \in Servers |-> IF lock[s] = c THEN None ELSE lock[s]]

\* A message without server_id and node_id is an error.
Take(c, m) ==
    /\ task[c].pc = "idle"
    /\ m \in queue[c]
    /\ task' = [task EXCEPT ![c] = [pc |-> IF m.server = None THEN "failed" ELSE "lock",
                                    message |-> m, received |-> clock]]
    /\ UNCHANGED <<tables, queue, lock, stale, clock, stable>>

\* SELECT ... FOR UPDATE of the registry row.
LockRegistry(c) ==
    LET s == task[c].message.server
    IN  /\ task[c].pc = "lock"
        /\ IF registry[s].status = "none"
             THEN Goto(c, "create") /\ UNCHANGED lock
             ELSE /\ Unlocked(s)
                  /\ Goto(c, "apply") /\ lock' = [lock EXCEPT ![s] = c]
        /\ UNCHANGED <<tables, queue, stale, clock, stable>>

\* INSERT of the registry row; server_id is unique.
CreateRegistry(c) ==
    LET s == task[c].message.server
    IN  /\ task[c].pc = "create"
        /\ Unlocked(s)
        /\ IF registry[s].status = "none"
             THEN Goto(c, "apply") /\ lock' = [lock EXCEPT ![s] = c]
             ELSE Goto(c, "failed") /\ UNCHANGED lock
        /\ UNCHANGED <<tables, queue, stale, clock, stable>>

\* Faulty variant: the last message wins.
NeverOutdated(s, t) == FALSE

\* ErrStaleNodeSnapshot.
Outdated(s, t) == state[s].sent # None /\ t < state[s].sent

\* Faulty variant: an archived server has to be restored.
SeenThoughArchived(r, content, now) ==
    [r EXCEPT !.status = "row", !.fit = content.fit, !.seen = now]

\* A report brings an archived server back, and leaves enabled alone.
SeenRegistry(r, content, now) ==
    [r EXCEPT !.status = "row", !.archived = FALSE, !.fit = content.fit, !.seen = now]

\* Faulty variant: the row is not read again after its update.
UnrefreshedState(s, r, content, t) ==
    [sent |-> t, fit |-> content.fit, enabled |-> registry[s].enabled /\ ~registry[s].archived]

ReportedState(s, r, content, t) ==
    [sent |-> t, fit |-> content.fit, enabled |-> r.enabled /\ ~r.archived]

\* Faulty variant: the rows are replaced by those reported.
ReplacedInbounds(rows, content) == content.inbounds

\* Upsert of the reported inbounds; a row is never deleted.
UpsertedInbounds(rows, content) ==
    [i \in Inbounds |-> IF content.inbounds[i] = None THEN rows[i] ELSE content.inbounds[i]]

\* Nothing reads the older rows of node_state_snapshots.
Row(m) == [sent |-> m.sent, content |-> m.content]

Latest(rows) == {h \in rows : \A g \in rows : g.sent <= h.sent}

\* The rest of the transaction, up to its end: a snapshot that is refused is rolled back.
ApplySnapshot(c) ==
    LET s       == task[c].message.server
        sent    == task[c].message.sent
        content == task[c].message.content
        seen    == SeenRegistry(registry[s], content, task[c].received)
    IN  /\ task[c].pc = "apply"
        /\ IF Outdated(s, sent)
             THEN UNCHANGED tables
             ELSE /\ registry' = [registry EXCEPT ![s] = seen]
                  /\ state' = [state EXCEPT ![s] = ReportedState(s, seen, content, sent)]
                  /\ inbound' = [inbound EXCEPT ![s] = UpsertedInbounds(@, content)]
                  /\ history' = [history EXCEPT ![s] = Latest(@ \cup {Row(task[c].message)})]
        /\ Goto(c, "ack")
        /\ Unlock(c)
        /\ UNCHANGED <<queue, stale, clock, stable>>

\* A statement fails: rollback.
FailStatement(c) ==
    /\ task[c].pc \in Running
    /\ ~stable
    /\ Goto(c, "failed")
    /\ Unlock(c)
    /\ UNCHANGED <<tables, queue, stale, clock, stable>>

Settle(c, messages) ==
    /\ queue' = [queue EXCEPT ![c] = messages]
    /\ task' = [task EXCEPT ![c] = IdleTask]
    /\ UNCHANGED <<tables, lock, stale, clock, stable>>

Ack(c) == task[c].pc = "ack" /\ Settle(c, queue[c] \ {task[c].message})

\* Faulty variant: both consumers acknowledge what they could not apply.
AlwaysAcks(c) == queue[c] \ {task[c].message}

\* The consumer of events requeues, the consumer of results acknowledges.
AfterFailure(c) == IF c = "events" THEN queue[c] ELSE queue[c] \ {task[c].message}

Reject(c) == task[c].pc = "failed" /\ Settle(c, AfterFailure(c))

ConsumerStep(c) ==
    LockRegistry(c) \/ CreateRegistry(c) \/ ApplySnapshot(c) \/ Ack(c) \/ Reject(c)

-----------------------------------------------------------------------------
(***************************************************************************)
(* Administrators                                                          *)
(***************************************************************************)

\* One UPDATE of the registry row.
Update(s, r) ==
    /\ ~stable
    /\ registry[s].status = "row" /\ Unlocked(s)
    /\ registry' = [registry EXCEPT ![s] = r]
    /\ UNCHANGED <<state, inbound, history, queue, task, lock, stale, clock, stable>>

DisableServer(s) == Update(s, [registry[s] EXCEPT !.enabled = FALSE])
EnableServer(s)  == Update(s, [registry[s] EXCEPT !.enabled = TRUE])
ArchiveServer(s) == Update(s, [registry[s] EXCEPT !.archived = TRUE])
RestoreServer(s) == Update(s, [registry[s] EXCEPT !.archived = FALSE, !.enabled = TRUE])

\* The requests of NodesController for one server; each is one UPDATE.
AdministratorStep(s) ==
    \/ DisableServer(s) \/ EnableServer(s)
    \/ ArchiveServer(s) \/ RestoreServer(s)

Silent(s, cutoff) == state[s].sent # None /\ state[s].sent < cutoff

Matches(s, cutoff, silent) ==
    /\ registry[s].status = "row" /\ registry[s].source = "discovered"
    /\ ~registry[s].archived /\ registry[s].seen < cutoff
    /\ ~registry[s].enabled \/ silent

\* ArchiveStaleDiscovered is one UPDATE.  It finds its rows, and answers its
\* subquery, as of its start.
FindStale ==
    LET cutoff == clock - StaleAfter
        found  == {s \in Servers : Matches(s, cutoff, Silent(s, cutoff))}
    IN  /\ ~stable
        /\ stale.found = None /\ found # {}
        /\ stale' = [found |-> {<<s, Silent(s, cutoff)>> : s \in found}, cutoff |-> cutoff]
        /\ UNCHANGED <<tables, queue, task, lock, clock, stable>>

\* Faulty variant: what was found is archived.
StillFound(s, silent) == TRUE

\* A row that was locked is matched once more as it has become.
StillMatches(s, silent) == Matches(s, stale.cutoff, silent)

ArchiveStaleDiscovered ==
    LET doomed == {s \in Servers : \E silent \in BOOLEAN :
                      <<s, silent>> \in stale.found /\ StillMatches(s, silent)}
    IN  /\ stale.found # None
        /\ \A found \in stale.found : Unlocked(found[1])
        /\ registry' = [s \in Servers |-> IF s \in doomed
                          THEN [registry[s] EXCEPT !.archived = TRUE] ELSE registry[s]]
        /\ stale' = NoStatement
        /\ UNCHANGED <<state, inbound, history, queue, task, lock, clock, stable>>

-----------------------------------------------------------------------------
(***************************************************************************)
(* Agents, time, crashes                                                   *)
(***************************************************************************)

\* Snapshots are sent on a timer, or when an administrator asked for one.
Send(c, m) ==
    /\ Cardinality({n \in queue[c] : n.server = m.server}) < MaxQueued
    /\ m \notin queue[c]
    /\ queue' = [queue EXCEPT ![c] = @ \cup {m}]
    /\ UNCHANGED <<tables, task, lock, stale, clock, stable>>

AnySnapshot ==
    /\ ~stable
    /\ \E c \in Consumers :
          \/ \E s \in Servers, n \in Contents :
                Send(c, [server |-> s, sent |-> clock, content |-> n])
          \/ c = "events" /\ Send(c, Malformed)

HealthySnapshot(s) ==
    /\ stable
    /\ Send("events", [server |-> s, sent |-> clock, content |-> Healthy])

Tick == /\ clock < MaxTime
        /\ clock' = clock + 1
        /\ UNCHANGED <<tables, queue, task, lock, stale, stable>>

\* The panel restarts; what was not acknowledged is delivered again.
Crash == /\ ~stable
         /\ task' = [c \in Consumers |-> IdleTask]
         /\ lock' = [s \in Servers |-> None]
         /\ stale' = NoStatement
         /\ UNCHANGED <<tables, queue, clock, stable>>

\* Administrators are done, nothing fails any more, servers run.
Stabilise == /\ ~stable /\ stale.found = None
             /\ stable' = TRUE
             /\ UNCHANGED <<tables, queue, task, lock, stale, clock>>

-----------------------------------------------------------------------------

Next ==
    \/ \E c \in Consumers :
          \/ \E m \in queue[c] : Take(c, m)
          \/ ConsumerStep(c)
          \/ FailStatement(c)
    \/ \E s \in Servers : AdministratorStep(s) \/ HealthySnapshot(s)
    \/ FindStale \/ ArchiveStaleDiscovered
    \/ AnySnapshot \/ Tick \/ Crash \/ Stabilise

Spec == Init /\ [][Next]_vars

TakeOf(s) == \E m \in queue["events"] : m.server = s /\ Take("events", m)

\* The handler comes to an end, RabbitMQ delivers what waits though a
\* rejected message comes again and again, and a server that runs reports.
FairSpec ==
    /\ Spec
    /\ \A c \in Consumers : WF_vars(ConsumerStep(c))
    /\ \A s \in Servers : SF_vars(TakeOf(s)) /\ WF_vars(HealthySnapshot(s))

-----------------------------------------------------------------------------
(***************************************************************************)
(* Properties                                                              *)
(***************************************************************************)

\* IsServerEligible, EnabledNodesByGroup.
IsServerEligible(s) ==
    /\ registry[s].status = "row" /\ registry[s].enabled /\ ~registry[s].archived
    /\ registry[s].fit = "both"
    /\ state[s].sent # None /\ state[s].enabled /\ state[s].fit = "both"

\* MobileService.Servers, for a user without grants: the app offers the server.  The
\* endpoint group is not asked for; node_states.status is always the "online" of the last
\* snapshot.
Available(s) ==
    /\ registry[s].status = "row" /\ registry[s].enabled /\ ~registry[s].archived
    /\ registry[s].fit # "none"
    /\ state[s].sent # None

\* The app offers a server whose report fits, and that cannot be provisioned.
Misleading(s) ==
    Available(s) /\ registry[s].fit = "both" /\ ~IsServerEligible(s)

\* Every variable stays in its domain.
TypeOK ==
    /\ registry \in [Servers -> Registry]
    /\ state \in [Servers -> State]
    /\ \A s \in Servers, i \in Inbounds : inbound[s][i] \in {"managed", "plain", None}
    /\ \A s \in Servers : history[s] \subseteq [sent : Times, content : Contents]
    /\ \A c \in Consumers : queue[c] \subseteq Message
    /\ task \in [Consumers -> Task]
    /\ lock \in [Servers -> Consumers \cup {None}]
    /\ stale.found # None => stale.found \subseteq Servers \X BOOLEAN
    /\ clock \in Times
    /\ stable \in BOOLEAN

\* However the two queues interleave, repeat and reorder, the state of a server
\* and the rows of its inbounds are those of a newest snapshot of its history.
StateIsNewest ==
    \A s \in Servers : history[s] # {} =>
        \E h \in history[s] :
            /\ state[s].sent = h.sent /\ state[s].fit = h.content.fit
            /\ \A i \in Inbounds : h.content.inbounds[i] # None
                                      => inbound[s][i] = h.content.inbounds[i]

\* A snapshot leaves the events queue only when the panel knows it or a newer one,
\* whatever fails on the way; two first snapshots at once included.
NoSnapshotLost ==
    [][\A m \in queue["events"] \ queue'["events"] :
          m.server # None => /\ state[m.server].sent # None
                             /\ state[m.server].sent >= m.sent]_vars

\* A server that reports while ArchiveStaleDiscovered waits for its row is spared.
SparedOnceSeen ==
    [][stale.found # None =>
          \A s \in Servers : stale'.found = None /\ ~registry[s].archived /\ registry'[s].archived
              => registry[s].seen < stale.cutoff]_vars

\* The app's catalogue reads server_registry, provisioning node_states too.  For a server that
\* reports a protocol with its endpoint group they fall apart only when an administrator
\* enables or restores it, until its next snapshot; no snapshot, late or failed ones included,
\* parts them.  A report of another group needs no administrator: the catalogue offers the
\* server, and provisioning refuses it.
CatalogueFollowsSnapshots ==
    [][\A s \in Servers :
          Misleading(s)' =>
              Misleading(s) \/ EnableServer(s) \/ RestoreServer(s)]_vars

\* A server that nobody disabled and that reports becomes eligible, whatever was
\* done to it before: enabling it or restoring it needs no other step.
ServersBecomeEligible ==
    \A s \in Servers :
        stable /\ (registry[s].status = "row" => registry[s].enabled) ~> IsServerEligible(s)

\* What the three tables say of a server, and of its last report.
Record(s) == [known |-> registry[s].status = "row",
              discovered |-> registry[s].source = "discovered",
              enabled |-> registry[s].enabled, archived |-> registry[s].archived]

LastReport(s) == [fit |-> state[s].fit, enabled |-> state[s].enabled,
                  seen |-> registry[s].seen, sent |-> state[s].sent,
                  inbounds |-> inbound[s]]

\* Whatever the two queues, their consumers, crashes and a slow UPDATE do, every
\* change of a server is one that module ServerRecords makes in a single step: of
\* the rows as they are then, by a report that is not older, and never archiving a
\* server that was heard of.
Records == INSTANCE ServerRecords WITH
    server <- [s \in Servers |-> Record(s)], report <- [s \in Servers |-> LastReport(s)]

ImplementsRecords == Records!RecordsSpec
=============================================================================
