---------------------------- MODULE Provisioning ----------------------------
(***************************************************************************)
(* Provisioning of ONE VPN profile onto its servers.                       *)
(*                                                                         *)
(* The table vpn_profile_nodes holds one row per (profile, server).  A row *)
(* is at once domain state and command ledger: a command published to an   *)
(* agent carries the row's id as job_id, and the agent's result names it   *)
(* again.  Four kinds of process touch the rows, none of them under a      *)
(* lock: create requests (ensureVPNProfile), administrators                *)
(* (RequestConnectionState), the reconciler that cron starts every 30 s    *)
(* (ReconcilePending), and the single result consumer (ApplyCommandResult).*)
(* Each SQL statement (or transaction) of theirs is one action here, so    *)
(* whatever a process read may be stale when it writes.                    *)
(*                                                                         *)
(* The agents and RabbitMQ are outside the repository; they are modelled   *)
(* by what the panel assumes: at-least-once delivery in any order, a       *)
(* publish that may vanish (it is neither mandatory nor confirmed).        *)
(***************************************************************************)
EXTENDS Integers, FiniteSets

CONSTANTS
    Servers,          \* the servers of the profile's endpoint group
    Requests,         \* goroutines that serve panel, mobile and Telegram requests
    Crons,            \* goroutines of the reconciler (a slow one may overlap the next)
    DesiredInputs,    \* connection states administrators ask for
    Misaddressed,     \* may an agent report a job_id that is not its own?
    OmitsCommandType, \* may an agent leave command_type out of a result?
    Audited,          \* servers whose history (acked, requested) is recorded
    Faults,           \* kinds of fault that occur
    Flapping,         \* servers whose eligibility changes while the panel runs
    Limit,            \* rows that one run of the reconciler reads at most
    Elsewhere,        \* pending rows of other profiles that such a run can only skip
    MaxCommands,      \* bound: commands waiting for the agents
    MaxResults        \* bound: results waiting for the consumer

Desired == {"enabled", "disabled", "deleted"}

\* A publish fails, a marking UPDATE fails, another statement of a request
\* fails, the result handler fails, the panel dies, a command is dropped, an
\* agent dies before it acknowledges a command it executed.
FaultKinds == {"publish", "marking", "statement", "handler", "crash", "loss", "redelivery"}

ASSUME ConstantsAssumption ==
    /\ DesiredInputs \subseteq Desired
    /\ Audited \subseteq Servers
    /\ Faults \subseteq FaultKinds
    /\ Flapping \subseteq Servers
    /\ Misaddressed \in BOOLEAN
    /\ OmitsCommandType \in BOOLEAN
    /\ Limit \in Nat \ {0} /\ Elsewhere \in Nat
    /\ MaxCommands \in Nat \ {0}
    /\ MaxResults \in Nat \ {0}

VARIABLES
    row,       \* vpn_profile_nodes: server -> row
    profile,   \* vpn_profiles: the one profile
    eligible,  \* servers that EnabledNodesByGroup / IsServerEligible accept
    cmds,      \* commands published and not yet consumed by their agent
    results,   \* job results published by agents and not yet acknowledged
    acked,     \* history: actions the agent of a server reported done
    requested, \* history: actions administrators asked for, per server
    notices,   \* "VPN ready" messages handed to the Telegram notifier
    task,      \* program state of the panel's goroutines
    consumer,  \* program state of the result consumer
    stable     \* from now on: no request, no fault, no change of eligibility

Workers == Requests \cup Crons

vars == <<row, profile, eligible, cmds, results, acked, requested, notices,
          task, consumer, stable>>

-----------------------------------------------------------------------------
(***************************************************************************)
(* Values                                                                  *)
(***************************************************************************)

RowStatuses == {"none", "pending", "success", "failed", "disabled", "deleted"}

AdminActions == {"enable_client", "disable_client", "delete_client"}
Actions      == AdminActions \cup {"create_client"}
NoAction     == "none"

ProfileStatuses == {"pending", "active", "partial", "failed", "disabled"}

\* "none" is the missing row.  Time is not modelled, so neither are attempts and
\* next_attempt_at: a pending row may become due at any moment.
Row == [status: RowStatuses, desired: Desired, action: AdminActions \cup {NoAction}]

NoRow == [status |-> "none", desired |-> "enabled", action |-> NoAction]

Command == [server: Servers, action: Actions]

\* ok is the status of the result, action its command_type.
Result == [job: Servers, server: Servers,
           action: Actions \cup {NoAction}, ok: BOOLEAN]

\* todo holds the commands built from the row copies the task read;
\* fresh and settled are the targets it read as missing and as successful.
Task == [pc: {"idle", "reject", "ensure", "write", "plan", "reread", "publish", "mark",
             "finish"},
         kind: {"create", "admin", "reconcile"},
         targets: SUBSET Servers, fresh: SUBSET Servers, settled: SUBSET Servers,
         todo: SUBSET Command, current: SUBSET Command,
         sent: BOOLEAN, published: BOOLEAN]

IdleTask == [pc |-> "idle", kind |-> "reconcile",
             targets |-> {}, fresh |-> {}, settled |-> {},
             todo |-> {}, current |-> {}, sent |-> FALSE, published |-> FALSE]

\* result is a set of at most one element; copy is the row TakeRow read.
Consumer == [pc: {"idle", "action", "take", "save", "recalc", "store", "notify"},
             result: SUBSET Result, pending: AdminActions \cup {NoAction},
             copy: Row, status: ProfileStatuses, tell: BOOLEAN]

IdleConsumer == [pc |-> "idle", result |-> {}, pending |-> NoAction, copy |-> NoRow,
                 status |-> "pending", tell |-> FALSE]

Init ==
    \* CreateProfileWithNodes(profile, nil) has committed; nothing is planned yet.
    /\ row = [s \in Servers |-> NoRow]
    /\ profile = [status |-> "pending", notified |-> FALSE]
    /\ eligible = Servers
    /\ cmds = {}
    /\ results = {}
    /\ acked = [s \in Servers |-> {}]
    /\ requested = [s \in Servers |-> {}]
    /\ notices = 0
    /\ task = [w \in Workers |-> IdleTask]
    /\ consumer = IdleConsumer
    /\ stable = FALSE

-----------------------------------------------------------------------------
(***************************************************************************)
(* Helpers of the service and the repository                               *)
(***************************************************************************)

Exists(s) == row[s].status # "none"

ActionFor(d) == CASE d = "enabled"  -> "enable_client"
                  [] d = "disabled" -> "disable_client"
                  [] d = "deleted"  -> "delete_client"

\* Faulty variant: the action is derived from desired_state alone.
CommandFromDesired(s, r) ==
    [server |-> s,
     action |-> IF r.desired = "enabled" THEN "create_client" ELSE "delete_client"]

\* profileNodeCommand: an empty pending_action means create_client.
CommandOf(s, r) ==
    [server |-> s,
     action |-> IF r.action = NoAction THEN "create_client" ELSE r.action]

\* Faulty variant: only deployments are retried, never administrative actions.
PendingDeployments ==
    {s \in Servers : row[s].status = "pending" /\ row[s].action = NoAction}

\* The rows PendingProfileNodes returns once their next_attempt_at has passed.
PendingRows == {s \in Servers : row[s].status = "pending"}

\* pendingProfileNodesForTargets: target rows that are not yet successful.
PendingTargets(targets) ==
    {s \in targets : Exists(s) /\ row[s].status # "success"}

\* Faulty variant: a command still on its way counts as a success.
OptimisticStatus ==
    IF \E s \in Servers : row[s].status \in {"pending", "success"} THEN "active" ELSE "failed"

\* recalculateVPNProfileStatus, over the rows that exist.
RecalculatedStatus ==
    LET with(S) == {s \in Servers : row[s].status \in S}
        all     == with(RowStatuses \ {"none"})
        good    == with({"success"})
        off     == with({"disabled", "deleted"})
    IN  CASE all = {}                           -> "failed"
          [] all # {} /\ off = all              -> "disabled"
          [] good # {} /\ good \cup off = all   -> "active"
          [] good # {} /\ good \cup off # all   -> "partial"
          [] all # {} /\ with({"failed"}) = all -> "failed"
          [] OTHER                              -> "pending"

IsUsable(status) == status \in {"active", "partial"}

\* A history with one more action; it is recorded of audited servers only.
Recorded(history, s, action) ==
    IF s \in Audited THEN [history EXCEPT ![s] = @ \cup {action}] ELSE history

Occurs(fault) == ~stable /\ fault \in Faults

Step(w, pc) == [task EXCEPT ![w].pc = pc]
Done(w)     == [task EXCEPT ![w] = IdleTask]

-----------------------------------------------------------------------------
(***************************************************************************)
(* ensureVPNProfile: a create request                                      *)
(***************************************************************************)

\* The profile is read and the target servers are looked up.
BeginCreate(w, targets) ==
    /\ ~stable
    /\ task[w].pc = "idle"
    /\ task' = [task EXCEPT ![w] =
                  [IdleTask EXCEPT !.kind = "create", !.targets = targets,
                                   !.pc = IF targets = {} THEN "reject" ELSE "ensure"]]
    /\ UNCHANGED <<row, profile, eligible, cmds, results, acked, requested,
                   notices, consumer, stable>>

\* Telegram: every eligible server; an active profile answers at once.
RequestCreateAll(w) == profile.status # "active" /\ BeginCreate(w, eligible)

\* Panel and mobile: one server, also on an active profile.
RequestCreateOn(w, s) == BeginCreate(w, eligible \cap {s})

\* No matching server: the profile becomes failed, whatever it was.
RejectCreate(w) ==
    /\ task[w].pc = "reject"
    /\ profile' = [profile EXCEPT !.status = "failed"]
    /\ task' = Done(w)
    /\ UNCHANGED <<row, eligible, cmds, results, acked, requested, notices,
                   consumer, stable>>

\* EnsureProfileNodes, the Take of every target row (READ COMMITTED, no lock).
EnsureTake(w) ==
    /\ task[w].pc = "ensure"
    /\ task' = [task EXCEPT
                  ![w].pc = "write",
                  ![w].fresh = {s \in task[w].targets : ~Exists(s)},
                  ![w].settled = {s \in task[w].targets : row[s].status = "success"}]
    /\ UNCHANGED <<row, profile, eligible, cmds, results, acked, requested,
                   notices, consumer, stable>>

\* Faulty variant: planning enables the connection and forgets pending_action.
ReenabledRow(w, s, r) ==
    IF s \in task[w].fresh THEN [NoRow EXCEPT !.status = "pending"]
    ELSE IF s \in task[w].targets THEN [r EXCEPT !.status = "pending", !.desired = "enabled"]
    ELSE r

\* What EnsureProfileNodes writes over row r of server s.  Only a row it READ
\* as successful keeps its status; desired state and pending action stay.
EnsuredRow(w, s, r) ==
    CASE s \in task[w].fresh                         -> [NoRow EXCEPT !.status = "pending"]
      [] s \in task[w].targets \ (task[w].fresh \cup task[w].settled)
                                                     -> [r EXCEPT !.status = "pending"]
      [] OTHER                                       -> r

\* EnsureProfileNodes, the commit.  A row inserted in between by another
\* request violates the unique index: then the transaction cannot commit.
EnsureCommit(w) ==
    /\ task[w].pc = "write"
    /\ \A s \in task[w].fresh : ~Exists(s)
    /\ row' = [s \in Servers |-> EnsuredRow(w, s, row[s])]
    /\ task' = Step(w, "plan")
    /\ UNCHANGED <<profile, eligible, cmds, results, acked, requested, notices,
                   consumer, stable>>

EnsureConflict(w) ==
    /\ task[w].pc = "write"
    /\ \E s \in task[w].fresh : Exists(s)
    /\ task' = Done(w)
    /\ UNCHANGED <<row, profile, eligible, cmds, results, acked, requested,
                   notices, consumer, stable>>

\* GetProfileByID after the commit, then the choice of rows to publish;
\* none left is ErrNoCommandsQueued.
Plan(w) ==
    /\ task[w].pc = "plan"
    /\ LET chosen == PendingTargets(task[w].targets)
       IN  task' = IF chosen = {} THEN Done(w)
                   ELSE [task EXCEPT ![w] =
                           [IdleTask EXCEPT !.pc = "publish", !.kind = "create",
                                            !.todo = {CommandOf(s, row[s]) : s \in chosen}]]
    /\ UNCHANGED <<row, profile, eligible, cmds, results, acked, requested,
                   notices, consumer, stable>>

\* After the publish loop: at least one command sent sets the profile to
\* pending, none sent leaves its status alone.
FinishCreate(w) ==
    /\ task[w].pc = "finish"
    /\ profile' = IF task[w].published THEN [profile EXCEPT !.status = "pending"]
                  ELSE profile
    /\ task' = Done(w)
    /\ UNCHANGED <<row, eligible, cmds, results, acked, requested, notices,
                   consumer, stable>>

-----------------------------------------------------------------------------
(***************************************************************************)
(* RequestConnectionState: an administrator, or a device being revoked     *)
(***************************************************************************)

\* PrepareProfileNodeAction, the UPDATE: whatever the row was, it is pending.
RequestConnectionState(w, s, d) ==
    /\ ~stable
    /\ task[w].pc = "idle"
    /\ Exists(s)
    /\ row' = [row EXCEPT ![s] = [status |-> "pending", desired |-> d,
                                  action |-> ActionFor(d)]]
    /\ task' = [task EXCEPT ![w] = [IdleTask EXCEPT !.pc = "reread", !.kind = "admin",
                                                    !.targets = {s}]]
    /\ requested' = Recorded(requested, s, ActionFor(d))
    /\ UNCHANGED <<profile, eligible, cmds, results, acked, notices, consumer, stable>>

\* PrepareProfileNodeAction, the re-read: the command is built from whatever
\* the row is by now.
RereadNode(w) ==
    /\ task[w].pc = "reread"
    /\ task' = [task EXCEPT ![w] =
                  [IdleTask EXCEPT !.pc = "publish", !.kind = "admin",
                                   !.todo = {CommandOf(s, row[s]) : s \in task[w].targets}]]
    /\ UNCHANGED <<row, profile, eligible, cmds, results, acked, requested,
                   notices, consumer, stable>>

-----------------------------------------------------------------------------
(***************************************************************************)
(* ReconcilePending: cron, every 30 seconds                                *)
(***************************************************************************)

\* Pending rows that are due (retry delay 30 s to 5 min), those of other profiles among
\* them, are read once, at most Limit of them; the loop below publishes from these copies.
StartReconcile(w, due) ==
    /\ task[w].pc = "idle"
    /\ due # {} /\ due \subseteq PendingRows /\ Cardinality(due) <= Limit
    /\ task' = [task EXCEPT ![w] =
                  [IdleTask EXCEPT !.pc = "publish",
                                   !.todo = {CommandOf(s, row[s]) : s \in due}]]
    /\ UNCHANGED <<row, profile, eligible, cmds, results, acked, requested,
                   notices, consumer, stable>>

\* IsServerEligible says no, or a lookup fails: the row is skipped and stays due.
SkipRow(w, c) ==
    /\ task[w].pc = "publish" /\ task[w].kind = "reconcile"
    /\ c \in task[w].todo
    /\ c.server \notin eligible \/ Occurs("statement")
    /\ task' = [task EXCEPT ![w].todo = @ \ {c}]
    /\ UNCHANGED <<row, profile, eligible, cmds, results, acked, requested,
                   notices, consumer, stable>>

-----------------------------------------------------------------------------
(***************************************************************************)
(* publishProfileNodes: the loop shared by all three                       *)
(***************************************************************************)

MayPublish(w, c) ==
    /\ task[w].pc = "publish"
    /\ c \in task[w].todo
    /\ task[w].kind = "reconcile" => c.server \in eligible

Publish(w, c) ==
    /\ MayPublish(w, c)
    /\ cmds' = cmds \cup {c}
    /\ Cardinality(cmds') <= MaxCommands
    /\ task' = [task EXCEPT ![w].pc = "mark", ![w].todo = @ \ {c},
                            ![w].current = {c}, ![w].sent = TRUE]
    /\ UNCHANGED <<row, profile, eligible, results, acked, requested, notices,
                   consumer, stable>>

PublishFails(w, c) ==
    /\ Occurs("publish")
    /\ MayPublish(w, c)
    /\ task' = [task EXCEPT ![w].pc = "mark", ![w].todo = @ \ {c},
                            ![w].current = {c}, ![w].sent = FALSE]
    /\ UNCHANGED <<row, profile, eligible, cmds, results, acked, requested,
                   notices, consumer, stable>>

\* Faulty variant: a status no other statement knows.
MarkedUnknown(r) ==
    IF r.status # "success" THEN [r EXCEPT !.status = "publish_failed"] ELSE r

\* MarkProfileNodePublishFailed: every row but a successful one is pending again.
MarkedPublishFailed(r) ==
    IF r.status # "success" THEN [r EXCEPT !.status = "pending"] ELSE r

\* MarkProfileNodePublished moves only next_attempt_at, and only of a pending
\* row.  stored = FALSE: the UPDATE itself fails and the command does not count.
Mark(w, stored) ==
    /\ task[w].pc = "mark"
    /\ stored \/ Occurs("marking")
    /\ \E c \in task[w].current :
          row' = IF stored /\ ~task[w].sent
                 THEN [row EXCEPT ![c.server] = MarkedPublishFailed(@)]
                 ELSE row
    /\ task' = [task EXCEPT ![w].pc = "publish", ![w].current = {}, ![w].sent = FALSE,
                            ![w].published = /\ task[w].kind = "create"
                                             /\ @ \/ (task[w].sent /\ stored)]
    /\ UNCHANGED <<profile, eligible, cmds, results, acked, requested, notices,
                   consumer, stable>>

EndLoop(w) ==
    /\ task[w].pc = "publish"
    /\ task[w].todo = {}
    /\ task' = IF task[w].kind = "create" THEN Step(w, "finish") ELSE Done(w)
    /\ UNCHANGED <<row, profile, eligible, cmds, results, acked, requested,
                   notices, consumer, stable>>

\* A database error outside the loop: the request returns it, the rest is skipped.
Abandon(w) ==
    /\ Occurs("statement")
    /\ task[w].pc \in {"reject", "ensure", "write", "plan", "reread", "finish"}
    /\ task' = Done(w)
    /\ UNCHANGED <<row, profile, eligible, cmds, results, acked, requested,
                   notices, consumer, stable>>

-----------------------------------------------------------------------------
(***************************************************************************)
(* ApplyCommandResult: the result consumer (concurrency 1)                 *)
(***************************************************************************)

\* Faulty variant: without the check of the server.
IgnoredByAction(r) ==
    \/ ~Exists(r.job)
    \/ /\ row[r.job].action # NoAction
       /\ r.action # NoAction
       /\ row[r.job].action # r.action

\* The guards of ApplyCommandResult, against the row as it is read here.
Ignored(r) ==
    \/ ~Exists(r.job)
    \/ r.server # r.job
    \/ /\ row[r.job].action # NoAction
       /\ r.action # NoAction
       /\ row[r.job].action # r.action

AckIgnored(r) ==
    /\ consumer.pc = "idle" /\ r \in results
    /\ Ignored(r)
    /\ results' = results \ {r}
    /\ UNCHANGED <<row, profile, eligible, cmds, acked, requested, notices, task,
                   consumer, stable>>

TakeResult(r) ==
    /\ consumer.pc = "idle" /\ r \in results
    /\ ~Ignored(r)
    /\ consumer' = [IdleConsumer EXCEPT
                      !.result = {r}, !.pending = row[r.job].action,
                      !.pc = IF row[r.job].action = NoAction THEN "take" ELSE "action"]
    /\ UNCHANGED <<row, profile, eligible, cmds, results, acked, requested,
                   notices, task, stable>>

\* The status ApplyProfileNodeActionResult stores.
ActionOutcome(action, ok) ==
    CASE ~ok                               -> "failed"
      [] ok /\ action = "disable_client"   -> "disabled"
      [] ok /\ action = "delete_client"    -> "deleted"
      [] OTHER                             -> "success"

\* ApplyProfileNodeActionResult: one unconditional UPDATE by row id.
ApplyProfileNodeActionResult ==
    /\ consumer.pc = "action"
    /\ \E e \in consumer.result :
         row' = [row EXCEPT ![e.job] =
                   [@ EXCEPT !.status = ActionOutcome(consumer.pending, e.ok),
                             !.action = NoAction]]
    /\ consumer' = [consumer EXCEPT !.pc = "recalc", !.copy = NoRow]
    /\ UNCHANGED <<profile, eligible, cmds, results, acked, requested, notices,
                   task, stable>>

\* Faulty variant: results are applied in the order they come.
NeverLate(e) == FALSE

\* ApplyProfileNodeResult: a failure that arrives after a success is dropped.
LateFailure(e) == row[e.job].status = "success" /\ ~e.ok

\* ApplyProfileNodeResult, the Take.
TakeRow ==
    /\ consumer.pc = "take"
    /\ \E e \in consumer.result :
         consumer' = IF LateFailure(e)
                     THEN [consumer EXCEPT !.pc = "recalc"]
                     ELSE [consumer EXCEPT !.pc = "save", !.copy = row[e.job]]
    /\ UNCHANGED <<row, profile, eligible, cmds, results, acked, requested,
                   notices, task, stable>>

ResultStatus(e) == IF e.ok THEN "success" ELSE "failed"

\* GORM's Save writes EVERY column of the copy back, not only those it changed.
SavedRow(e) == [consumer.copy EXCEPT !.status = ResultStatus(e)]

\* ApplyProfileNodeResult, the Save.
SaveRow ==
    /\ consumer.pc = "save"
    /\ \E e \in consumer.result : row' = [row EXCEPT ![e.job] = SavedRow(e)]
    /\ consumer' = [consumer EXCEPT !.pc = "recalc", !.copy = NoRow]
    /\ UNCHANGED <<profile, eligible, cmds, results, acked, requested, notices,
                   task, stable>>

\* GetProfileByID with its rows, the new status and whether to tell the user.
Recalculate ==
    /\ consumer.pc = "recalc"
    /\ consumer' = [consumer EXCEPT
                      !.pc = "store",
                      !.status = RecalculatedStatus,
                      !.tell = /\ consumer.pending = NoAction
                               /\ IsUsable(RecalculatedStatus)
                               /\ ~profile.notified]
    /\ UNCHANGED <<row, profile, eligible, cmds, results, acked, requested,
                   notices, task, stable>>

\* Faulty variant: notified_at is forgotten.
UnstampedProfile == [status |-> consumer.status, notified |-> profile.notified]

\* What UpdateProfileResult stores: the status, and notified_at once for all.
StoredProfile ==
    [status |-> consumer.status, notified |-> profile.notified \/ consumer.tell]

\* UpdateProfileResult; with nothing to tell the handler returns nil: Ack.
UpdateProfileResult ==
    /\ consumer.pc = "store"
    /\ profile' = StoredProfile
    /\ IF consumer.tell
         THEN /\ consumer' = [consumer EXCEPT !.pc = "notify", !.status = "pending"]
              /\ UNCHANGED results
         ELSE /\ consumer' = IdleConsumer
              /\ results' = results \ consumer.result
    /\ UNCHANGED <<row, eligible, cmds, acked, requested, notices, task, stable>>

\* SendVPNReady, then Ack; a failed send is only logged.
Notify ==
    /\ consumer.pc = "notify"
    /\ notices' = IF notices = 2 THEN 2 ELSE notices + 1
    /\ consumer' = IdleConsumer
    /\ results' = results \ consumer.result
    /\ UNCHANGED <<row, profile, eligible, cmds, acked, requested, task, stable>>

\* A handler error is NackRequeue: the result stays in the queue.
HandlerError ==
    /\ Occurs("handler")
    /\ consumer.pc # "idle"
    /\ consumer' = IdleConsumer
    /\ UNCHANGED <<row, profile, eligible, cmds, results, acked, requested,
                   notices, task, stable>>

-----------------------------------------------------------------------------
(***************************************************************************)
(* The panel as a whole, and what surrounds it                             *)
(***************************************************************************)

\* The process dies: every goroutine is gone, unacknowledged results stay.
Crash ==
    /\ Occurs("crash")
    /\ task' = [w \in Workers |-> IdleTask]
    /\ consumer' = IdleConsumer
    /\ UNCHANGED <<row, profile, eligible, cmds, results, acked, requested,
                   notices, stable>>

\* What an agent that executed c may put in its result.
Reports(c) ==
    {r \in Result :
        /\ r.server = c.server
        /\ r.job = c.server \/ Misaddressed
        /\ r.action = c.action \/ (OmitsCommandType /\ r.action = NoAction)}

\* The agent of c.server executes c and reports.  Unless it acknowledges the
\* command (kept = FALSE), RabbitMQ will deliver it again.
AgentExecutes(c, r, kept) ==
    /\ c \in cmds
    /\ r \in Reports(c)
    /\ ~kept \/ Occurs("redelivery")
    /\ cmds' = IF kept THEN cmds ELSE cmds \ {c}
    /\ results' = results \cup {r}
    /\ Cardinality(results') <= MaxResults
    /\ acked' = IF r.ok THEN Recorded(acked, c.server, c.action) ELSE acked
    /\ UNCHANGED <<row, profile, eligible, requested, notices, task, consumer, stable>>

\* An unroutable command is dropped by the exchange without an error.
LoseCommand(c) ==
    /\ Occurs("loss")
    /\ c \in cmds
    /\ cmds' = cmds \ {c}
    /\ UNCHANGED <<row, profile, eligible, results, acked, requested, notices,
                   task, consumer, stable>>

\* An administrator or a node snapshot changes the eligibility of a server.
ToggleEligible(s) ==
    /\ ~stable
    /\ eligible' = IF s \in eligible THEN eligible \ {s} ELSE eligible \cup {s}
    /\ UNCHANGED <<row, profile, cmds, results, acked, requested, notices, task,
                   consumer, stable>>

Stabilise ==
    /\ ~stable
    /\ stable' = TRUE
    /\ UNCHANGED <<row, profile, eligible, cmds, results, acked, requested,
                   notices, task, consumer>>

-----------------------------------------------------------------------------

\* The steps of the code that go on by themselves.
RequestProgress(w) ==
    \/ RejectCreate(w) \/ EnsureTake(w) \/ EnsureCommit(w) \/ EnsureConflict(w)
    \/ Plan(w) \/ RereadNode(w) \/ FinishCreate(w)

LoopProgress(w) ==
    \/ \E c \in task[w].todo : SkipRow(w, c) \/ Publish(w, c)
    \/ Mark(w, TRUE)
    \/ EndLoop(w)

LoopFault(w) == (\E c \in task[w].todo : PublishFails(w, c)) \/ Mark(w, FALSE)

RequestStep(w) ==
    \/ RequestCreateAll(w)
    \/ \E s \in Servers : RequestCreateOn(w, s)
    \/ \E s \in Servers, d \in DesiredInputs : RequestConnectionState(w, s, d)
    \/ RequestProgress(w) \/ LoopProgress(w)
    \/ LoopFault(w) \/ Abandon(w)

ReconcileStep(w) ==
    \/ \E due \in SUBSET Servers : StartReconcile(w, due)
    \/ LoopProgress(w) \/ LoopFault(w)

ConsumerProgress ==
    \/ \E r \in results : AckIgnored(r) \/ TakeResult(r)
    \/ ApplyProfileNodeActionResult \/ TakeRow \/ SaveRow
    \/ Recalculate \/ UpdateProfileResult \/ Notify

AgentProgress == \E c \in cmds : \E r \in Reports(c) : AgentExecutes(c, r, FALSE)

EnvironmentStep ==
    \/ Crash \/ HandlerError
    \/ \E c \in cmds : LoseCommand(c)
    \/ AgentProgress
    \/ \E c \in cmds : \E r \in Reports(c) : AgentExecutes(c, r, TRUE)
    \/ \E s \in Flapping : ToggleEligible(s)

Next ==
    \/ \E w \in Requests : RequestStep(w)
    \/ \E w \in Crons : ReconcileStep(w)
    \/ ConsumerProgress
    \/ EnvironmentStep

Spec == Init /\ [][Next]_vars

\* A row that is skipped stays due and comes first in every later run.
Skipped == {s \in PendingRows : s \notin eligible}

\* The rows that can only be skipped leave room for another one.
RoomInRun == Cardinality(Skipped) + Elsewhere < Limit

\* What the scheduling of the code justifies: goroutines and the consumer run
\* on, cron keeps firing, the retry delay is finite, agents drain their queue.
\* A run reads the longest due rows first, so each row has its turn, but only
\* while those that are never published leave room for it.
\* Requests, faults and eligibility changes are never obliged to happen.
Fairness ==
    /\ \A w \in Workers : WF_vars(RequestProgress(w) \/ LoopProgress(w))
    /\ \A w \in Crons, s \in Servers :
          SF_vars(/\ stable /\ RoomInRun
                  /\ \E due \in SUBSET Servers : s \in due /\ StartReconcile(w, due))
    /\ WF_vars(ConsumerProgress)
    /\ WF_vars(AgentProgress)

\* The same panel in an environment that may calm down for good.
FairSpec == Init /\ [][Next \/ Stabilise]_vars /\ Fairness

-----------------------------------------------------------------------------
(***************************************************************************)
(* Properties                                                              *)
(***************************************************************************)

\* Every variable stays in its domain.
TypeOK ==
    /\ row \in [Servers -> Row]
    /\ profile \in [status: ProfileStatuses, notified: BOOLEAN]
    /\ eligible \subseteq Servers
    /\ cmds \subseteq Command
    /\ results \subseteq Result
    /\ acked \in [Servers -> SUBSET Actions]
    /\ requested \in [Servers -> SUBSET Actions]
    /\ notices \in 0..2
    /\ task \in [Workers -> Task]
    /\ consumer \in Consumer
    /\ stable \in BOOLEAN

\* A row only reports what the agent of ITS server has done: success needs some
\* acknowledged command of that server, disabled and deleted need that very
\* action (agents that omit command_type weaken it to any acknowledgement).
\* Behind it: the identity and action guards of ApplyCommandResult, with rows
\* changing between the guard and the write.
StatusIsAcknowledged ==
    \A s \in Audited :
        LET proof(a) == IF OmitsCommandType THEN acked[s] # {} ELSE a \in acked[s]
        IN  /\ row[s].status = "success"  => acked[s] # {}
            /\ row[s].status = "disabled" => proof("disable_client")
            /\ row[s].status = "deleted"  => proof("delete_client")

\* The user is told "VPN ready", and the profile is shown as usable, only after
\* some server acknowledged a command, whatever was replayed or crashed.
ReadyIsAcknowledged ==
    (Audited = Servers /\ (notices > 0 \/ profile.notified \/ IsUsable(profile.status)))
        => \E s \in Servers : acked[s] # {}

\* NotifiedAt makes the notification at-most-once across redelivered results,
\* crashes between its commit and the send, and later deployments.
NotifiedAtMostOnce == notices <= 1

\* Stale row copies, replays and retries never make an agent do what no
\* administrator asked for: only create_client is ever sent unasked.
OnlyRequestedActions ==
    \A s \in Audited : acked[s] \subseteq requested[s] \cup {"create_client"}

\* PrepareProfileNodeAction stores desired_state and pending_action together,
\* and no later partial update or full-row Save tears the pair apart.
PendingActionMatchesDesired ==
    \A s \in Servers : row[s].action # NoAction => row[s].action = ActionFor(row[s].desired)

\* "Success is terminal ...  A delayed failure from an earlier redelivery must
\* not downgrade an already active node": success turns into failed only as the
\* outcome of an administrator's pending action.
LateFailureKeepsSuccess ==
    [][\A s \in Servers :
          row[s].status = "success" /\ row'[s].status = "failed"
              => row[s].action # NoAction]_vars

\* A client that an agent disabled or deleted is not shown as deployed again
\* unless somebody asks for it first (the row is pending in between).
RemovedStaysRemoved ==
    [][\A s \in Servers :
          row[s].status \in {"disabled", "deleted"} => row'[s].status # "success"]_vars

\* "A successful deployment is durable domain state. Rebuilding a provisioning plan
\* must not turn it back into pending": a create request leaves a success alone,
\* also one that is stored while the request plans.
PlanningKeepsSuccess ==
    [][\A w \in Requests, s \in Servers :
          EnsureCommit(w) /\ row[s].status = "success" => row'[s].status = "success"]_vars

\* To the rest of the panel the rows are the deployments of module Deployment:
\* no interleaving of copies, retries, replays and crashes takes a step that it
\* does not allow.  Stated of runs that record the history of every server.
Promise == INSTANCE Deployment WITH
               status <- [s \in Servers |-> row[s].status], reported <- acked,
               NamesAction <- ~OmitsCommandType
ImplementsDeployment == Promise!DeploymentSpec

\* Once requests, faults and eligibility changes cease, every pending row of an
\* eligible server is settled and stays so: lost commands, lost markings and
\* half-finished requests are all repaired by ReconcilePending, also beside rows of
\* ineligible servers, as long as these do not fill its runs.
PendingRowsSettle ==
    <>[]RoomInRun => stable ~> [](\A s \in eligible : row[s].status # "pending")
=============================================================================
