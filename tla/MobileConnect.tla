---------------------------- MODULE MobileConnect ----------------------------
(***************************************************************************)
(* Connect operations of ONE mobile device, their idempotency keys, and    *)
(* the revocation of the device.                                           *)
(*                                                                         *)
(* An app asks to be connected to a server and names a key of its own; a   *)
(* repeat of the request with that key must not provision again but report *)
(* on the operation of the first one.  The server's deployment is what     *)
(* module Deployment promises, which Provisioning implements: agents, the  *)
(* reconciler and administrators change it beside the requests here.       *)
(*                                                                         *)
(* Each statement or transaction of a request is one action.  Nothing      *)
(* holds a lock from one to the next.                                      *)
(***************************************************************************)
EXTENDS Deployment, FiniteSets

CONSTANTS
    Requests,    \* goroutines that serve requests of the app or the panel
    Keys,        \* values of the Idempotency-Key header
    Operations,  \* ids of operations (uuid.NewString)
    AnyServer,   \* the server_id "auto"
    Targets,     \* server_ids the app asks for
    Faults,      \* kinds of fault that occur
    Kinds,       \* requests that arrive
    Flapping,    \* may grants, entitlement and routing change at any time?
    Relogin,     \* may a revoked device log in again?
    None         \* no operation, no server

FaultKinds == {"publish", "statement", "crash"}
KindNames  == {"connect", "poll", "revoke"}

ASSUME MobileConnectAssumption ==
    /\ AnyServer \notin Servers /\ "failed" \notin Servers /\ None \notin Operations \cup Servers \cup {AnyServer}
    /\ Targets \subseteq Servers \cup {AnyServer}
    /\ Faults \subseteq FaultKinds
    /\ Kinds \subseteq KindNames
    /\ {Flapping, Relogin} \subseteq BOOLEAN

VARIABLES
    active,      \* mobile_devices.status = "active"
    client,      \* the device's vpn_clients and vpn_profiles rows exist
    op,          \* mobile_operations
    record,      \* mobile_idempotency_records of this device
    task,        \* program state of the goroutines
    provisioned, \* history: RequestCreateVPN calls under a living record
    answered     \* history: what the app was told about an operation

vars == <<status, reported, requested, active, client,
          op, record, task, provisioned, answered>>

-----------------------------------------------------------------------------
(***************************************************************************)
(* Values                                                                  *)
(***************************************************************************)

\* A success is the config of a server.
Answers == {"failed"} \cup Servers

\* Time is a phase per operation: it lives 30 minutes, its record 24 hours,
\* and Cleanup deletes it 24 hours after it has expired.
Live == 0
Expired == 1
RecordExpired == 2
Deletable == 3

\* status "none" is the missing row; resolved is None until it is stored.
Operation == [status: {"none", "pending", "processing", "success", "failed"},
              resolved: Servers \cup {None}, phase: Live..Deletable]

NoOperation == [status |-> "none", resolved |-> None, phase |-> Live]

Task == [pc: {"idle", "lookup", "create", "again", "provision", "insert", "ensure",
              "publish", "fail", "store", "view", "find", "found", "revoke", "delete"},
         key: Keys \cup {None}, target: Targets \cup {None},
         operation: Operations \cup {None}, server: Servers \cup {None},
         todo: SUBSET Servers]

IdleTask == [pc |-> "idle", key |-> None, target |-> None, operation |-> None,
             server |-> None, todo |-> {}]

Init ==
    /\ DeploymentInit
    /\ active = TRUE
    /\ client = FALSE
    /\ op = [o \in Operations |-> NoOperation]
    /\ record = [k \in Keys |-> None]
    /\ task = [c \in Requests |-> IdleTask]
    /\ provisioned = [k \in Keys |-> 0]
    /\ answered = [o \in Operations |-> {}]

Exists(o) == op[o].status # "none"
Held(o)   == \E c \in Requests : task[c].operation = o

Goto(c, pc) == [task EXCEPT ![c].pc = pc]
Done(c)     == [task EXCEPT ![c] = IdleTask]
Viewing(c, o) == [task EXCEPT ![c] = [IdleTask EXCEPT !.pc = "view", !.operation = o]]
Occurs(fault) == fault \in Faults

Answer(o, a) == answered' = [answered EXCEPT ![o] = @ \cup {a}]

-----------------------------------------------------------------------------
(***************************************************************************)
(* Connect: from the idempotency key to the operation                      *)
(***************************************************************************)

\* Authenticate and validateEntitlement accept the request.
BeginConnect(c, k, t) ==
    /\ "connect" \in Kinds
    /\ task[c].pc = "idle"
    /\ active
    /\ task' = [task EXCEPT ![c] = [IdleTask EXCEPT !.pc = "lookup", !.key = k,
                                                    !.target = t]]
    /\ UNCHANGED <<deploymentVars, active, client, op, record, provisioned, answered>>

\* Where a request goes that found the record of its key: to the operation, or
\* to an error when the record holds the hash of another body.
Resume(c, k) == {Viewing(c, record[k]), Done(c)}

\* GetIdempotency.
LookUpKey(c) ==
    /\ task[c].pc = "lookup"
    /\ LET k == task[c].key
       IN  task' \in IF record[k] = None THEN {Goto(c, "create")} ELSE Resume(c, k)
    /\ UNCHANGED <<deploymentVars, active, client, op, record, provisioned, answered>>

\* Faulty variant: the server asked for is stored as the one resolved.
NamedOperation(c) ==
    [NoOperation EXCEPT !.status = "pending", !.resolved = task[c].target]

\* Faulty variant: a concrete server is stored before it is provisioned.
ResolvedOperation(c) ==
    [NoOperation EXCEPT !.status = "pending",
                        !.resolved = IF task[c].target = AnyServer THEN None ELSE task[c].target]

NewOperation(c) == [NoOperation EXCEPT !.status = "pending"]

\* Faulty variant: keys are looked up, but no unique index guards them.
NeverTaken(k) == FALSE

Taken(k) == record[k] # None

\* CreateOperationWithIdempotency: both rows or, on a duplicate key, none.  An
\* unused id stands for a fresh uuid.
CreateOperation(c, o) ==
    /\ task[c].pc = "create"
    /\ ~Taken(task[c].key)
    /\ ~Exists(o) /\ ~Held(o) /\ answered[o] = {}
    /\ op' = [op EXCEPT ![o] = NewOperation(c)]
    /\ record' = [record EXCEPT ![task[c].key] = o]
    /\ task' = [task EXCEPT ![c].pc = "provision", ![c].operation = o]
    /\ UNCHANGED <<deploymentVars, active, client, provisioned, answered>>

CreateFails(c) ==
    /\ task[c].pc = "create"
    /\ Taken(task[c].key) \/ Occurs("statement")
    /\ task' = Goto(c, "again")
    /\ UNCHANGED <<deploymentVars, active, client, op, record, provisioned, answered>>

\* After the failed transaction the record is looked up again.
LookUpAgain(c) ==
    /\ task[c].pc = "again"
    /\ LET k == task[c].key
       IN  task' \in IF record[k] = None THEN {Done(c)} ELSE Resume(c, k)
    /\ UNCHANGED <<deploymentVars, active, client, op, record, provisioned, answered>>

-----------------------------------------------------------------------------
(***************************************************************************)
(* Connect: RequestCreateVPN, for one profile and one server               *)
(***************************************************************************)

\* What EnabledNodesByGroupForUser may return: grants and servers come and go
\* beside the requests, and each request reads them anew.
EligibleSets == IF Flapping THEN SUBSET Servers ELSE {Servers}

\* resolveAutoServer: the pinned server or the healthiest one.  The pin may be
\* any server, and health reports may make any eligible one the healthiest;
\* None stands for no eligible server and for a pinned one that is not.
AutoServers == IF Flapping THEN Servers \cup {None} ELSE Servers

ResolvedServers(t) == IF t = AnyServer THEN AutoServers ELSE {t}

Counted(k) == [provisioned EXCEPT ![k] = IF @ < 2 THEN @ + 1 ELSE @]

Failing(c, s) == [task EXCEPT ![c] = [IdleTask EXCEPT !.pc = "fail", !.server = s,
                                        !.operation = task[c].operation]]

\* The device and the subscription, which may have run out since, are checked
\* again; then the device's credentials are read.
Provision(c) ==
    /\ task[c].pc = "provision"
    /\ \E s \in ResolvedServers(task[c].target) :
          \/ /\ active /\ s # None
             /\ task' = [task EXCEPT ![c] = [IdleTask EXCEPT
                           !.pc = IF client THEN "ensure" ELSE "insert",
                           !.operation = task[c].operation, !.server = s]]
          \/ /\ ~active \/ s = None \/ Flapping
             /\ task' = Failing(c, None)
    /\ provisioned' = Counted(task[c].key)
    /\ UNCHANGED <<deploymentVars, active, client, op, record, answered>>

\* GetOrCreateVPNClientForDevice and CreateProfileWithNodes insert what they did
\* not find; a second request that does the same fails on the unique index.
InsertClient(c) ==
    /\ task[c].pc = "insert"
    /\ client' = TRUE
    /\ task' = IF client THEN Failing(c, None) ELSE Goto(c, "ensure")
    /\ UNCHANGED <<deploymentVars, active, op, record,
                   provisioned, answered>>

\* EnabledNodesByGroupForUser, then EnsureProfileNodes: the deployment becomes
\* pending, a successful one stays.
EnsureNodes(c) ==
    /\ task[c].pc = "ensure"
    /\ \E eligible \in EligibleSets :
          LET s == task[c].server
          IN  IF s \notin eligible
                THEN task' = Failing(c, None) /\ UNCHANGED deploymentVars
                ELSE /\ task' = Goto(c, "publish")
                     /\ Plan(IF status[s] = "success" THEN {} ELSE {s})
    /\ UNCHANGED <<active, client, op, record, provisioned, answered>>

\* The deployment is read again: nothing is published for a successful one,
\* and a request that publishes nothing ends in ErrNoCommandsQueued.
PublishCommand(c) ==
    /\ task[c].pc = "publish"
    /\ \/ status[task[c].server] # "success" /\ task' = Goto(c, "store")
       \/ status[task[c].server] = "success" /\ task' = Failing(c, task[c].server)
       \/ Occurs("publish") /\ task' = Failing(c, None)
    /\ UNCHANGED <<deploymentVars, active, client, op, record, provisioned, answered>>

\* A database error anywhere in RequestCreateVPN.
ProvisionFails(c) ==
    /\ Occurs("statement")
    /\ task[c].pc \in {"provision", "insert", "ensure", "publish"}
    /\ task' = Failing(c, None)
    /\ UNCHANGED <<deploymentVars, active, client, op, record, provisioned, answered>>

\* UpdateOperation: one UPDATE by id whose error is ignored.
Updated(o, st, s) == [op EXCEPT ![o].status = st, ![o].resolved = s]

StoreFailure(c) ==
    /\ task[c].pc = "fail"
    /\ LET o == task[c].operation
       IN  /\ \/ op' = Updated(o, "failed", op[o].resolved)
              \/ Occurs("statement") /\ UNCHANGED op
           /\ Answer(o, "failed")
    /\ task' = Done(c)
    /\ UNCHANGED <<deploymentVars, active, client, record, provisioned>>

StoreProcessing(c) ==
    /\ task[c].pc = "store"
    /\ \/ op' = Updated(task[c].operation, "processing", task[c].server)
       \/ Occurs("statement") /\ UNCHANGED op
    /\ task' = Viewing(c, task[c].operation)
    /\ UNCHANGED <<deploymentVars, active, client, record, provisioned, answered>>

-----------------------------------------------------------------------------
(***************************************************************************)
(* Operation: polling, and the end of every Connect                        *)
(***************************************************************************)

BeginPoll(c, o) ==
    /\ "poll" \in Kinds
    /\ task[c].pc = "idle"
    /\ active /\ Exists(o)
    /\ task' = Viewing(c, o)
    /\ UNCHANGED <<deploymentVars, active, client, op, record, provisioned, answered>>

\* GetOperation: an expired operation is answered as such, whatever came of it.
View(c) ==
    /\ task[c].pc = "view"
    /\ LET o == task[c].operation
       IN  \/ /\ op[o].phase # Live
             /\ task' = Done(c)
             /\ UNCHANGED answered
          \/ /\ op[o].phase = Live /\ op[o].status = "failed"
             /\ task' = Done(c)
             /\ Answer(o, "failed")
          \/ /\ op[o].phase = Live /\ op[o].status # "failed"
             /\ task' = [task EXCEPT ![c].pc = "find", ![c].server = op[o].resolved]
             /\ UNCHANGED answered
    /\ UNCHANGED <<deploymentVars, active, client, op, record, provisioned>>

\* Faulty variant: any deployment that has not failed has a config.
PresumedDeployed(s) == s # None /\ status[s] \in {"pending", "success"}

\* findConfig: before the server is resolved no row matches.
Deployed(s) == s # None /\ status[s] = "success"

FindConfig(c) ==
    /\ task[c].pc = "find"
    /\ task' = IF Deployed(task[c].server) THEN Goto(c, "found") ELSE Done(c)
    /\ UNCHANGED <<deploymentVars, active, client, op, record, provisioned, answered>>

StoreSuccess(c) ==
    /\ task[c].pc = "found"
    /\ LET o == task[c].operation
       IN  /\ \/ op' = Updated(o, "success", op[o].resolved)
              \/ Occurs("statement") /\ UNCHANGED op
           /\ Answer(o, task[c].server)
    /\ task' = Done(c)
    /\ UNCHANGED <<deploymentVars, active, client, record, provisioned>>

-----------------------------------------------------------------------------
(***************************************************************************)
(* RevokeDevice                                                            *)
(***************************************************************************)

\* GetUserVPNDetails comes before the revocation; its error is ignored.
BeginRevoke(c) ==
    /\ "revoke" \in Kinds
    /\ task[c].pc = "idle"
    /\ \E todo \in {{s \in Servers : status[s] \notin {"none", "deleted"}}}
                   \cup (IF Occurs("statement") THEN {{}} ELSE {}) :
          task' = [task EXCEPT ![c] = [IdleTask EXCEPT !.pc = "revoke", !.todo = todo]]
    /\ UNCHANGED <<deploymentVars, active, client, op, record, provisioned, answered>>

RevokeDevice(c) ==
    /\ task[c].pc = "revoke"
    /\ active' = FALSE
    /\ task' = Goto(c, "delete")
    /\ UNCHANGED <<deploymentVars, client, op, record,
                   provisioned, answered>>

\* RequestConnectionState for each connection read before; an error is logged.
DeleteConnection(c, s) ==
    /\ task[c].pc = "delete"
    /\ s \in task[c].todo
    /\ Ask(s, "delete_client") \/ (Occurs("statement") /\ UNCHANGED deploymentVars)
    /\ task' = [task EXCEPT ![c].todo = @ \ {s}]
    /\ UNCHANGED <<active, client, op, record, provisioned, answered>>

EndRevoke(c) ==
    /\ task[c].pc = "delete" /\ task[c].todo = {}
    /\ task' = Done(c)
    /\ UNCHANGED <<deploymentVars, active, client, op, record, provisioned, answered>>

\* A read, or the transaction of the revocation, fails: so does the request.
StatementFails(c) ==
    /\ Occurs("statement")
    /\ task[c].pc \in {"lookup", "again", "view", "find", "revoke"}
    /\ task' = Done(c)
    /\ UNCHANGED <<deploymentVars, active, client, op, record, provisioned, answered>>

-----------------------------------------------------------------------------
(***************************************************************************)
(* Time, clean-up, crashes, and the rest of the panel                      *)
(***************************************************************************)

\* A request takes less than a day, so the rows it holds are not cleaned up.
Age(o) ==
    /\ Exists(o) /\ op[o].phase < Deletable
    /\ op[o].phase = Live \/ ~Held(o)
    /\ op' = [op EXCEPT ![o].phase = @ + 1]
    /\ UNCHANGED <<deploymentVars, active, client, record, task, provisioned, answered>>

OperationOf(k) == op[record[k]]

\* Faulty variant: operations are deleted when they expire, like logins.
DeletedAtExpiry == {o \in Operations : Exists(o) /\ op[o].phase >= Expired /\ ~Held(o)}

DeletedOperations == {o \in Operations : Exists(o) /\ op[o].phase = Deletable /\ ~Held(o)}
DeletedRecords ==
    {k \in Keys : record[k] # None /\ OperationOf(k).phase >= RecordExpired}

\* Cleanup, the part that concerns operations: one transaction.
Cleanup ==
    /\ DeletedOperations \cup DeletedRecords # {}
    /\ op' = [o \in Operations |-> IF o \in DeletedOperations THEN NoOperation ELSE op[o]]
    /\ record' = [k \in Keys |-> IF k \in DeletedRecords THEN None ELSE record[k]]
    /\ provisioned' = [k \in Keys |-> IF k \in DeletedRecords THEN 0 ELSE provisioned[k]]
    /\ answered' = [o \in Operations |-> IF o \in DeletedOperations THEN {} ELSE answered[o]]
    /\ UNCHANGED <<deploymentVars, active, client, task>>

Crash ==
    /\ Occurs("crash")
    /\ task' = [c \in Requests |-> IdleTask]
    /\ UNCHANGED <<deploymentVars, active, client, op, record, provisioned, answered>>

\* A new login of the same installation (ExchangeTelegramLogin).
Login ==
    /\ Relogin /\ ~active
    /\ active' = TRUE
    /\ UNCHANGED <<deploymentVars, client, op, record, task,
                   provisioned, answered>>

\* Everything else module Deployment lets happen: agents report, their results
\* settle the deployment, the reconciler and other requests plan it anew.  What
\* administrators ask for acts on a deployment as a revocation does.
Deploy ==
    /\ \E s \in Servers :
          \/ \E a \in AllActions : Report(s, a)
          \/ \E st \in Settled : Settle(s, st)
          \/ status[s] # "none" /\ Plan({s})
    /\ UNCHANGED <<active, client, op, record, task, provisioned, answered>>

-----------------------------------------------------------------------------

\* The steps a request takes once it has begun.
RequestProgress(c) ==
    \/ LookUpKey(c) \/ (\E o \in Operations : CreateOperation(c, o)) \/ CreateFails(c)
    \/ LookUpAgain(c)
    \/ Provision(c) \/ InsertClient(c) \/ EnsureNodes(c) \/ PublishCommand(c)
    \/ ProvisionFails(c) \/ StoreFailure(c) \/ StoreProcessing(c)
    \/ View(c) \/ FindConfig(c) \/ StoreSuccess(c)
    \/ RevokeDevice(c) \/ (\E s \in task[c].todo : DeleteConnection(c, s)) \/ EndRevoke(c)
    \/ StatementFails(c)

BeginRequest(c) ==
    \/ \E k \in Keys, t \in Targets : BeginConnect(c, k, t)
    \/ \E o \in Operations : BeginPoll(c, o)
    \/ BeginRevoke(c)

Next ==
    \/ \E c \in Requests : BeginRequest(c) \/ RequestProgress(c)
    \/ \E o \in Operations : Age(o)
    \/ Cleanup \/ Crash \/ Login \/ Deploy

Spec == Init /\ [][Next]_vars

-----------------------------------------------------------------------------
(***************************************************************************)
(* Properties                                                              *)
(***************************************************************************)

\* Every variable stays in its domain.
TypeOK ==
    /\ status \in [Servers -> Statuses]
    /\ reported \in [Servers -> SUBSET AllActions]
    /\ requested \in [Servers -> SUBSET AskedActions]
    /\ {active, client} \subseteq BOOLEAN
    /\ op \in [Operations -> Operation]
    /\ record \in [Keys -> Operations \cup {None}]
    /\ task \in [Requests -> Task]
    /\ provisioned \in [Keys -> 0..2]
    /\ answered \in [Operations -> SUBSET Answers]

\* However often an app repeats a request, at once or after a crash or an error,
\* its key leads to one call of RequestCreateVPN while the record lives.
ProvisionedOncePerKey == \A k \in Keys : provisioned[k] <= 1

\* A known key never leads to a missing operation: Cleanup deletes the record,
\* after 24 hours, before the operation, 24 hours after its 30 minutes.
RecordHasOperation ==
    \A k \in Keys : record[k] # None => Exists(record[k])

\* No operation is reported as failed and as successful: an unconditional
\* UPDATE of a poll never covers a failure, although other requests deploy the
\* same server meanwhile.
AnswersAgree ==
    \A o \in Operations : "failed" \in answered[o] => answered[o] \cap Servers = {}

\* Every poll of an operation, and every repeat of its request, is handed the config of one
\* and the same server, the one that the first request stored, and only after its agent
\* reported some command done; which command, the answer does not tell.
SuccessIsReported ==
    \A o \in Operations, s \in Servers :
        s \in answered[o] => op[o].resolved = s /\ reported[s] # {}

\* "POST /vpn/connect: return config or provisioning operation": a request for an
\* eligible server that is deployed, and whose config another operation was
\* answered with, does not fail.
ConnectFindsDeployment ==
    \A c \in Requests, o \in Operations :
        /\ task[c].pc = "fail" /\ task[c].server # None
        /\ task[c].server \in answered[o]
        => ~Deployed(task[c].server)
=============================================================================
