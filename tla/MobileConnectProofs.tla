-------------------------- MODULE MobileConnectProofs --------------------------
(* Theorems about MobileConnect, for every set of requests, keys, operations   *)
(* and servers, and every kind of fault.                                       *)
EXTENDS MobileConnect, TLAPS

-----------------------------------------------------------------------------
(***************************************************************************)
(* The inductive invariant                                                 *)
(***************************************************************************)

\* A request that provisions owns its operation until it has stored what came
\* of it; a request that views one only reads, until it stores a success.
Owning  == {"provision", "insert", "ensure", "publish", "fail", "store"}
Looking == {"view", "find", "found"}
Keyed   == {"lookup", "create", "again", "provision"}

\* The columns of a task that its state makes use of.
TaskType(c) ==
    /\ task[c].pc \in Keyed => task[c].key \in Keys /\ task[c].target \in Targets
    /\ task[c].pc \in {"insert", "ensure", "publish", "store"} => task[c].server \in Servers
    /\ task[c].pc \in Owning \cup Looking => task[c].operation \in Operations

\* The operation was resolved to the server, whose agent reported some command done.
Config(o, s) == s \in Servers /\ op[o].resolved = s /\ reported[s] # {}

\* The operation an owner works on is its own and undecided, the key of one that
\* is about to provision has not been provisioned, and a request that found a
\* config found it on the server its operation was resolved to.
TaskInv(c) ==
    /\ task[c].pc \in Owning \cup Looking => Exists(task[c].operation)
    /\ task[c].pc \in Owning =>
          /\ op[task[c].operation].resolved = None
          /\ op[task[c].operation].status # "failed"
          /\ "failed" \notin answered[task[c].operation]
          /\ \A d \in Requests :
                task[d].pc \in Owning /\ task[d].operation = task[c].operation => d = c
    /\ task[c].pc = "provision" =>
          /\ record[task[c].key] = task[c].operation
          /\ provisioned[task[c].key] = 0
          /\ op[task[c].operation].phase <= Expired
    /\ task[c].pc = "find" => task[c].server \in {None, op[task[c].operation].resolved}
    /\ task[c].pc = "found" => Config(task[c].operation, task[c].server)

\* What was answered agrees with whether the operation was resolved.
OperationInv(o) ==
    /\ op[o].status = "failed" \/ "failed" \in answered[o] => op[o].resolved = None
    /\ \A s \in Servers : s \in answered[o] => Config(o, s)

\* A key without a record has not been provisioned.
KeyInv(k) ==
    /\ provisioned[k] <= 1
    /\ record[k] = None => provisioned[k] = 0
    /\ record[k] # None => Exists(record[k])

\* What module Deployment promises.
DeploymentInv == \A s \in Servers : status[s] = "success" => reported[s] # {}

ConnectInv ==
    /\ TypeOK
    /\ \A c \in Requests : TaskType(c) /\ TaskInv(c)
    /\ \A o \in Operations : OperationInv(o)
    /\ \A k \in Keys : KeyInv(k)
    /\ DeploymentInv

-----------------------------------------------------------------------------
(***************************************************************************)
(* Deployments and tasks                                                   *)
(***************************************************************************)

\* A step may change deployments in any way that loses no report.
DeploymentKept ==
    /\ status' \in [Servers -> Statuses]
    /\ reported' \in [Servers -> SUBSET AllActions]
    /\ requested' \in [Servers -> SUBSET AskedActions]
    /\ \A s \in Servers : reported[s] \subseteq reported'[s]
    /\ DeploymentInv'

\* The steps of module Deployment are such.
LEMMA DeploymentSteps ==
    ASSUME ConnectInv,
           \/ UNCHANGED deploymentVars
           \/ \E S \in SUBSET Servers : Plan(S)
           \/ \E s \in Servers, a \in AskedActions : Ask(s, a)
           \/ \E s \in Servers, a \in AllActions : Report(s, a)
           \/ \E s \in Servers, st \in Settled : Settle(s, st)
    PROVE  DeploymentKept
<1>0. /\ status \in [Servers -> Statuses] /\ reported \in [Servers -> SUBSET AllActions]
      /\ requested \in [Servers -> SUBSET AskedActions]
      /\ \A s \in Servers : status[s] = "success" => reported[s] # {}
  BY DEF ConnectInv, TypeOK, DeploymentInv
<1>1. CASE UNCHANGED deploymentVars
  BY <1>0, <1>1 DEF deploymentVars, DeploymentKept, DeploymentInv
<1>2. ASSUME NEW S \in SUBSET Servers, Plan(S) PROVE DeploymentKept
  BY <1>0, <1>2 DEF Plan, DeploymentKept, DeploymentInv, Statuses
<1>3. ASSUME NEW s \in Servers, NEW a \in AskedActions, Ask(s, a) PROVE DeploymentKept
  BY <1>0, <1>3 DEF Ask, DeploymentKept, DeploymentInv, Statuses
<1>4. ASSUME NEW s \in Servers, NEW a \in AllActions, Report(s, a) PROVE DeploymentKept
  BY <1>0, <1>4 DEF Report, DeploymentKept, DeploymentInv
<1>5. ASSUME NEW s \in Servers, NEW st \in Settled, Settle(s, st) PROVE DeploymentKept
  <2>1. st = "success" => reported[s] # {} BY <1>5 DEF Settle, Supports
  <2>2. status' \in [Servers -> Statuses] BY <1>0, <1>5 DEF Settle, Statuses, Settled
  <2> QED BY <1>0, <1>5, <2>1, <2>2 DEF Settle, DeploymentKept, DeploymentInv
<1> QED BY <1>1, <1>2, <1>3, <1>4, <1>5

\* One goroutine moves; the tables of the connect operations do not change.
LEMMA Move ==
    ASSUME ConnectInv, NEW c \in Requests,
           task' \in [Requests -> Task],
           \A d \in Requests \ {c} : task'[d] = task[d],
           op' = op, record' = record, provisioned' = provisioned, answered' = answered,
           active' \in BOOLEAN, client' \in BOOLEAN, DeploymentKept,
           TaskType(c)',
           task'[c].pc \in Owning =>
               /\ task'[c].pc # "provision"
               /\ task[c].pc \in Owning /\ task'[c].operation = task[c].operation,
           task'[c].pc \in Looking => Exists(task'[c].operation),
           task'[c].pc = "find" => task'[c].server \in {None, op[task'[c].operation].resolved},
           task'[c].pc = "found" => Config(task[c].operation, task[c].server)'
    PROVE  ConnectInv'
<1>0. /\ TypeOK /\ \A d \in Requests : TaskType(d) /\ TaskInv(d)
      /\ \A o \in Operations : OperationInv(o)
      /\ \A k \in Keys : KeyInv(k)
  BY DEF ConnectInv
<1>1. TypeOK' BY <1>0 DEF TypeOK, DeploymentKept
<1>2. \A d \in Requests : TaskType(d)' BY <1>0 DEF TaskType
<1>3. \A o \in Operations : OperationInv(o)'
  <2> SUFFICES ASSUME NEW o \in Operations PROVE OperationInv(o)' OBVIOUS
  <2>1. OperationInv(o) BY <1>0
  <2> QED BY <2>1 DEF OperationInv, Config, DeploymentKept
<1>4. \A k \in Keys : KeyInv(k)' BY <1>0 DEF KeyInv, Exists
<1>5. \A d \in Requests : TaskInv(d)'
  <2> SUFFICES ASSUME NEW d \in Requests PROVE TaskInv(d)' OBVIOUS
  <2>0. \A e \in Requests : task'[e].pc \in Owning =>
            task[e].pc \in Owning /\ task'[e].operation = task[e].operation
    OBVIOUS
  <2>1. TaskInv(d) /\ TaskType(d) BY <1>0
  <2>2. task'[d].pc \in Owning \cup Looking => Exists(task'[d].operation)
    BY <2>0, <2>1 DEF TaskInv
  <2>3. task'[d].pc \in Owning =>
          /\ op[task'[d].operation].resolved = None
          /\ op[task'[d].operation].status # "failed"
          /\ "failed" \notin answered[task'[d].operation]
          /\ \A e \in Requests :
                task'[e].pc \in Owning /\ task'[e].operation = task'[d].operation => e = d
    BY <2>0, <2>1 DEF TaskInv
  <2>4. task'[d].pc = "provision" => d # c /\ task'[d] = task[d] BY DEF Owning
  <2>5. task'[d].pc = "found" => Config(task[d].operation, task[d].server)'
    <3>1. CASE d = c BY <3>1
    <3>2. CASE d # c /\ task[d].pc = "found"
      BY <2>1, <3>2 DEF TaskInv, Config, DeploymentKept
    <3> QED BY <3>1, <3>2
  <2>6. task'[d].pc = "find" => task'[d].server \in {None, op[task'[d].operation].resolved}
    BY <2>1 DEF TaskInv
  <2> QED BY <2>1, <2>2, <2>3, <2>4, <2>5, <2>6 DEF TaskInv, Config, Exists
<1> QED BY <1>1, <1>2, <1>3, <1>4, <1>5 DEF ConnectInv, DeploymentKept

\* A goroutine ends, or crashes.
LEMMA Ended ==
    ASSUME ConnectInv, NEW c \in Requests, task' = Done(c),
           op' = op, record' = record, provisioned' = provisioned, answered' = answered,
           active' \in BOOLEAN, client' \in BOOLEAN, DeploymentKept
    PROVE  ConnectInv'
<1>1. IdleTask \in Task BY DEF IdleTask, Task
<1>2. /\ task' \in [Requests -> Task] /\ task'[c] = IdleTask
      /\ \A d \in Requests \ {c} : task'[d] = task[d]
  BY <1>1 DEF ConnectInv, TypeOK, Done
<1> QED BY <1>2, Move DEF IdleTask, TaskType, Keyed, Owning, Looking

\* A request goes to view an operation that exists.
LEMMA Viewed ==
    ASSUME ConnectInv, NEW c \in Requests, NEW o \in Operations, Exists(o),
           task' = Viewing(c, o),
           op' = op, record' = record, provisioned' = provisioned, answered' = answered,
           active' \in BOOLEAN, client' \in BOOLEAN, DeploymentKept
    PROVE  ConnectInv'
<1> DEFINE t == [IdleTask EXCEPT !.pc = "view", !.operation = o]
<1>1. t \in Task /\ t.pc = "view" /\ t.operation = o BY DEF IdleTask, Task
<1>2. /\ task' \in [Requests -> Task] /\ task'[c] = t
      /\ \A d \in Requests \ {c} : task'[d] = task[d]
  BY <1>1 DEF ConnectInv, TypeOK, Viewing
<1>3. Exists(task'[c].operation) BY <1>1, <1>2 DEF Exists
<1>4. TaskType(c)' BY <1>1, <1>2 DEF TaskType, Keyed, Owning, Looking
<1>5. task'[c].pc = "view" BY <1>1, <1>2
<1> HIDE DEF t
<1> QED BY <1>2, <1>3, <1>4, <1>5, Move DEF Owning

\* A request goes on in another state, with what it holds.
LEMMA GoneOn ==
    ASSUME ConnectInv, NEW c \in Requests,
           NEW pc \in {"create", "again", "ensure", "publish", "store", "delete"},
           task' = Goto(c, pc),
           pc \in {"create", "again"} => task[c].pc \in Keyed,
           pc \in {"ensure", "publish", "store"} =>
               task[c].pc \in {"insert", "ensure", "publish"},
           op' = op, record' = record, provisioned' = provisioned, answered' = answered,
           active' \in BOOLEAN, client' \in BOOLEAN, DeploymentKept
    PROVE  ConnectInv'
<1>0. task \in [Requests -> Task] /\ TaskType(c) BY DEF ConnectInv, TypeOK
<1> DEFINE t == [task[c] EXCEPT !.pc = pc]
<1>1. /\ t \in Task /\ t.pc = pc /\ t.operation = task[c].operation
      /\ t.key = task[c].key /\ t.target = task[c].target /\ t.server = task[c].server
  BY <1>0 DEF Task
<1>2. /\ task' \in [Requests -> Task] /\ task'[c] = t
      /\ \A d \in Requests \ {c} : task'[d] = task[d]
  BY <1>0, <1>1 DEF Goto
<1> QED BY <1>0, <1>1, <1>2, Move DEF TaskType, Keyed, Owning, Looking

\* An owner gives up.
LEMMA Failed ==
    ASSUME ConnectInv, NEW c \in Requests, NEW s \in Servers \cup {None},
           task' = Failing(c, s), task[c].pc \in Owning,
           op' = op, record' = record, provisioned' = provisioned, answered' = answered,
           active' \in BOOLEAN, client' \in BOOLEAN, DeploymentKept
    PROVE  ConnectInv'
<1>0. task \in [Requests -> Task] /\ TaskType(c) BY DEF ConnectInv, TypeOK
<1> DEFINE t == [IdleTask EXCEPT !.pc = "fail", !.server = s, !.operation = task[c].operation]
<1>1. t \in Task /\ t.pc = "fail" /\ t.operation = task[c].operation
  BY <1>0 DEF IdleTask, Task
<1>2. /\ task' \in [Requests -> Task] /\ task'[c] = t
      /\ \A d \in Requests \ {c} : task'[d] = task[d]
  BY <1>0, <1>1 DEF Failing
<1> QED BY <1>0, <1>1, <1>2, Move DEF TaskType, Keyed, Owning, Looking

-----------------------------------------------------------------------------
(***************************************************************************)
(* Steps that leave the tables of connect operations alone                 *)
(***************************************************************************)

quiet == <<op, record, provisioned, answered>>

\* From the idempotency key to the operation.
LEMMA KeySteps ==
    ASSUME ConnectInv, NEW c \in Requests,
           \/ \E k \in Keys, t \in Targets : BeginConnect(c, k, t)
           \/ LookUpKey(c) \/ CreateFails(c) \/ LookUpAgain(c)
    PROVE  ConnectInv'
<1>0. /\ task \in [Requests -> Task] /\ TaskType(c) /\ \A k \in Keys : KeyInv(k)
      /\ record \in [Keys -> Operations \cup {None}] /\ active \in BOOLEAN /\ client \in BOOLEAN
  BY DEF ConnectInv, TypeOK
<1>1. /\ UNCHANGED quiet /\ active' \in BOOLEAN /\ client' \in BOOLEAN /\ DeploymentKept
  BY <1>0, DeploymentSteps DEF BeginConnect, LookUpKey, CreateFails, LookUpAgain, quiet
<1>q. op' = op /\ record' = record /\ provisioned' = provisioned /\ answered' = answered
  BY <1>1 DEF quiet
<1>2. ASSUME NEW k \in Keys, NEW t \in Targets, BeginConnect(c, k, t) PROVE ConnectInv'
  <2> DEFINE new == [IdleTask EXCEPT !.pc = "lookup", !.key = k, !.target = t]
  <2>1. new \in Task /\ new.pc = "lookup" /\ new.key = k /\ new.target = t
    BY DEF IdleTask, Task
  <2>2. /\ task' \in [Requests -> Task] /\ task'[c] = new
        /\ \A d \in Requests \ {c} : task'[d] = task[d]
    BY <1>0, <1>2, <2>1 DEF BeginConnect
  <2>3. TaskType(c)' /\ task'[c].pc = "lookup"
    BY <2>1, <2>2 DEF TaskType, Keyed, Owning, Looking
  <2> HIDE DEF new
  <2> QED BY <1>1, <1>q, <2>2, <2>3, Move DEF Owning, Looking
<1>3. ASSUME NEW k \in Keys, record[k] # None, task' \in Resume(c, k) PROVE ConnectInv'
  <2>1. record[k] \in Operations /\ Exists(record[k]) BY <1>0, <1>3 DEF KeyInv
  <2>2. CASE task' = Viewing(c, record[k]) BY <1>1, <1>q, <2>1, <2>2, Viewed
  <2>3. CASE task' = Done(c) BY <1>1, <1>q, <2>3, Ended
  <2> QED BY <1>3, <2>2, <2>3 DEF Resume
<1>4. CASE LookUpKey(c)
  <2>1. task[c].key \in Keys BY <1>0, <1>4 DEF LookUpKey, TaskType, Keyed
  <2>2. CASE record[task[c].key] = None
    <3>1. task' = Goto(c, "create") /\ task[c].pc \in Keyed
      BY <1>4, <2>2 DEF LookUpKey, Keyed
    <3> QED BY <1>1, <1>q, <3>1, GoneOn
  <2>3. CASE record[task[c].key] # None
    <3>1. task' \in Resume(c, task[c].key) BY <1>4, <2>3 DEF LookUpKey
    <3> QED BY <1>3, <2>1, <2>3, <3>1
  <2> QED BY <2>2, <2>3
<1>5. CASE CreateFails(c)
  <2>1. task' = Goto(c, "again") /\ task[c].pc \in Keyed BY <1>5 DEF CreateFails, Keyed
  <2> QED BY <1>1, <1>q, <2>1, GoneOn
<1>6. CASE LookUpAgain(c)
  <2>1. task[c].key \in Keys BY <1>0, <1>6 DEF LookUpAgain, TaskType, Keyed
  <2>2. CASE record[task[c].key] = None
    <3>1. task' = Done(c) BY <1>6, <2>2 DEF LookUpAgain
    <3> QED BY <1>1, <1>q, <3>1, Ended
  <2>3. CASE record[task[c].key] # None
    <3>1. task' \in Resume(c, task[c].key) BY <1>6, <2>3 DEF LookUpAgain
    <3> QED BY <1>3, <2>1, <2>3, <3>1
  <2> QED BY <2>2, <2>3
<1> QED BY <1>2, <1>4, <1>5, <1>6

\* RequestCreateVPN after its first statement.
LEMMA ProvisionSteps ==
    ASSUME ConnectInv, NEW c \in Requests,
           InsertClient(c) \/ EnsureNodes(c) \/ PublishCommand(c) \/ ProvisionFails(c)
    PROVE  ConnectInv'
<1>0. task \in [Requests -> Task] /\ TaskType(c) /\ active \in BOOLEAN /\ client \in BOOLEAN
  BY DEF ConnectInv, TypeOK
<1>q. op' = op /\ record' = record /\ provisioned' = provisioned /\ answered' = answered
  BY DEF InsertClient, EnsureNodes, PublishCommand, ProvisionFails
<1>1. task[c].pc \in {"provision", "insert", "ensure", "publish"}
  BY DEF InsertClient, EnsureNodes, PublishCommand, ProvisionFails
<1>2. active' \in BOOLEAN /\ client' \in BOOLEAN
  BY <1>0 DEF InsertClient, EnsureNodes, PublishCommand, ProvisionFails
<1>3. ASSUME DeploymentKept, NEW s \in Servers \cup {None}, task' = Failing(c, s)
      PROVE  ConnectInv'
  BY <1>1, <1>2, <1>q, <1>3, Failed DEF Owning
<1>4. CASE InsertClient(c)
  <2>1. DeploymentKept /\ task[c].pc = "insert" BY <1>4, DeploymentSteps DEF InsertClient
  <2>2. task' = Failing(c, None) \/ task' = Goto(c, "ensure") BY <1>4 DEF InsertClient
  <2>3. CASE task' = Goto(c, "ensure") BY <1>2, <1>q, <2>1, <2>3, GoneOn
  <2> QED BY <1>3, <2>1, <2>2, <2>3
<1>5. CASE EnsureNodes(c)
  <2>1. task[c].pc = "ensure" /\ task[c].server \in Servers
    BY <1>0, <1>5 DEF EnsureNodes, TaskType
  <2>2. CASE task' = Failing(c, None) /\ UNCHANGED deploymentVars
    BY <1>3, <2>2, DeploymentSteps
  <2>3. CASE /\ task' = Goto(c, "publish")
             /\ Plan(IF status[task[c].server] = "success" THEN {} ELSE {task[c].server})
    <3>1. DeploymentKept BY <2>1, <2>3, DeploymentSteps
    <3> QED BY <1>2, <1>q, <2>1, <2>3, <3>1, GoneOn
  <2> QED BY <1>5, <2>2, <2>3 DEF EnsureNodes
<1>6. CASE PublishCommand(c)
  <2>1. DeploymentKept /\ task[c].pc = "publish" /\ task[c].server \in Servers
    BY <1>0, <1>6, DeploymentSteps DEF PublishCommand, TaskType
  <2>2. CASE task' = Goto(c, "store") BY <1>2, <1>q, <2>1, <2>2, GoneOn
  <2> QED BY <1>3, <1>6, <2>1, <2>2 DEF PublishCommand
<1>7. CASE ProvisionFails(c)
  BY <1>3, <1>7, DeploymentSteps DEF ProvisionFails
<1> QED BY <1>4, <1>5, <1>6, <1>7

\* Polling, as far as nothing is answered, and the search for a config.
LEMMA ViewSteps ==
    ASSUME ConnectInv, NEW c \in Requests,
           \/ \E o \in Operations : BeginPoll(c, o)
           \/ FindConfig(c)
           \/ View(c) /\ answered' = answered
    PROVE  ConnectInv'
<1>0. /\ task \in [Requests -> Task] /\ TaskType(c) /\ TaskInv(c)
      /\ active \in BOOLEAN /\ client \in BOOLEAN /\ DeploymentInv
      /\ op \in [Operations -> Operation]
  BY DEF ConnectInv, TypeOK
<1>1. op' = op /\ record' = record /\ provisioned' = provisioned /\ answered' = answered
  BY DEF BeginPoll, FindConfig, View
<1>2. active' \in BOOLEAN /\ client' \in BOOLEAN /\ DeploymentKept
  BY <1>0, DeploymentSteps DEF BeginPoll, FindConfig, View
<1>3. CASE task' = Done(c) BY <1>1, <1>2, <1>3, Ended
<1>4. ASSUME NEW o \in Operations, BeginPoll(c, o) PROVE ConnectInv'
  BY <1>1, <1>2, <1>4, Viewed DEF BeginPoll
<1>5. CASE /\ task[c].pc = "view"
           /\ task' = [task EXCEPT ![c].pc = "find", ![c].server = op[task[c].operation].resolved]
  <2> DEFINE t == [task[c] EXCEPT !.pc = "find", !.server = op[task[c].operation].resolved]
  <2>1. task[c].operation \in Operations /\ Exists(task[c].operation)
    BY <1>0, <1>5 DEF TaskType, TaskInv, Looking
  <2>2. /\ t \in Task /\ t.pc = "find" /\ t.operation = task[c].operation
        /\ t.server = op[task[c].operation].resolved
    <3>1. op[task[c].operation].resolved \in Servers \cup {None} /\ task[c] \in Task
      BY <1>0, <2>1 DEF Operation
    <3> QED BY <3>1 DEF Task
  <2>3. /\ task' \in [Requests -> Task] /\ task'[c] = t
        /\ \A d \in Requests \ {c} : task'[d] = task[d]
    BY <1>0, <1>5, <2>2
  <2>4. TaskType(c)' BY <2>1, <2>2, <2>3 DEF TaskType, Keyed, Owning, Looking
  <2>5. /\ task'[c].pc = "find" /\ task'[c].operation = task[c].operation
        /\ task'[c].server = op[task[c].operation].resolved
    BY <2>2, <2>3
  <2>6. Exists(task'[c].operation) BY <2>1, <2>5 DEF Exists
  <2> HIDE DEF t
  <2> QED BY <1>1, <1>2, <2>3, <2>4, <2>5, <2>6, Move DEF Owning
<1>6. CASE /\ task[c].pc = "find" /\ Deployed(task[c].server)
           /\ task' = Goto(c, "found")
           /\ UNCHANGED deploymentVars
  <2> DEFINE t == [task[c] EXCEPT !.pc = "found"]
  <2>1. task[c].operation \in Operations /\ Exists(task[c].operation)
    BY <1>0, <1>6 DEF TaskType, TaskInv, Looking
  <2>2. /\ t \in Task /\ t.pc = "found"
        /\ t.operation = task[c].operation /\ t.server = task[c].server
    BY <1>0 DEF Task
  <2>3. /\ task' \in [Requests -> Task] /\ task'[c] = t
        /\ \A d \in Requests \ {c} : task'[d] = task[d]
    BY <1>0, <1>6, <2>2 DEF Goto
  <2>4. TaskType(c)' BY <2>1, <2>2, <2>3 DEF TaskType, Keyed, Owning, Looking
  <2>5. /\ task'[c].pc = "found" /\ task'[c].operation = task[c].operation
        /\ task'[c].server = task[c].server
    BY <2>2, <2>3
  <2>6. Exists(task'[c].operation) BY <2>1, <2>5 DEF Exists
  <2>7. /\ op[task[c].operation].resolved = task[c].server
        /\ task[c].server \in Servers /\ status[task[c].server] = "success"
    BY <1>0, <1>6, <2>1 DEF TaskInv, Deployed, Operation
  <2>8. Config(task[c].operation, task[c].server)'
    BY <1>0, <1>1, <1>6, <2>5, <2>7 DEF DeploymentInv, deploymentVars, Config
  <2> HIDE DEF t
  <2> QED BY <1>1, <1>2, <2>3, <2>4, <2>5, <2>6, <2>7, <2>8, Move DEF Owning
<1>7. CASE FindConfig(c) BY <1>3, <1>6, <1>7 DEF FindConfig
<1>8. CASE View(c) BY <1>3, <1>5, <1>8 DEF View
<1> QED BY <1>4, <1>7, <1>8

\* The revocation of the device, and failing reads.
LEMMA RevokeSteps ==
    ASSUME ConnectInv, NEW c \in Requests,
           \/ BeginRevoke(c) \/ RevokeDevice(c) \/ EndRevoke(c) \/ StatementFails(c)
           \/ \E s \in task[c].todo : DeleteConnection(c, s)
    PROVE  ConnectInv'
<1>0. /\ task \in [Requests -> Task] /\ TaskType(c) /\ task[c] \in Task
      /\ active \in BOOLEAN /\ client \in BOOLEAN
  BY DEF ConnectInv, TypeOK
<1>1. op' = op /\ record' = record /\ provisioned' = provisioned /\ answered' = answered
  BY DEF BeginRevoke, RevokeDevice, EndRevoke, StatementFails, DeleteConnection
<1>2. active' \in BOOLEAN /\ client' \in BOOLEAN
  BY <1>0 DEF BeginRevoke, RevokeDevice, EndRevoke, StatementFails, DeleteConnection
<1>3. ASSUME NEW t \in Task, t.pc \in {"revoke", "delete"}, DeploymentKept,
             task' = [task EXCEPT ![c] = t]
      PROVE  ConnectInv'
  <2>1. /\ task' \in [Requests -> Task] /\ task'[c] = t
        /\ \A d \in Requests \ {c} : task'[d] = task[d]
    BY <1>0, <1>3
  <2> QED BY <1>1, <1>2, <1>3, <2>1, Move DEF TaskType, Keyed, Owning, Looking
<1>4. CASE BeginRevoke(c)
  <2>1. PICK todo \in {{s \in Servers : status[s] \notin {"none", "deleted"}}} \cup {{}} :
            task' = [task EXCEPT ![c] = [IdleTask EXCEPT !.pc = "revoke", !.todo = todo]]
    BY <1>4 DEF BeginRevoke
  <2>2. /\ [IdleTask EXCEPT !.pc = "revoke", !.todo = todo] \in Task
        /\ [IdleTask EXCEPT !.pc = "revoke", !.todo = todo].pc = "revoke"
    BY DEF IdleTask, Task
  <2>3. DeploymentKept BY <1>4, DeploymentSteps DEF BeginRevoke
  <2> QED BY <1>3, <2>1, <2>2, <2>3
<1>5. CASE RevokeDevice(c)
  <2>1. task' = Goto(c, "delete") /\ DeploymentKept
    BY <1>5, DeploymentSteps DEF RevokeDevice
  <2> QED BY <1>1, <1>2, <2>1, GoneOn
<1>6. ASSUME NEW s \in task[c].todo, DeleteConnection(c, s) PROVE ConnectInv'
  <2>1. s \in Servers BY <1>0, <1>6 DEF Task
  <2>2. DeploymentKept
    <3>1. CASE Ask(s, "delete_client") BY <2>1, <3>1, DeploymentSteps DEF AskedActions
    <3>2. CASE UNCHANGED deploymentVars BY <3>2, DeploymentSteps
    <3> QED BY <1>6, <3>1, <3>2 DEF DeleteConnection
  <2>3. /\ [task[c] EXCEPT !.todo = @ \ {s}] \in Task
        /\ [task[c] EXCEPT !.todo = @ \ {s}].pc = "delete"
    BY <1>0, <1>6 DEF DeleteConnection, Task
  <2>4. task' = [task EXCEPT ![c] = [task[c] EXCEPT !.todo = @ \ {s}]]
    BY <1>0, <1>6 DEF DeleteConnection
  <2> QED BY <1>3, <2>2, <2>3, <2>4
<1>7. CASE EndRevoke(c) \/ StatementFails(c)
  <2>1. task' = Done(c) /\ DeploymentKept
    BY <1>7, DeploymentSteps DEF EndRevoke, StatementFails
  <2> QED BY <1>1, <1>2, <2>1, Ended
<1> QED BY <1>4, <1>5, <1>6, <1>7

-----------------------------------------------------------------------------
(***************************************************************************)
(* Steps that write operations, records and answers                        *)
(***************************************************************************)

\* The operation of an owner, which nobody else owns.
LEMMA OwnersOperation ==
    ASSUME ConnectInv, NEW c \in Requests, task[c].pc \in Owning
    PROVE  /\ task[c].operation \in Operations /\ Exists(task[c].operation)
           /\ op[task[c].operation].resolved = None
           /\ "failed" \notin answered[task[c].operation]
           /\ \A d \in Requests \ {c} :
                 task[d].pc \in Owning => task[d].operation # task[c].operation
BY DEF ConnectInv, TaskType, TaskInv, Owning

\* The transaction that stores a new operation with the record of its key.
LEMMA CreateStep ==
    ASSUME ConnectInv, NEW c \in Requests, NEW o \in Operations, CreateOperation(c, o)
    PROVE  ConnectInv'
<1> DEFINE k == task[c].key
<1>0. /\ TypeOK /\ \A d \in Requests : TaskType(d) /\ TaskInv(d)
      /\ \A p \in Operations : OperationInv(p)
      /\ \A j \in Keys : KeyInv(j)
      /\ DeploymentInv
  BY DEF ConnectInv
<1>1. /\ k \in Keys /\ task[c].target \in Targets /\ record[k] = None /\ provisioned[k] = 0
  BY <1>0 DEF CreateOperation, TaskType, Keyed, Taken, KeyInv
<1>2. /\ NewOperation(c) \in Operation /\ NewOperation(c).status = "pending"
      /\ NewOperation(c).resolved = None /\ NewOperation(c).phase = 0
  BY DEF NewOperation, NoOperation, Operation, Live, Deletable
<1>3. /\ op' \in [Operations -> Operation] /\ op'[o] = NewOperation(c)
      /\ \A p \in Operations \ {o} : op'[p] = op[p]
  BY <1>0, <1>2 DEF CreateOperation, TypeOK
<1>4. /\ record' \in [Keys -> Operations \cup {None}] /\ record'[k] = o
      /\ \A j \in Keys \ {k} : record'[j] = record[j]
  BY <1>0, <1>1 DEF CreateOperation, TypeOK
<1> DEFINE t == [task[c] EXCEPT !.pc = "provision", !.operation = o]
<1>5. t \in Task /\ t.pc = "provision" /\ t.operation = o /\ t.key = k /\ t.target = task[c].target
  BY <1>0 DEF TypeOK, Task
<1>6. /\ task' \in [Requests -> Task] /\ task'[c] = t
      /\ \A d \in Requests \ {c} : task'[d] = task[d]
  BY <1>0, <1>5 DEF CreateOperation, TypeOK
<1>7. /\ provisioned' = provisioned /\ answered' = answered /\ UNCHANGED deploymentVars
      /\ active' = active /\ client' = client
      /\ ~Exists(o) /\ answered[o] = {} /\ \A d \in Requests : task[d].operation # o
  BY DEF CreateOperation, Held
<1>8. TypeOK' BY <1>0, <1>3, <1>4, <1>6, <1>7 DEF TypeOK, deploymentVars
<1>9. \A p \in Operations : OperationInv(p)'
  BY <1>0, <1>2, <1>3, <1>7 DEF OperationInv, Config, deploymentVars
<1>10. \A j \in Keys : KeyInv(j)'
  <2> SUFFICES ASSUME NEW j \in Keys PROVE KeyInv(j)' OBVIOUS
  <2>1. CASE j = k BY <1>0, <1>1, <1>2, <1>3, <1>4, <1>7, <2>1 DEF KeyInv, Exists
  <2>2. CASE j # k
    <3>1. KeyInv(j) /\ record[j] \in Operations \cup {None} BY <1>0 DEF TypeOK
    <3>2. record[j] # o BY <1>7, <3>1, MobileConnectAssumption DEF KeyInv
    <3> QED BY <1>3, <1>4, <1>7, <2>2, <3>1, <3>2 DEF KeyInv, Exists
  <2> QED BY <2>1, <2>2
<1>11. \A d \in Requests : TaskType(d)' /\ TaskInv(d)'
  <2> SUFFICES ASSUME NEW d \in Requests PROVE TaskType(d)' /\ TaskInv(d)' OBVIOUS
  <2>1. CASE d = c
    <3>1. /\ task'[c].pc = "provision" /\ task'[c].operation = o /\ task'[c].key = k
          /\ task'[c].target = task[c].target
      BY <1>5, <1>6
    <3> HIDE DEF t
    <3>2. TaskType(c)' BY <1>1, <3>1 DEF TaskType, Looking
    <3>3. TaskInv(c)'
      BY <1>1, <1>2, <1>3, <1>4, <1>6, <1>7, <3>1 DEF TaskInv, Exists, Expired, Looking
    <3> QED BY <2>1, <3>2, <3>3
  <2>2. CASE d # c
    <3>1. task'[d] = task[d] /\ task[d].operation # o /\ TaskType(d) /\ TaskInv(d)
      BY <1>0, <1>6, <1>7, <2>2
    <3>2. task'[c].operation = o BY <1>5, <1>6
    <3> HIDE DEF t
    <3>3. TaskType(d)' BY <3>1 DEF TaskType
    <3>4. task[d].pc \in Owning \cup Looking =>
              op'[task[d].operation] = op[task[d].operation]
      BY <1>3, <3>1 DEF TaskType
    <3>5. task[d].pc = "provision" => record'[task[d].key] = record[task[d].key]
      <4>1. task[d].pc = "provision" =>
                task[d].operation \in Operations /\ record[task[d].key] = task[d].operation
                /\ task[d].key \in Keys
        BY <3>1 DEF TaskType, TaskInv, Owning, Keyed
      <4> QED BY <1>1, <1>4, <4>1, MobileConnectAssumption
    <3>6. \A e \in Requests : task'[e].pc \in Owning /\ task'[e].operation = task[d].operation
              => e # c /\ task[e].pc \in Owning /\ task[e].operation = task[d].operation
      BY <1>6, <3>1, <3>2
    <3>7. TaskInv(d)'
      BY <1>7, <3>1, <3>4, <3>5, <3>6 DEF TaskInv, Config, Exists, deploymentVars, Owning, Looking
    <3> QED BY <3>3, <3>7
  <2> QED BY <2>1, <2>2
<1>12. DeploymentInv' BY <1>0, <1>7 DEF DeploymentInv, deploymentVars
<1> QED BY <1>8, <1>9, <1>10, <1>11, <1>12 DEF ConnectInv

\* The call of RequestCreateVPN begins, and is counted.
LEMMA ProvisionStep ==
    ASSUME ConnectInv, NEW c \in Requests, Provision(c)
    PROVE  ConnectInv'
<1> DEFINE k == task[c].key
           o == task[c].operation
<1>0. /\ TypeOK /\ \A d \in Requests : TaskType(d) /\ TaskInv(d)
      /\ \A p \in Operations : OperationInv(p)
      /\ \A j \in Keys : KeyInv(j)
      /\ DeploymentInv
  BY DEF ConnectInv
<1>1. /\ k \in Keys /\ task[c].target \in Targets /\ o \in Operations /\ Exists(o)
      /\ record[k] = o /\ provisioned[k] = 0 /\ task[c].pc = "provision"
  BY <1>0 DEF Provision, TaskType, TaskInv, Keyed, Owning
<1>2. /\ provisioned' \in [Keys -> 0..2] /\ provisioned'[k] = 1
      /\ \A j \in Keys \ {k} : provisioned'[j] = provisioned[j]
  BY <1>0, <1>1 DEF Provision, Counted, TypeOK
<1>3. PICK t \in Task : /\ task' = [task EXCEPT ![c] = t]
                        /\ t.pc \in {"ensure", "insert", "fail"} /\ t.operation = o
                        /\ t.pc \in {"ensure", "insert"} => t.server \in Servers
  <2>1. PICK s \in ResolvedServers(task[c].target) :
          \/ /\ s # None
             /\ task' = [task EXCEPT ![c] = [IdleTask EXCEPT
                           !.pc = IF client THEN "ensure" ELSE "insert",
                           !.operation = task[c].operation, !.server = s]]
          \/ task' = Failing(c, None)
    BY DEF Provision
  <2>2. s \in Servers \cup {None}
    BY <1>1, MobileConnectAssumption DEF ResolvedServers, AutoServers
  <2>3. CASE /\ s # None
             /\ task' = [task EXCEPT ![c] = [IdleTask EXCEPT
                           !.pc = IF client THEN "ensure" ELSE "insert",
                           !.operation = task[c].operation, !.server = s]]
    <3> DEFINE t == [IdleTask EXCEPT !.pc = IF client THEN "ensure" ELSE "insert",
                           !.operation = task[c].operation, !.server = s]
    <3>1. /\ t \in Task /\ t.pc \in {"ensure", "insert"} /\ t.operation = o /\ t.server = s
      BY <1>1, <2>2 DEF IdleTask, Task
    <3> QED BY <2>2, <2>3, <3>1
  <2>4. CASE task' = Failing(c, None)
    <3> DEFINE t == [IdleTask EXCEPT !.pc = "fail", !.server = None,
                                     !.operation = task[c].operation]
    <3>1. /\ t \in Task /\ t.pc = "fail" /\ t.operation = o
      BY <1>1 DEF IdleTask, Task
    <3> QED BY <2>4, <3>1 DEF Failing
  <2> QED BY <2>1, <2>3, <2>4
<1>4. /\ task' \in [Requests -> Task] /\ task'[c] = t
      /\ \A d \in Requests \ {c} : task'[d] = task[d]
  BY <1>0, <1>3 DEF TypeOK
<1>5. /\ op' = op /\ record' = record /\ answered' = answered /\ UNCHANGED deploymentVars
      /\ active' = active /\ client' = client
  BY DEF Provision
<1>6. TypeOK' BY <1>0, <1>2, <1>4, <1>5 DEF TypeOK, deploymentVars
<1>7. \A p \in Operations : OperationInv(p)'
  BY <1>0, <1>5 DEF OperationInv, Config, deploymentVars
<1>8. \A j \in Keys : KeyInv(j)'
  <2> SUFFICES ASSUME NEW j \in Keys PROVE KeyInv(j)' OBVIOUS
  <2>1. KeyInv(j) BY <1>0
  <2>2. k = j => record[j] # None BY <1>1, MobileConnectAssumption
  <2> QED BY <1>2, <1>5, <2>1, <2>2 DEF KeyInv, Exists
<1>9. \A d \in Requests : TaskType(d)' /\ TaskInv(d)'
  <2> SUFFICES ASSUME NEW d \in Requests PROVE TaskType(d)' /\ TaskInv(d)' OBVIOUS
  <2>1. TaskType(d) /\ TaskInv(d) BY <1>0
  <2>2. TaskType(d)' BY <1>1, <1>3, <1>4, <2>1 DEF TaskType, Keyed, Owning, Looking
  <2>3. \A e \in Requests : task'[e].pc \in Owning =>
            task[e].pc \in Owning /\ task'[e].operation = task[e].operation
    BY <1>1, <1>3, <1>4 DEF Owning
  <2>4. task'[d].pc = "provision" => provisioned'[task'[d].key] = 0
    <3>1. task'[d].pc = "provision" => d # c /\ task'[d] = task[d] BY <1>3, <1>4
    <3>2. CASE d # c /\ task[d].pc = "provision"
      <4>1. /\ task[d].key \in Keys /\ provisioned[task[d].key] = 0
            /\ record[task[d].key] = task[d].operation
        BY <2>1, <3>2 DEF TaskType, TaskInv, Keyed
      <4>2. task[d].operation # o
        BY <1>1, <3>2, OwnersOperation DEF Owning
      <4> QED BY <1>1, <1>2, <3>1, <4>1, <4>2
    <3> QED BY <3>1, <3>2
  <2>5. TaskInv(d)'
    <3>1. CASE d = c
      <4>1. TaskInv(c) BY <1>0
      <4> QED BY <1>1, <1>3, <1>4, <1>5, <2>3, <3>1, <4>1
           DEF TaskInv, Exists, Owning, Looking, deploymentVars
    <3>2. CASE d # c
      <4>1. task'[d] = task[d] BY <1>4, <3>2
      <4> QED BY <1>5, <2>1, <2>3, <2>4, <4>1 DEF TaskInv, Config, Exists, deploymentVars
    <3> QED BY <3>1, <3>2
  <2> QED BY <2>2, <2>5
<1>10. DeploymentInv' BY <1>0, <1>5 DEF DeploymentInv, deploymentVars
<1> QED BY <1>6, <1>7, <1>8, <1>9, <1>10 DEF ConnectInv

\* A goroutine stores what came of an operation that nobody else owns, or answers.
LEMMA OutcomeStep ==
    ASSUME ConnectInv, NEW c \in Requests, NEW o \in Operations, Exists(o),
           \A d \in Requests \ {c} : task[d].pc \in Owning => task[d].operation # o,
           task' = Done(c) \/ task' = Viewing(c, o),
           op' \in [Operations -> Operation], op'[o].status # "none",
           op'[o].phase = op[o].phase,
           op'[o].resolved = op[o].resolved \/ op[o].resolved = None,
           \A p \in Operations \ {o} : op'[p] = op[p],
           answered' \in [Operations -> SUBSET Answers],
           \A p \in Operations \ {o} : answered'[p] = answered[p],
           OperationInv(o)',
           UNCHANGED <<deploymentVars, active, client, record, provisioned>>
    PROVE  ConnectInv'
<1>0. /\ TypeOK /\ \A d \in Requests : TaskType(d) /\ TaskInv(d)
      /\ \A p \in Operations : OperationInv(p)
      /\ \A j \in Keys : KeyInv(j)
      /\ DeploymentInv
  BY DEF ConnectInv
<1>1. PICK t \in Task : /\ task' = [task EXCEPT ![c] = t]
                        /\ t.pc \in {"idle", "view"} /\ (t.pc = "view" => t.operation = o)
  <2>1. IdleTask \in Task /\ IdleTask.pc = "idle" BY DEF IdleTask, Task
  <2>2. /\ [IdleTask EXCEPT !.pc = "view", !.operation = o] \in Task
        /\ [IdleTask EXCEPT !.pc = "view", !.operation = o].pc = "view"
        /\ [IdleTask EXCEPT !.pc = "view", !.operation = o].operation = o
    BY DEF IdleTask, Task
  <2> QED BY <2>1, <2>2 DEF Done, Viewing
<1>2. /\ task' \in [Requests -> Task] /\ task'[c] = t
      /\ \A d \in Requests \ {c} : task'[d] = task[d]
  BY <1>0, <1>1 DEF TypeOK
<1>3. TypeOK' BY <1>0, <1>2 DEF TypeOK, deploymentVars
<1>4. \A p \in Operations : OperationInv(p)'
  <2> SUFFICES ASSUME NEW p \in Operations, p # o PROVE OperationInv(p)' OBVIOUS
  <2> QED BY <1>0 DEF OperationInv, Config, deploymentVars
<1>5. \A j \in Keys : KeyInv(j)'
  <2> SUFFICES ASSUME NEW j \in Keys PROVE KeyInv(j)' OBVIOUS
  <2>1. KeyInv(j) /\ record[j] \in Operations \cup {None} BY <1>0 DEF TypeOK
  <2> QED BY <2>1 DEF KeyInv, Exists
<1>6. \A d \in Requests : TaskType(d)' /\ TaskInv(d)'
  <2> SUFFICES ASSUME NEW d \in Requests PROVE TaskType(d)' /\ TaskInv(d)' OBVIOUS
  <2>1. CASE d = c
    <3>1. task'[c].pc \in {"idle", "view"} /\ (task'[c].pc = "view" => task'[c].operation = o)
      BY <1>1, <1>2
    <3> QED BY <2>1, <3>1 DEF TaskType, TaskInv, Exists, Keyed, Owning, Looking
  <2>2. CASE d # c
    <3>1. task'[d] = task[d] /\ TaskType(d) /\ TaskInv(d) BY <1>0, <1>2, <2>2
    <3>2. TaskType(d)' BY <3>1 DEF TaskType
    <3>3. \A e \in Requests : task'[e].pc \in Owning =>
              task[e].pc \in Owning /\ task'[e].operation = task[e].operation
      BY <1>1, <1>2 DEF Owning
    <3>4. CASE task[d].operation = o
      <4>1. task[d].pc \notin Owning BY <2>2, <3>4
      <4> QED
        BY <3>1, <3>2, <3>4, <4>1, MobileConnectAssumption
        DEF TaskInv, Config, Exists, Owning, Looking, deploymentVars
    <3>5. CASE task[d].operation # o
      <4>1. task[d].pc \in Owning \cup Looking =>
              /\ op'[task[d].operation] = op[task[d].operation]
              /\ answered'[task[d].operation] = answered[task[d].operation]
        BY <3>1, <3>5 DEF TaskType
      <4> QED BY <3>1, <3>2, <3>3, <4>1 DEF TaskInv, Config, Exists, Owning, Looking, deploymentVars
    <3> QED BY <3>2, <3>4, <3>5
  <2> QED BY <2>1, <2>2
<1>7. DeploymentInv' BY <1>0 DEF DeploymentInv, deploymentVars
<1> QED BY <1>3, <1>4, <1>5, <1>6, <1>7 DEF ConnectInv

\* The steps that do so.
LEMMA AnswerSteps ==
    ASSUME ConnectInv, NEW c \in Requests, NEW o, task[c].operation = o,
           StoreFailure(c) \/ StoreProcessing(c) \/ StoreSuccess(c) \/ View(c)
    PROVE  ConnectInv'
<1>0. /\ op \in [Operations -> Operation] /\ answered \in [Operations -> SUBSET Answers]
      /\ task[c] \in Task /\ TaskType(c) /\ TaskInv(c)
  BY DEF ConnectInv, TypeOK
<1>1. o \in Operations /\ Exists(o) /\ OperationInv(o)
  <2>1. task[c].pc \in Owning \cup Looking
    BY DEF StoreFailure, StoreProcessing, StoreSuccess, View, Owning, Looking
  <2> QED BY <1>0, <2>1 DEF TaskType, TaskInv, ConnectInv
<1>2. ASSUME NEW st \in {"processing", "success", "failed"}, NEW s \in Servers \cup {None}
      PROVE  /\ Updated(o, st, s) \in [Operations -> Operation]
             /\ Updated(o, st, s)[o].status = st /\ Updated(o, st, s)[o].resolved = s
             /\ Updated(o, st, s)[o].phase = op[o].phase
             /\ \A p \in Operations \ {o} : Updated(o, st, s)[p] = op[p]
  BY <1>0, <1>1 DEF Updated, Operation
<1>3. ASSUME NEW a \in Answers, Answer(o, a)
      PROVE  /\ answered' \in [Operations -> SUBSET Answers]
             /\ answered'[o] = answered[o] \cup {a}
             /\ \A p \in Operations \ {o} : answered'[p] = answered[p]
  BY <1>0, <1>1, <1>3 DEF Answer
<1>4. op[o].resolved \in Servers \cup {None} /\ op[o].status # "none"
  BY <1>0, <1>1 DEF Operation, Exists
<1>5. ASSUME op[o].status = "failed" \/ op[o].resolved # None,
             NEW d \in Requests, task[d].pc \in Owning
      PROVE  task[d].operation # o
  BY <1>5 DEF ConnectInv, TaskInv
<1>6. CASE StoreFailure(c)
  <2>1. /\ task[c].pc \in Owning /\ task' = Done(c) /\ Answer(o, "failed")
        /\ op' = Updated(o, "failed", op[o].resolved) \/ op' = op
        /\ UNCHANGED <<deploymentVars, active, client, record, provisioned>>
    BY <1>6 DEF StoreFailure, Owning
  <2>2. /\ op' \in [Operations -> Operation] /\ op'[o].status # "none"
        /\ op'[o].phase = op[o].phase /\ op'[o].resolved = op[o].resolved
        /\ \A p \in Operations \ {o} : op'[p] = op[p]
    BY <1>0, <1>2, <1>4, <2>1
  <2>3. /\ op[o].resolved = None
        /\ \A d \in Requests \ {c} : task[d].pc \in Owning => task[d].operation # o
    BY <2>1, OwnersOperation
  <2>4. /\ answered' \in [Operations -> SUBSET Answers]
        /\ answered'[o] = answered[o] \cup {"failed"}
        /\ \A p \in Operations \ {o} : answered'[p] = answered[p]
    BY <1>3, <2>1 DEF Answers
  <2>5. OperationInv(o)'
    <3>1. \A s \in Servers : s \notin answered'[o]
      BY <1>1, <2>3, <2>4, MobileConnectAssumption DEF OperationInv, Config
    <3>2. op'[o].resolved = None BY <2>2, <2>3
    <3> QED BY <1>6, <3>1, <3>2, <2>1 DEF OperationInv
  <2> QED BY <1>1, <2>1, <2>2, <2>3, <2>4, <2>5, OutcomeStep
<1>7. CASE StoreProcessing(c)
  <2>1. /\ task[c].pc \in Owning /\ task' = Viewing(c, o) /\ answered' = answered
        /\ op' = Updated(o, "processing", task[c].server) \/ op' = op
        /\ UNCHANGED <<deploymentVars, active, client, record, provisioned>>
        /\ task[c].server \in Servers
    BY <1>0, <1>7 DEF StoreProcessing, Owning, TaskType
  <2>2. /\ op[o].resolved = None /\ "failed" \notin answered[o]
        /\ \A d \in Requests \ {c} : task[d].pc \in Owning => task[d].operation # o
    BY <2>1, OwnersOperation
  <2>3. /\ op' \in [Operations -> Operation] /\ op'[o].status # "none"
        /\ op'[o].phase = op[o].phase
        /\ op'[o].status = "failed" => op' = op
        /\ \A p \in Operations \ {o} : op'[p] = op[p]
    BY <1>0, <1>2, <1>4, <2>1
  <2>4. \A s \in Servers : s \notin answered[o]
    BY <1>1, <2>2, MobileConnectAssumption DEF OperationInv, Config
  <2>5. OperationInv(o)' BY <2>1, <2>2, <2>3, <2>4 DEF OperationInv
  <2> QED BY <1>0, <1>1, <2>1, <2>2, <2>3, <2>5, OutcomeStep
<1>8. CASE StoreSuccess(c)
  <2>1. /\ task[c].pc = "found" /\ task' = Done(c) /\ Answer(o, task[c].server)
        /\ op' = Updated(o, "success", op[o].resolved) \/ op' = op
        /\ UNCHANGED <<deploymentVars, active, client, record, provisioned>>
    BY <1>8 DEF StoreSuccess
  <2>2. /\ op' \in [Operations -> Operation] /\ op'[o].status # "none"
        /\ op'[o].phase = op[o].phase /\ op'[o].resolved = op[o].resolved
        /\ op'[o].status = "failed" => op' = op
        /\ \A p \in Operations \ {o} : op'[p] = op[p]
    BY <1>0, <1>2, <1>4, <2>1
  <2>3. Config(o, task[c].server) /\ op[o].resolved # None
    BY <1>0, <2>1, MobileConnectAssumption DEF TaskInv, Config
  <2>4. /\ answered' \in [Operations -> SUBSET Answers]
        /\ answered'[o] = answered[o] \cup {task[c].server}
        /\ \A p \in Operations \ {o} : answered'[p] = answered[p]
    BY <1>3, <2>1, <2>3 DEF Answers, Config
  <2>5. OperationInv(o)'
    <3>1. "failed" \notin answered'[o]
      BY <1>1, <2>3, <2>4, MobileConnectAssumption DEF OperationInv, Config
    <3>2. op'[o].status # "failed" BY <1>1, <2>2, <2>3 DEF OperationInv
    <3>3. reported' = reported BY <2>1 DEF deploymentVars
    <3>4. \A s \in Servers : s \in answered'[o] => Config(o, s)
      BY <1>1, <2>3, <2>4 DEF OperationInv
    <3>5. \A s \in Servers : s \in answered'[o] => Config(o, s)'
      BY <2>2, <3>3, <3>4 DEF Config
    <3> QED BY <3>1, <3>2, <3>5 DEF OperationInv
  <2> QED BY <1>1, <1>5, <2>1, <2>2, <2>3, <2>4, <2>5, OutcomeStep
<1>9. CASE View(c)
  <2>1. CASE answered' = answered BY <1>9, <2>1, ViewSteps
  <2>2. CASE op[o].status = "failed" /\ task' = Done(c) /\ Answer(o, "failed")
    <3>1. op' = op /\ UNCHANGED <<deploymentVars, active, client, record, provisioned>>
      BY <1>9 DEF View
    <3>2. /\ answered' \in [Operations -> SUBSET Answers]
          /\ answered'[o] = answered[o] \cup {"failed"}
          /\ \A p \in Operations \ {o} : answered'[p] = answered[p]
      BY <1>3, <2>2 DEF Answers
    <3>3. op[o].resolved = None /\ \A s \in Servers : s \notin answered'[o]
      BY <1>1, <2>2, <3>2, MobileConnectAssumption DEF OperationInv, Config
    <3>4. OperationInv(o)' BY <3>1, <3>3 DEF OperationInv
    <3> QED BY <1>0, <1>1, <1>4, <1>5, <2>2, <3>1, <3>2, <3>4, OutcomeStep
  <2> QED BY <1>9, <2>1, <2>2 DEF View
<1> QED BY <1>6, <1>7, <1>8, <1>9

-----------------------------------------------------------------------------
(***************************************************************************)
(* Time, clean-up, crashes, and the rest of the panel                      *)
(***************************************************************************)

\* An operation gets older; while it is held only its half-hour may end.
LEMMA AgeStep ==
    ASSUME ConnectInv, NEW o \in Operations, Age(o)
    PROVE  ConnectInv'
<1>0. /\ TypeOK /\ \A d \in Requests : TaskType(d) /\ TaskInv(d)
      /\ \A p \in Operations : OperationInv(p)
      /\ \A j \in Keys : KeyInv(j)
      /\ DeploymentInv
  BY DEF ConnectInv
<1>1. /\ op' \in [Operations -> Operation]
      /\ \A p \in Operations : /\ op'[p].status = op[p].status
                               /\ op'[p].resolved = op[p].resolved
      /\ op'[o].phase = op[o].phase + 1
      /\ \A p \in Operations \ {o} : op'[p] = op[p]
  BY <1>0 DEF Age, TypeOK, Operation, Live, Deletable
<1>2. /\ task' = task /\ record' = record /\ provisioned' = provisioned /\ answered' = answered
      /\ UNCHANGED deploymentVars /\ active' = active /\ client' = client
      /\ op[o].phase = Live \/ \A d \in Requests : task[d].operation # o
  BY DEF Age, Held
<1>3. TypeOK' BY <1>0, <1>1, <1>2 DEF TypeOK, deploymentVars
<1>4. \A p \in Operations : OperationInv(p)'
  BY <1>0, <1>1, <1>2 DEF OperationInv, Config, deploymentVars
<1>5. \A j \in Keys : KeyInv(j)'
  BY <1>0, <1>1, <1>2 DEF KeyInv, Exists, TypeOK
<1>6. \A d \in Requests : TaskType(d)' /\ TaskInv(d)'
  <2> SUFFICES ASSUME NEW d \in Requests PROVE TaskType(d)' /\ TaskInv(d)' OBVIOUS
  <2>1. TaskType(d) /\ TaskInv(d) BY <1>0
  <2>2. TaskType(d)' BY <1>2, <2>1 DEF TaskType
  <2>3. task[d].pc \in Owning \cup Looking =>
            /\ op'[task[d].operation].status = op[task[d].operation].status
            /\ op'[task[d].operation].resolved = op[task[d].operation].resolved
    BY <1>1, <2>1 DEF TaskType
  <2>4. task[d].pc = "provision" => op'[task[d].operation].phase <= Expired
    BY <1>1, <1>2, <2>1 DEF TaskType, TaskInv, Owning, Live, Expired
  <2> QED BY <1>2, <2>1, <2>2, <2>3, <2>4
         DEF TaskInv, Config, Exists, Owning, Looking, deploymentVars
<1>7. DeploymentInv' BY <1>0, <1>2 DEF DeploymentInv, deploymentVars
<1> QED BY <1>3, <1>4, <1>5, <1>6, <1>7 DEF ConnectInv

\* Cleanup deletes nothing that a request holds, and records before operations.
LEMMA CleanupStep ==
    ASSUME ConnectInv, Cleanup
    PROVE  ConnectInv'
<1>0. /\ TypeOK /\ \A d \in Requests : TaskType(d) /\ TaskInv(d)
      /\ \A p \in Operations : OperationInv(p)
      /\ \A j \in Keys : KeyInv(j)
      /\ DeploymentInv
  BY DEF ConnectInv
<1>1. /\ task' = task /\ UNCHANGED deploymentVars /\ active' = active /\ client' = client
  BY DEF Cleanup
<1>2. \A p \in Operations :
        /\ p \in DeletedOperations => op'[p] = NoOperation /\ answered'[p] = {}
        /\ p \notin DeletedOperations => op'[p] = op[p] /\ answered'[p] = answered[p]
  BY DEF Cleanup
<1>3. \A k \in Keys :
        /\ k \in DeletedRecords => record'[k] = None /\ provisioned'[k] = 0
        /\ k \notin DeletedRecords =>
              record'[k] = record[k] /\ provisioned'[k] = provisioned[k]
  BY DEF Cleanup
<1>4. /\ NoOperation \in Operation /\ NoOperation.status = "none" /\ NoOperation.resolved = None
  BY DEF NoOperation, Operation, Live, Deletable
<1>5. TypeOK'
  <2>1. op' \in [Operations -> Operation] BY <1>0, <1>4 DEF Cleanup, TypeOK
  <2>2. record' \in [Keys -> Operations \cup {None}] /\ provisioned' \in [Keys -> 0..2]
        /\ answered' \in [Operations -> SUBSET Answers]
    BY <1>0 DEF Cleanup, TypeOK
  <2> QED BY <1>0, <1>1, <2>1, <2>2 DEF TypeOK, deploymentVars
<1>6. \A p \in Operations : OperationInv(p)'
  BY <1>0, <1>1, <1>2, <1>4 DEF OperationInv, Config, deploymentVars
<1>7. \A k \in Keys : KeyInv(k)'
  <2> SUFFICES ASSUME NEW k \in Keys PROVE KeyInv(k)' OBVIOUS
  <2>1. CASE k \in DeletedRecords BY <1>3, <2>1 DEF KeyInv
  <2>2. CASE k \notin DeletedRecords
    <3>1. KeyInv(k) /\ record[k] \in Operations \cup {None} BY <1>0 DEF TypeOK
    <3>2. record[k] # None => record[k] \notin DeletedOperations
      BY <2>2 DEF DeletedRecords, DeletedOperations, OperationOf, RecordExpired, Deletable
    <3> QED BY <1>2, <1>3, <2>2, <3>1, <3>2 DEF KeyInv, Exists
  <2> QED BY <2>1, <2>2
<1>8. \A d \in Requests : TaskType(d)' /\ TaskInv(d)'
  <2> SUFFICES ASSUME NEW d \in Requests PROVE TaskType(d)' /\ TaskInv(d)' OBVIOUS
  <2>1. TaskType(d) /\ TaskInv(d) BY <1>0
  <2>2. TaskType(d)' BY <1>1, <2>1 DEF TaskType
  <2>3. task[d].pc \in Owning \cup Looking =>
            /\ op'[task[d].operation] = op[task[d].operation]
            /\ answered'[task[d].operation] = answered[task[d].operation]
    BY <1>2, <2>1 DEF TaskType, DeletedOperations, Held
  <2>4. task[d].pc = "provision" =>
            /\ record'[task[d].key] = record[task[d].key]
            /\ provisioned'[task[d].key] = provisioned[task[d].key]
    <3>1. SUFFICES ASSUME task[d].pc = "provision" PROVE task[d].key \notin DeletedRecords
      BY <1>3, <2>1 DEF TaskType, Keyed
    <3>2. /\ task[d].operation \in Operations /\ record[task[d].key] = task[d].operation
          /\ op[task[d].operation].phase <= Expired
      BY <2>1, <3>1 DEF TaskType, TaskInv, Owning
    <3>3. op[task[d].operation].phase \in 0..3
      BY <1>0, <3>2 DEF TypeOK, Operation, Live, Deletable
    <3> QED BY <3>2, <3>3 DEF DeletedRecords, OperationOf, Expired, RecordExpired
  <2> QED BY <1>1, <2>1, <2>2, <2>3, <2>4
         DEF TaskInv, Config, Exists, Owning, Looking, deploymentVars
<1>9. DeploymentInv' BY <1>0, <1>1 DEF DeploymentInv, deploymentVars
<1> QED BY <1>5, <1>6, <1>7, <1>8, <1>9 DEF ConnectInv

\* A crash ends all goroutines; deployments and the device change on their own.
LEMMA OtherSteps ==
    ASSUME ConnectInv, Crash \/ Login \/ Deploy
    PROVE  ConnectInv'
<1>0. /\ TypeOK /\ \A d \in Requests : TaskType(d) /\ TaskInv(d)
      /\ \A p \in Operations : OperationInv(p)
      /\ \A j \in Keys : KeyInv(j)
  BY DEF ConnectInv
<1>1. DeploymentKept
  <2>1. CASE Crash \/ Login BY <2>1, DeploymentSteps DEF Crash, Login
  <2>2. CASE Deploy
    <3>1. ASSUME NEW s \in Servers, Plan({s}) PROVE DeploymentKept
      BY <3>1, DeploymentSteps
    <3> QED BY <2>2, <3>1, DeploymentSteps DEF Deploy
  <2> QED BY <2>1, <2>2
<1>2. /\ op' = op /\ record' = record /\ provisioned' = provisioned /\ answered' = answered
      /\ active' \in BOOLEAN /\ client' \in BOOLEAN
      /\ task' = task \/ task' = [c \in Requests |-> IdleTask]
  BY <1>0 DEF Crash, Login, Deploy, TypeOK
<1>3. IdleTask \in Task /\ IdleTask.pc = "idle" BY DEF IdleTask, Task
<1>4. TypeOK' BY <1>0, <1>1, <1>2, <1>3 DEF TypeOK, DeploymentKept
<1>5. \A o \in Operations : OperationInv(o)'
  <2> SUFFICES ASSUME NEW o \in Operations PROVE OperationInv(o)' OBVIOUS
  <2> QED BY <1>0, <1>1, <1>2 DEF OperationInv, Config, DeploymentKept
<1>6. \A k \in Keys : KeyInv(k)' BY <1>0, <1>2 DEF KeyInv, Exists
<1>7. \A d \in Requests : TaskType(d)' /\ TaskInv(d)'
  <2> SUFFICES ASSUME NEW d \in Requests PROVE TaskType(d)' /\ TaskInv(d)' OBVIOUS
  <2>1. CASE task' = [c \in Requests |-> IdleTask]
    <3>1. task'[d].pc = "idle" BY <1>3, <2>1
    <3> QED BY <3>1 DEF TaskType, TaskInv, Keyed, Owning, Looking
  <2>2. CASE task' = task
    <3>1. TaskType(d) /\ TaskInv(d) BY <1>0
    <3> QED BY <1>1, <1>2, <2>2, <3>1 DEF TaskType, TaskInv, Config, Exists, DeploymentKept
  <2> QED BY <1>2, <2>1, <2>2
<1> QED BY <1>1, <1>4, <1>5, <1>6, <1>7 DEF ConnectInv, DeploymentKept

-----------------------------------------------------------------------------
(***************************************************************************)
(* The theorems                                                            *)
(***************************************************************************)

\* The initial state satisfies the invariant.
LEMMA ConnectInit == Init => ConnectInv
<1> SUFFICES ASSUME Init PROVE ConnectInv OBVIOUS
<1>1. /\ NoOperation \in Operation /\ NoOperation.status = "none" /\ NoOperation.resolved = None
      /\ IdleTask \in Task /\ IdleTask.pc = "idle"
  BY DEF NoOperation, Operation, Live, Deletable, IdleTask, Task
<1>2. TypeOK
  <2>1. /\ status \in [Servers -> Statuses] /\ reported \in [Servers -> SUBSET AllActions]
        /\ requested \in [Servers -> SUBSET AskedActions]
    BY DEF Init, DeploymentInit, Statuses
  <2>2. {active, client} \subseteq BOOLEAN BY DEF Init
  <2>3. /\ op \in [Operations -> Operation] /\ record \in [Keys -> Operations \cup {None}]
        /\ task \in [Requests -> Task]
    BY <1>1 DEF Init
  <2>4. /\ provisioned \in [Keys -> 0..2] /\ answered \in [Operations -> SUBSET Answers]
    BY DEF Init
  <2> QED BY <2>1, <2>2, <2>3, <2>4 DEF TypeOK
<1>3. \A c \in Requests : TaskType(c) /\ TaskInv(c)
  BY <1>1 DEF Init, TaskType, TaskInv, Keyed, Owning, Looking
<1>4. \A o \in Operations : OperationInv(o) BY <1>1 DEF Init, OperationInv
<1>5. \A k \in Keys : KeyInv(k) BY DEF Init, KeyInv
<1>6. DeploymentInv BY DEF Init, DeploymentInit, DeploymentInv
<1> QED BY <1>2, <1>3, <1>4, <1>5, <1>6 DEF ConnectInv

\* Every step keeps it.
LEMMA ConnectStep == ConnectInv /\ [Next]_vars => ConnectInv'
<1> SUFFICES ASSUME ConnectInv, [Next]_vars PROVE ConnectInv' OBVIOUS
<1>1. CASE UNCHANGED vars
  BY <1>1 DEF vars, ConnectInv, TypeOK, TaskType, TaskInv, Config, OperationInv, KeyInv,
              DeploymentInv, Exists
<1>2. ASSUME NEW c \in Requests, BeginRequest(c) PROVE ConnectInv'
  BY <1>2, KeySteps, ViewSteps, RevokeSteps DEF BeginRequest
<1>3. ASSUME NEW c \in Requests, RequestProgress(c) PROVE ConnectInv'
  <2>1. ASSUME StoreFailure(c) \/ StoreProcessing(c) \/ StoreSuccess(c) \/ View(c)
        PROVE  ConnectInv'
    <3>1. PICK o : task[c].operation = o OBVIOUS
    <3> QED BY <2>1, <3>1, AnswerSteps
  <2> QED BY <1>3, <2>1, KeySteps, CreateStep, ProvisionStep, ProvisionSteps, ViewSteps,
             RevokeSteps DEF RequestProgress
<1>4. ASSUME NEW o \in Operations, Age(o) PROVE ConnectInv' BY <1>4, AgeStep
<1>5. CASE Cleanup BY <1>5, CleanupStep
<1>6. CASE Crash \/ Login \/ Deploy BY <1>6, OtherSteps
<1> QED BY <1>1, <1>2, <1>3, <1>4, <1>5, <1>6 DEF Next

\* The invariant holds of every reachable state.
LEMMA ConnectInvariant == Spec => []ConnectInv
BY ConnectInit, ConnectStep, PTL DEF Spec

\* Every variable keeps its type.
THEOREM ConnectTypeCorrect == Spec => []TypeOK
<1>1. ConnectInv => TypeOK BY DEF ConnectInv
<1> QED BY <1>1, ConnectInvariant, PTL

\* However often an app repeats a request, its key provisions once.
THEOREM ProvisionedOnce == Spec => []ProvisionedOncePerKey
<1>1. ConnectInv => ProvisionedOncePerKey BY DEF ConnectInv, KeyInv, ProvisionedOncePerKey
<1> QED BY <1>1, ConnectInvariant, PTL

\* A known key never leads to an operation that was deleted.
THEOREM RecordsHaveOperations == Spec => []RecordHasOperation
<1>1. ConnectInv => RecordHasOperation BY DEF ConnectInv, KeyInv, RecordHasOperation
<1> QED BY <1>1, ConnectInvariant, PTL

\* No operation is reported as failed and as successful.
THEOREM NoTwoAnswers == Spec => []AnswersAgree
<1>1. ConnectInv => AnswersAgree
  BY MobileConnectAssumption DEF ConnectInv, OperationInv, Config, AnswersAgree
<1> QED BY <1>1, ConnectInvariant, PTL

\* The configs handed out for an operation are of one server, the one it was resolved to,
\* and its agent has reported some command done.
THEOREM ConfigIsDeployed == Spec => []SuccessIsReported
<1>1. ConnectInv => SuccessIsReported
  BY DEF ConnectInv, OperationInv, Config, SuccessIsReported
<1> QED BY <1>1, ConnectInvariant, PTL
=============================================================================
