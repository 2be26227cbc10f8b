--------------------------- MODULE DeploymentProofs ---------------------------
(***************************************************************************)
(* Agents do only what somebody asked for, and module Provisioning         *)
(* implements module Deployment, for every set of servers, requests and    *)
(* reconcilers and every kind of fault.                                    *)
(***************************************************************************)
EXTENDS ProvisioningProofs

-----------------------------------------------------------------------------
(***************************************************************************)
(* Whatever is on its way to an agent was asked for                        *)
(***************************************************************************)

\* An action that the agent of s may be told.
Allowed(s, a) == s \in Audited => a \in requested[s] \cup {"create_client"}

\* A pending action, in the table or in the copy the consumer will write back,
\* was asked for by an administrator.
RowsAreRequested ==
    \A s \in Audited : row[s].action # NoAction => row[s].action \in requested[s]

CopyIsRequested ==
    consumer.pc = "save" =>
        \A e \in consumer.result : e.job \in Audited /\ consumer.copy.action # NoAction
            => consumer.copy.action \in requested[e.job]

\* The same of the commands that tasks are about to publish, and of those waiting.
TasksAreAllowed ==
    \A w \in Workers : \A c \in task[w].todo \cup task[w].current : Allowed(c.server, c.action)

CommandsAreAllowed == \A c \in cmds : Allowed(c.server, c.action)

RequestedInv ==
    /\ RowsAreRequested /\ CopyIsRequested
    /\ TasksAreAllowed /\ CommandsAreAllowed
    /\ OnlyRequestedActions

\* What a request or the reconciler does to a row, unless it is an administrator's:
\* it may become pending, and gets no pending action.
QuietRowStep(s) ==
    \/ row'[s] = row[s]
    \/ row'[s].status = "pending" /\ row'[s].action \in {row[s].action, NoAction}

\* The command built from a row whose pending action was asked for is allowed.
LEMMA CommandAllowed ==
    ASSUME RowsAreRequested, NEW s \in Servers
    PROVE  /\ CommandOf(s, row[s]).server = s
           /\ Allowed(s, CommandOf(s, row[s]).action)
BY DEF CommandOf, RowsAreRequested, Allowed

\* Only administrators' requests add pending actions, and only they ask.
LEMMA QuietEffect ==
    ASSUME TypeOK, NEW w \in Workers, RequestStep(w) \/ ReconcileStep(w),
           \A s \in Servers, d \in DesiredInputs : ~RequestConnectionState(w, s, d)
    PROVE  requested' = requested /\ \A s \in Servers : QuietRowStep(s)
<1> DEFINE Quiet == requested' = requested /\ \A s \in Servers : QuietRowStep(s)
<1>0. UNCHANGED <<row, requested>> => Quiet
  BY DEF QuietRowStep
<1>1. CASE RequestCreateAll(w) BY <1>0, <1>1 DEF RequestCreateAll, BeginCreate
<1>2. CASE \E s \in Servers : RequestCreateOn(w, s)
  BY <1>0, <1>2 DEF RequestCreateOn, BeginCreate
<1>3. CASE RequestProgress(w)
  <2>1. CASE EnsureCommit(w)
    <3>1. ASSUME NEW s \in Servers PROVE QuietRowStep(s)
      <4>1. row'[s] = EnsuredRow(w, s, row[s]) BY <2>1 DEF EnsureCommit
      <4>2. row[s] \in Row BY DEF TypeOK
      <4> QED BY <4>1, <4>2 DEF EnsuredRow, QuietRowStep, NoRow, Row
    <3> QED BY <2>1, <3>1 DEF EnsureCommit
  <2>2. CASE RejectCreate(w) BY <1>0, <2>2 DEF RejectCreate
  <2>3. CASE EnsureTake(w) BY <1>0, <2>3 DEF EnsureTake
  <2>4. CASE EnsureConflict(w) BY <1>0, <2>4 DEF EnsureConflict
  <2>5. CASE Plan(w) BY <1>0, <2>5 DEF Plan
  <2>6. CASE FinishCreate(w) BY <1>0, <2>6 DEF FinishCreate
  <2>7. CASE RereadNode(w) BY <1>0, <2>7 DEF RereadNode
  <2> QED BY <1>3, <2>1, <2>2, <2>3, <2>4, <2>5, <2>6, <2>7 DEF RequestProgress
<1>4. CASE LoopProgress(w) \/ LoopFault(w)
  <2>1. ASSUME NEW c \in task[w].todo,
               SkipRow(w, c) \/ Publish(w, c) \/ PublishFails(w, c)
        PROVE  Quiet
    BY <1>0, <2>1 DEF SkipRow, Publish, PublishFails
  <2>2. ASSUME NEW stored \in BOOLEAN, Mark(w, stored) PROVE Quiet
    <3>1. PICK c \in task[w].current :
            row' = IF stored /\ ~task[w].sent
                   THEN [row EXCEPT ![c.server] = MarkedPublishFailed(@)] ELSE row
      BY <2>2 DEF Mark
    <3>2. ASSUME NEW s \in Servers PROVE QuietRowStep(s)
      BY <3>1 DEF MarkedPublishFailed, QuietRowStep, TypeOK, Row
    <3> QED BY <2>2, <3>2 DEF Mark
  <2>3. CASE EndLoop(w) BY <1>0, <2>3 DEF EndLoop
  <2> QED BY <1>4, <2>1, <2>2, <2>3 DEF LoopProgress, LoopFault
<1>5. CASE Abandon(w) BY <1>0, <1>5 DEF Abandon
<1>6. CASE \E due \in SUBSET Servers : StartReconcile(w, due)
  BY <1>0, <1>6 DEF StartReconcile
<1> QED BY <1>1, <1>2, <1>3, <1>4, <1>5, <1>6 DEF RequestStep, ReconcileStep

\* A request or the reconciler publishes what it has read from rows, nothing else.
LEMMA TaskEffect ==
    ASSUME TypeOK, RowsAreRequested, NEW w \in Workers, RequestStep(w) \/ ReconcileStep(w)
    PROVE  /\ \A v \in Workers : \A c \in task'[v].todo \cup task'[v].current :
                 c \in task[v].todo \cup task[v].current \/ Allowed(c.server, c.action)
           /\ cmds' \subseteq cmds \cup task[w].todo
<1> DEFINE Todo(v)  == task[v].todo \cup task[v].current
           Fine == /\ \A v \in Workers : \A c \in task'[v].todo \cup task'[v].current :
                         c \in Todo(v) \/ Allowed(c.server, c.action)
                   /\ cmds' \subseteq cmds \cup task[w].todo
<1>0. task \in [Workers -> Task] /\ task[w] \in Task BY DEF TypeOK
<1>1. ASSUME NEW t, task' = [task EXCEPT ![w] = t], cmds' = cmds,
             \A c \in t.todo \cup t.current : c \in Todo(w) \/ Allowed(c.server, c.action)
      PROVE  Fine
  BY <1>0, <1>1
<1>2. task' = Done(w) /\ cmds' = cmds => Fine
  BY <1>1 DEF Done, IdleTask
<1>3. ASSUME NEW pc, task' = Step(w, pc), cmds' = cmds PROVE Fine
  BY <1>0, <1>3 DEF Step, Task
<1>4. ASSUME NEW S \in SUBSET Servers, NEW t, cmds' = cmds,
             task' = [task EXCEPT ![w] = t],
             t.todo = {CommandOf(s, row[s]) : s \in S}, t.current = {}
      PROVE  Fine
  <2>1. \A c \in t.todo \cup t.current : Allowed(c.server, c.action)
    BY <1>4, CommandAllowed
  <2> QED BY <1>1, <1>4, <2>1
<1>5. CASE RequestCreateAll(w) \/ \E s \in Servers : RequestCreateOn(w, s)
  <2>1. PICK targets : BeginCreate(w, targets)
    BY <1>5 DEF RequestCreateAll, RequestCreateOn
  <2> QED BY <1>1, <2>1 DEF BeginCreate, IdleTask
<1>6. CASE \E s \in Servers, d \in DesiredInputs : RequestConnectionState(w, s, d)
  BY <1>1, <1>6 DEF RequestConnectionState, IdleTask
<1>7. CASE RequestProgress(w)
  <2>1. CASE RejectCreate(w) BY <1>2, <2>1 DEF RejectCreate
  <2>2. CASE EnsureTake(w) BY <1>0, <2>2 DEF EnsureTake, Task
  <2>3. CASE EnsureCommit(w) BY <1>3, <2>3 DEF EnsureCommit
  <2>4. CASE EnsureConflict(w) BY <1>2, <2>4 DEF EnsureConflict
  <2>5. CASE Plan(w)
    <3> DEFINE chosen == PendingTargets(task[w].targets)
               t == [IdleTask EXCEPT !.pc = "publish", !.kind = "create",
                                     !.todo = {CommandOf(s, row[s]) : s \in chosen}]
    <3>1. chosen \in SUBSET Servers BY <1>0 DEF PendingTargets, Task
    <3>2. t.todo = {CommandOf(s, row[s]) : s \in chosen} /\ t.current = {}
      BY DEF IdleTask
    <3>3. cmds' = cmds /\ (task' = Done(w) \/ task' = [task EXCEPT ![w] = t])
      BY <2>5 DEF Plan
    <3> HIDE DEF chosen, t
    <3> QED BY <1>2, <1>4, <3>1, <3>2, <3>3
  <2>6. CASE FinishCreate(w) BY <1>2, <2>6 DEF FinishCreate
  <2>7. CASE RereadNode(w)
    <3> DEFINE S == task[w].targets
               t == [IdleTask EXCEPT !.pc = "publish", !.kind = "admin",
                                     !.todo = {CommandOf(s, row[s]) : s \in S}]
    <3>1. S \in SUBSET Servers BY <1>0 DEF Task
    <3>2. t.todo = {CommandOf(s, row[s]) : s \in S} /\ t.current = {}
      BY DEF IdleTask
    <3>3. cmds' = cmds /\ task' = [task EXCEPT ![w] = t] BY <2>7 DEF RereadNode
    <3> HIDE DEF S, t
    <3> QED BY <1>4, <3>1, <3>2, <3>3
  <2> QED BY <1>7, <2>1, <2>2, <2>3, <2>4, <2>5, <2>6, <2>7 DEF RequestProgress
<1>8. CASE LoopProgress(w) \/ LoopFault(w)
  <2>1. ASSUME NEW c \in task[w].todo, SkipRow(w, c) PROVE Fine
    BY <1>0, <2>1 DEF SkipRow, Task
  <2>2. ASSUME NEW c \in task[w].todo, Publish(w, c) PROVE Fine
    BY <1>0, <2>2 DEF Publish, Task
  <2>3. ASSUME NEW c \in task[w].todo, PublishFails(w, c) PROVE Fine
    BY <1>0, <2>3 DEF PublishFails, Task
  <2>4. ASSUME NEW stored \in BOOLEAN, Mark(w, stored) PROVE Fine
    BY <1>0, <2>4 DEF Mark, Task
  <2>5. CASE EndLoop(w) BY <1>2, <1>3, <2>5 DEF EndLoop
  <2> QED BY <1>8, <2>1, <2>2, <2>3, <2>4, <2>5 DEF LoopProgress, LoopFault
<1>9. CASE Abandon(w) BY <1>2, <1>9 DEF Abandon
<1>10. CASE \E due \in SUBSET Servers : StartReconcile(w, due)
  <2>1. PICK due \in SUBSET Servers : StartReconcile(w, due) BY <1>10
  <2> DEFINE t == [IdleTask EXCEPT !.pc = "publish",
                                   !.todo = {CommandOf(s, row[s]) : s \in due}]
  <2>2. t.todo = {CommandOf(s, row[s]) : s \in due} /\ t.current = {}
    BY DEF IdleTask
  <2>3. cmds' = cmds /\ task' = [task EXCEPT ![w] = t] BY <2>1 DEF StartReconcile
  <2> HIDE DEF t
  <2> QED BY <1>4, <2>2, <2>3
<1> QED BY <1>5, <1>6, <1>7, <1>8, <1>9, <1>10 DEF RequestStep, ReconcileStep

\* RequestedInv is inductive: histories of requests grow, everything else is copied
\* from rows.
LEMMA RequestedGrows ==
    TypeOK /\ [Next]_vars => \A s \in Servers : requested[s] \subseteq requested'[s]
<1> SUFFICES ASSUME TypeOK, [Next]_vars
             PROVE  \A s \in Servers : requested[s] \subseteq requested'[s]
  OBVIOUS
<1>1. CASE UNCHANGED vars BY <1>1 DEF vars
<1>2. ASSUME NEW w \in Workers, RequestStep(w) \/ ReconcileStep(w)
      PROVE  \A s \in Servers : requested[s] \subseteq requested'[s]
  <2>1. CASE \A s \in Servers, d \in DesiredInputs : ~RequestConnectionState(w, s, d)
    BY <1>2, <2>1, QuietEffect
  <2>2. ASSUME NEW s \in Servers, NEW d \in DesiredInputs, RequestConnectionState(w, s, d)
        PROVE  \A t \in Servers : requested[t] \subseteq requested'[t]
    BY <2>2 DEF RequestConnectionState, Recorded, TypeOK
  <2> QED BY <2>1, <2>2
<1>3. CASE ConsumerProgress
  BY <1>3 DEF ConsumerProgress, AckIgnored, TakeResult, ApplyProfileNodeActionResult,
              TakeRow, SaveRow, Recalculate, UpdateProfileResult, Notify
<1>4. CASE EnvironmentStep BY <1>4, EnvironmentEffect
<1> QED BY <1>1, <1>2, <1>3, <1>4 DEF Next, Workers

\* A row has a pending action only if it was asked for.
LEMMA RowsStep ==
    TypeOK /\ ConsumerGuards /\ RowsAreRequested /\ CopyIsRequested /\ [Next]_vars
        => RowsAreRequested' /\ CopyIsRequested'
<1> SUFFICES ASSUME TypeOK, ConsumerGuards, RowsAreRequested, CopyIsRequested, [Next]_vars
             PROVE  RowsAreRequested' /\ CopyIsRequested'
  OBVIOUS
<1>0. /\ \A s \in Servers : requested[s] \subseteq requested'[s]
      /\ \A s \in Audited : s \in Servers
      /\ row \in [Servers -> Row] /\ consumer \in Consumer
  BY RequestedGrows, ConstantsAssumption DEF TypeOK
<1>1. ASSUME consumer' = consumer \/ consumer'.pc # "save" PROVE CopyIsRequested'
  BY <1>0, <1>1 DEF CopyIsRequested
<1>2. ASSUME \A s \in Servers : row'[s].action \in {row[s].action, NoAction}
      PROVE  RowsAreRequested'
  BY <1>0, <1>2 DEF RowsAreRequested
<1>3. CASE UNCHANGED vars BY <1>1, <1>2, <1>3 DEF vars
<1>4. ASSUME NEW w \in Workers, RequestStep(w) \/ ReconcileStep(w)
      PROVE  RowsAreRequested' /\ CopyIsRequested'
  <2>1. consumer' = consumer BY <1>4, RequestEffect
  <2>2. CASE \A s \in Servers, d \in DesiredInputs : ~RequestConnectionState(w, s, d)
    BY <1>1, <1>2, <1>4, <2>1, <2>2, QuietEffect DEF QuietRowStep
  <2>3. ASSUME NEW s \in Servers, NEW d \in DesiredInputs, RequestConnectionState(w, s, d)
        PROVE  RowsAreRequested'
    <3>1. ASSUME NEW t \in Audited, row'[t].action # NoAction
          PROVE  row'[t].action \in requested'[t]
      <4>1. CASE t = s
        <5>1. row'[t].action = ActionFor(d)
          BY <1>0, <2>3, <4>1 DEF RequestConnectionState
        <5>2. requested' = [requested EXCEPT ![s] = @ \cup {ActionFor(d)}]
          BY <2>3, <4>1 DEF RequestConnectionState, Recorded
        <5> QED BY <4>1, <5>1, <5>2 DEF TypeOK
      <4>2. CASE t # s
        <5>1. row'[t] = row[t] BY <1>0, <2>3, <4>2 DEF RequestConnectionState
        <5> QED BY <1>0, <3>1, <5>1 DEF RowsAreRequested
      <4> QED BY <4>1, <4>2
    <3> QED BY <3>1 DEF RowsAreRequested
  <2> QED BY <1>1, <2>1, <2>2, <2>3
<1>5. CASE ConsumerProgress
  <2>1. CASE ApplyProfileNodeActionResult
    <3>1. \A s \in Servers : row'[s].action \in {row[s].action, NoAction}
      BY <1>0, <2>1 DEF ApplyProfileNodeActionResult, Row
    <3>2. consumer'.pc # "save"
      BY <1>0, <2>1 DEF ApplyProfileNodeActionResult, Consumer
    <3> QED BY <1>1, <1>2, <3>1, <3>2
  <2>2. CASE TakeRow
    <3>1. PICK e \in consumer.result :
            consumer' = IF LateFailure(e) THEN [consumer EXCEPT !.pc = "recalc"]
                        ELSE [consumer EXCEPT !.pc = "save", !.copy = row[e.job]]
      BY <2>2 DEF TakeRow
    <3>2. /\ consumer'.result = consumer.result
          /\ consumer'.pc = "save" => consumer'.copy = row[e.job]
      BY <1>0, <3>1 DEF Consumer
    <3>3. \A f \in consumer.result : f = e BY DEF ConsumerGuards
    <3>4. row' = row BY <2>2 DEF TakeRow
    <3>5. RowsAreRequested' BY <1>2, <3>4
    <3>6. CopyIsRequested'
      BY <1>0, <3>2, <3>3 DEF CopyIsRequested, RowsAreRequested
    <3> QED BY <3>5, <3>6
  <2>3. CASE SaveRow
    <3>1. PICK e \in consumer.result : row' = [row EXCEPT ![e.job] = SavedRow(e)]
      BY <2>3 DEF SaveRow
    <3>2. SavedRow(e).action = consumer.copy.action
      BY <1>0 DEF SavedRow, Consumer, Row
    <3>3. ASSUME NEW t \in Audited, row'[t].action # NoAction
          PROVE  row'[t].action \in requested'[t]
      <4>1. CASE t = e.job
        BY <1>0, <2>3, <3>1, <3>2, <3>3, <4>1 DEF CopyIsRequested, SaveRow
      <4>2. CASE t # e.job
        <5>1. row'[t] = row[t] BY <1>0, <3>1, <4>2
        <5> QED BY <1>0, <3>3, <5>1 DEF RowsAreRequested
      <4> QED BY <4>1, <4>2
    <3>4. consumer'.pc # "save" BY <1>0, <2>3 DEF SaveRow, Consumer
    <3> QED BY <1>1, <3>3, <3>4 DEF RowsAreRequested
  <2>4. ASSUME NEW r \in results, AckIgnored(r) PROVE RowsAreRequested' /\ CopyIsRequested'
    BY <1>1, <1>2, <2>4 DEF AckIgnored
  <2>5. ASSUME NEW r \in results, TakeResult(r) PROVE RowsAreRequested' /\ CopyIsRequested'
    BY <1>1, <1>2, <2>5 DEF TakeResult, IdleConsumer
  <2>6. CASE Recalculate
    <3>1. consumer'.pc # "save" BY <1>0, <2>6 DEF Recalculate, Consumer
    <3> QED BY <1>1, <1>2, <2>6, <3>1 DEF Recalculate
  <2>7. CASE UpdateProfileResult
    <3>1. consumer'.pc # "save"
      <4>1. CASE consumer.tell BY <1>0, <2>7, <4>1 DEF UpdateProfileResult, Consumer
      <4>2. CASE ~consumer.tell BY <2>7, <4>2 DEF UpdateProfileResult, IdleConsumer
      <4> QED BY <4>1, <4>2
    <3> QED BY <1>1, <1>2, <2>7, <3>1 DEF UpdateProfileResult
  <2>8. CASE Notify BY <1>1, <1>2, <2>8 DEF Notify, IdleConsumer
  <2> QED BY <1>5, <2>1, <2>2, <2>3, <2>4, <2>5, <2>6, <2>7, <2>8 DEF ConsumerProgress
<1>6. CASE EnvironmentStep
  <2>1. consumer' = consumer \/ consumer'.pc # "save"
    BY <1>6, EnvironmentEffect DEF IdleConsumer
  <2> QED BY <1>1, <1>2, <1>6, <2>1, EnvironmentEffect
<1> QED BY <1>3, <1>4, <1>5, <1>6 DEF Next, Workers

\* What does not come from a request or the reconciler adds no command.
LEMMA OtherCommands ==
    ASSUME TypeOK, ConsumerProgress \/ EnvironmentStep
    PROVE  /\ task' = task \/ task' = [v \in Workers |-> IdleTask]
           /\ cmds' \subseteq cmds
           /\ \A s \in Audited : acked'[s] \subseteq
                 acked[s] \cup {c.action : c \in {d \in cmds : d.server = s}}
<1>1. CASE ConsumerProgress
  BY <1>1 DEF ConsumerProgress, AckIgnored, TakeResult, ApplyProfileNodeActionResult,
              TakeRow, SaveRow, Recalculate, UpdateProfileResult, Notify
<1>2. CASE Crash BY <1>2 DEF Crash
<1>3. CASE HandlerError BY <1>3 DEF HandlerError
<1>4. ASSUME NEW c \in cmds, LoseCommand(c)
      PROVE  task' = task /\ cmds' \subseteq cmds /\ acked' = acked
  BY <1>4 DEF LoseCommand
<1>5. ASSUME NEW s \in Flapping, ToggleEligible(s)
      PROVE  task' = task /\ cmds' = cmds /\ acked' = acked
  BY <1>5 DEF ToggleEligible
<1>6. ASSUME NEW c \in cmds, NEW r \in Reports(c), NEW kept \in BOOLEAN,
             AgentExecutes(c, r, kept)
      PROVE  /\ task' = task /\ cmds' \subseteq cmds
             /\ \A s \in Audited : acked'[s] \subseteq
                   acked[s] \cup {d.action : d \in {b \in cmds : b.server = s}}
  <2>1. task' = task /\ cmds' \subseteq cmds BY <1>6 DEF AgentExecutes
  <2>2. \A s \in Audited : acked'[s] \subseteq acked[s] \cup
                              (IF s = c.server THEN {c.action} ELSE {})
    BY <1>6, ConstantsAssumption DEF AgentExecutes, Recorded, TypeOK
  <2> QED BY <2>1, <2>2
<1> QED BY <1>1, <1>2, <1>3, <1>4, <1>5, <1>6 DEF EnvironmentStep, AgentProgress

\* Every command that exists, and every report of an agent, was allowed.
LEMMA CommandsStep ==
    TypeOK /\ RequestedInv /\ [Next]_vars
        => TasksAreAllowed' /\ CommandsAreAllowed' /\ OnlyRequestedActions'
<1> SUFFICES ASSUME TypeOK, RequestedInv, [Next]_vars
             PROVE  TasksAreAllowed' /\ CommandsAreAllowed' /\ OnlyRequestedActions'
  OBVIOUS
<1>0. /\ \A s \in Audited : requested[s] \subseteq requested'[s]
      /\ \A s, a : Allowed(s, a) => Allowed(s, a)'
  BY RequestedGrows, ConstantsAssumption DEF Allowed
<1>1. ASSUME task' = task \/ task' = [v \in Workers |-> IdleTask] PROVE TasksAreAllowed'
  BY <1>0, <1>1 DEF RequestedInv, TasksAreAllowed, IdleTask
<1>2. ASSUME cmds' \subseteq cmds PROVE CommandsAreAllowed'
  BY <1>0, <1>2 DEF RequestedInv, CommandsAreAllowed
<1>3. ASSUME \A s \in Audited : acked'[s] \subseteq
                 acked[s] \cup {c.action : c \in {d \in cmds : d.server = s}}
      PROVE  OnlyRequestedActions'
  BY <1>0, <1>3 DEF RequestedInv, OnlyRequestedActions, CommandsAreAllowed, Allowed
<1>4. CASE UNCHANGED vars BY <1>1, <1>2, <1>3, <1>4 DEF vars
<1>5. ASSUME NEW w \in Workers, RequestStep(w) \/ ReconcileStep(w)
      PROVE  TasksAreAllowed' /\ CommandsAreAllowed' /\ OnlyRequestedActions'
  <2>1. /\ \A v \in Workers : \A c \in task'[v].todo \cup task'[v].current :
              c \in task[v].todo \cup task[v].current \/ Allowed(c.server, c.action)
        /\ cmds' \subseteq cmds \cup task[w].todo
    BY <1>5, TaskEffect DEF RequestedInv
  <2>2. TasksAreAllowed'
    BY <1>0, <2>1 DEF RequestedInv, TasksAreAllowed
  <2>3. CommandsAreAllowed'
    BY <1>0, <2>1 DEF RequestedInv, TasksAreAllowed, CommandsAreAllowed
  <2>4. acked' = acked BY <1>5, RequestEffect
  <2> QED BY <1>3, <2>2, <2>3, <2>4
<1>6. CASE ConsumerProgress \/ EnvironmentStep BY <1>1, <1>2, <1>3, <1>6, OtherCommands
<1> QED BY <1>4, <1>5, <1>6 DEF Next, Workers

\* The inductive invariant holds of every reachable state.
LEMMA RequestedInvariant == Spec => []RequestedInv
<1>1. Init => RequestedInv
  <2> SUFFICES ASSUME Init PROVE RequestedInv OBVIOUS
  <2>1. RowsAreRequested BY ConstantsAssumption DEF Init, RowsAreRequested, NoRow
  <2>2. CopyIsRequested BY DEF Init, CopyIsRequested, IdleConsumer
  <2>3. TasksAreAllowed BY DEF Init, TasksAreAllowed, IdleTask
  <2>4. CommandsAreAllowed BY DEF Init, CommandsAreAllowed
  <2>5. OnlyRequestedActions BY ConstantsAssumption DEF Init, OnlyRequestedActions
  <2> QED BY <2>1, <2>2, <2>3, <2>4, <2>5 DEF RequestedInv
<1>2. TypeOK /\ ResultInv /\ RequestedInv /\ [Next]_vars => RequestedInv'
  BY RowsStep, CommandsStep DEF RequestedInv, ResultInv
<1> QED BY <1>1, <1>2, ResultInvariant, PTL DEF Spec

\* Stale copies, replays and retries never make an agent do what no administrator
\* asked for.
THEOREM OnlyRequested == Spec => []OnlyRequestedActions
<1>1. RequestedInv => OnlyRequestedActions BY DEF RequestedInv
<1> QED BY <1>1, RequestedInvariant, PTL

-----------------------------------------------------------------------------
(***************************************************************************)
(* Provisioning implements Deployment                                      *)
(***************************************************************************)

\* What holds of every reachable state and makes a step one of Deployment's.
StepInv == TypeOK /\ ResultInv /\ RequestedInv

PromisedStep == [Promise!DeploymentNext]_(Promise!deploymentVars)

\* A step that changes no status, report or request is a stutter.
LEMMA StutterStep ==
    ASSUME row' = row, acked' = acked, requested' = requested
    PROVE  PromisedStep
BY DEF PromisedStep, Promise!deploymentVars

\* Rows that become pending, or stay what they are, were planned.
LEMMA PlanStep ==
    ASSUME acked' = acked, requested' = requested,
           \A s \in Servers : row'[s].status \in {row[s].status, "pending"}
    PROVE  PromisedStep
<1>1. PICK S \in SUBSET Servers :
        S = {s \in Servers : row'[s].status # row[s].status}
  OBVIOUS
<1>2. Promise!Plan(S) BY <1>1 DEF Promise!Plan
<1> QED BY <1>2 DEF PromisedStep, Promise!DeploymentNext

\* An administrator's request asks for its action.
LEMMA AskStep ==
    ASSUME Audited = Servers, TypeOK, NEW w \in Workers, NEW s \in Servers,
           NEW d \in DesiredInputs, RequestConnectionState(w, s, d)
    PROVE  PromisedStep
<1>1. ActionFor(d) \in Promise!AskedActions
  BY ConstantsAssumption, ActionForType DEF AdminActions, Promise!AskedActions
<1>2. /\ row[s].status # "none"
      /\ row' = [row EXCEPT ![s] = [status |-> "pending", desired |-> d,
                                    action |-> ActionFor(d)]]
      /\ requested' = [requested EXCEPT ![s] = @ \cup {ActionFor(d)}]
      /\ acked' = acked
  BY DEF RequestConnectionState, Exists, Recorded
<1>3. [t \in Servers |-> row'[t].status]
         = [[t \in Servers |-> row[t].status] EXCEPT ![s] = "pending"]
  BY <1>2 DEF TypeOK
<1>4. Promise!Ask(s, ActionFor(d)) BY <1>2, <1>3 DEF Promise!Ask
<1> QED BY <1>1, <1>4 DEF PromisedStep, Promise!DeploymentNext

\* A row written with an outcome that the reports support is settled.
LEMMA SettleStep ==
    ASSUME TypeOK, NEW s \in Servers, Exists(s), NEW r,
           r.status \in Promise!Settled, Promise!Supports(s, r.status),
           row' = [row EXCEPT ![s] = r], acked' = acked, requested' = requested
    PROVE  PromisedStep
<1>1. [t \in Servers |-> row'[t].status]
         = [[t \in Servers |-> row[t].status] EXCEPT ![s] = r.status]
  BY DEF TypeOK
<1>2. Promise!Settle(s, r.status) BY <1>1 DEF Promise!Settle, Exists
<1> QED BY <1>2 DEF PromisedStep, Promise!DeploymentNext

\* The outcome of a pending action rests on the report the consumer holds.
LEMMA ActionSettles ==
    ASSUME Audited = Servers, StepInv, ApplyProfileNodeActionResult
    PROVE  PromisedStep
<1> USE DEF StepInv
<1>1. PICK e \in consumer.result :
        row' = [row EXCEPT ![e.job] =
                  [@ EXCEPT !.status = ActionOutcome(consumer.pending, e.ok),
                            !.action = NoAction]]
  BY DEF ApplyProfileNodeActionResult
<1> DEFINE s == e.job
           st == ActionOutcome(consumer.pending, e.ok)
           r == [row[s] EXCEPT !.status = st, !.action = NoAction]
<1>2. /\ s \in Servers /\ e \in results /\ e.server = s /\ Exists(s)
      /\ e.action \in {NoAction, consumer.pending} /\ consumer.pending # NoAction
      /\ row[s].action # NoAction
  BY DEF ResultInv, ConsumerGuards, ApplyProfileNodeActionResult, TypeOK, Consumer, Result
<1>3. e.ok => acked[s] # {} /\ (OmitsCommandType \/ consumer.pending \in acked[s])
  BY <1>2 DEF ResultInv, ResultsAreBacked
<1>4. requested[s] # {} BY <1>2 DEF RequestedInv, RowsAreRequested
<1>5. r.status = st BY <1>2 DEF TypeOK, Row
<1>6. st \in Promise!Settled BY DEF ActionOutcome, Promise!Settled
<1>7. Promise!Supports(s, st)
  <2>1. st # "failed" => e.ok BY DEF ActionOutcome
  <2>2. st = "disabled" => consumer.pending = "disable_client" BY DEF ActionOutcome
  <2>3. st = "deleted" => consumer.pending = "delete_client" BY DEF ActionOutcome
  <2> HIDE DEF st, s
  <2>4. st = "success" => acked[s] # {} BY <1>3, <2>1
  <2>5. st = "disabled" => acked[s] # {} /\ (OmitsCommandType \/ "disable_client" \in acked[s])
    BY <1>3, <2>1, <2>2
  <2>6. st = "deleted" => acked[s] # {} /\ (OmitsCommandType \/ "delete_client" \in acked[s])
    BY <1>3, <2>1, <2>3
  <2> QED BY <1>4, <2>4, <2>5, <2>6 DEF Promise!Supports
<1>8. row' = [row EXCEPT ![s] = r] BY <1>1
<1>9. acked' = acked /\ requested' = requested BY DEF ApplyProfileNodeActionResult
<1> HIDE DEF r, st, s
<1> QED BY <1>2, <1>5, <1>6, <1>7, <1>8, <1>9, SettleStep

\* So does the outcome of a deployment, and a failure leaves a success alone.
LEMMA SaveSettles ==
    ASSUME Audited = Servers, StepInv, SaveRow
    PROVE  PromisedStep
<1> USE DEF StepInv
<1>1. PICK e \in consumer.result : row' = [row EXCEPT ![e.job] = SavedRow(e)]
  BY DEF SaveRow
<1>2. /\ e.job \in Servers /\ e \in results /\ e.server = e.job /\ Exists(e.job)
      /\ e.ok \/ row[e.job].status # "success"
  BY DEF ResultInv, ConsumerGuards, SaveRow, TypeOK, Consumer, Result
<1>3. e.ok => acked[e.job] # {} BY <1>2 DEF ResultInv, ResultsAreBacked
<1>4. SavedRow(e).status = ResultStatus(e) BY DEF SavedRow, TypeOK, Consumer, Row
<1>5. ResultStatus(e) \in Promise!Settled BY DEF ResultStatus, Promise!Settled
<1>6. Promise!Supports(e.job, ResultStatus(e))
  BY <1>2, <1>3 DEF Promise!Supports, ResultStatus
<1>7. acked' = acked /\ requested' = requested BY DEF SaveRow
<1> QED BY <1>1, <1>2, <1>4, <1>5, <1>6, <1>7, SettleStep

\* An agent reports only what a command told it.
LEMMA ReportStep ==
    ASSUME Audited = Servers, StepInv, NEW c \in cmds, NEW r \in Reports(c),
           NEW kept \in BOOLEAN, AgentExecutes(c, r, kept)
    PROVE  PromisedStep
<1> USE DEF StepInv
<1>1. c.server \in Servers /\ c.action \in Promise!AllActions
  BY DEF TypeOK, Command, Actions, AdminActions, Promise!AllActions, Promise!AskedActions
<1>2. c.action \in requested[c.server] \cup {"create_client"}
  BY <1>1 DEF RequestedInv, CommandsAreAllowed, Allowed
<1>3. row' = row /\ requested' = requested BY DEF AgentExecutes
<1>4. CASE r.ok
  <2>1. acked' = [acked EXCEPT ![c.server] = @ \cup {c.action}]
    BY <1>1, <1>4 DEF AgentExecutes, Recorded
  <2>2. Promise!Report(c.server, c.action)
    BY <1>2, <1>3, <2>1 DEF Promise!Report
  <2> QED BY <1>1, <2>2 DEF PromisedStep, Promise!DeploymentNext
<1>5. CASE ~r.ok
  <2>1. acked' = acked BY <1>5 DEF AgentExecutes
  <2> QED BY <1>3, <2>1, StutterStep
<1> QED BY <1>4, <1>5

\* Every step of the panel and of its environment is one that Deployment allows.
LEMMA EveryStepPromised ==
    Audited = Servers /\ StepInv /\ [Next]_vars => PromisedStep
<1> SUFFICES ASSUME Audited = Servers, StepInv, [Next]_vars PROVE PromisedStep OBVIOUS
<1>0. TypeOK BY DEF StepInv
<1>1. CASE UNCHANGED vars BY <1>1, StutterStep DEF vars
<1>2. ASSUME NEW w \in Workers, RequestStep(w) \/ ReconcileStep(w) PROVE PromisedStep
  <2>1. CASE \A s \in Servers, d \in DesiredInputs : ~RequestConnectionState(w, s, d)
    <3>1. \A s \in Servers : row'[s].status \in {row[s].status, "pending"}
      BY <1>0, <1>2, <2>1, QuietEffect DEF QuietRowStep
    <3>2. requested' = requested /\ acked' = acked
      BY <1>0, <1>2, <2>1, QuietEffect, RequestEffect
    <3> QED BY <3>1, <3>2, PlanStep
  <2>2. ASSUME NEW s \in Servers, NEW d \in DesiredInputs, RequestConnectionState(w, s, d)
        PROVE  PromisedStep
    BY <1>0, <2>2, AskStep
  <2> QED BY <2>1, <2>2
<1>3. CASE ConsumerProgress
  <2>1. CASE ApplyProfileNodeActionResult BY <2>1, ActionSettles
  <2>2. CASE SaveRow BY <2>2, SaveSettles
  <2>3. CASE UNCHANGED <<row, acked, requested>> BY <2>3, StutterStep
  <2> QED BY <1>3, <2>1, <2>2, <2>3 DEF ConsumerProgress, AckIgnored, TakeResult,
                 TakeRow, Recalculate, UpdateProfileResult, Notify
<1>4. CASE EnvironmentStep
  <2>1. ASSUME NEW c \in cmds, NEW r \in Reports(c), NEW kept \in BOOLEAN,
               AgentExecutes(c, r, kept)
        PROVE  PromisedStep
    BY <2>1, ReportStep
  <2>2. CASE UNCHANGED <<row, acked, requested>> BY <2>2, StutterStep
  <2> QED BY <1>4, <2>1, <2>2 DEF EnvironmentStep, AgentProgress, Crash, HandlerError,
                 LoseCommand, ToggleEligible
<1> QED BY <1>1, <1>2, <1>3, <1>4 DEF Next, Workers

\* Initially nothing is deployed, reported or requested.
LEMMA InitPromised == Init => Promise!DeploymentInit
BY DEF Init, NoRow, Promise!DeploymentInit

\* The rows, with every copy, retry, replay and crash behind them, are the
\* deployments of module Deployment, when the histories of all servers are recorded.
THEOREM RefinesDeployment ==
    ASSUME Audited = Servers
    PROVE  Spec => ImplementsDeployment
<1>1. StepInv /\ [Next]_vars => [Promise!DeploymentNext]_(Promise!deploymentVars)
  BY EveryStepPromised DEF PromisedStep
<1>2. Spec => []StepInv
  BY ResultInvariant, RequestedInvariant, PTL DEF StepInv
<1> QED BY <1>1, <1>2, InitPromised, PTL
           DEF Spec, ImplementsDeployment, Promise!DeploymentSpec
=============================================================================
