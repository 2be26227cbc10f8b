------------------------ MODULE ProvisioningProofs --------------------------
(* Theorems about Provisioning, for every set of servers and goroutines. *)
EXTENDS Provisioning, TLAPS

(***************************************************************************)
(* Lemmas about the values                                                 *)
(***************************************************************************)

\* The initial program states and the missing row have their types.
LEMMA NullValues == IdleTask \in Task /\ IdleConsumer \in Consumer /\ NoRow \in Row
BY DEF IdleTask, Task, IdleConsumer, Consumer, NoRow, Row, RowStatuses, Desired,
       AdminActions, NoAction, ProfileStatuses

\* Each administrative request has an action of its own kind.
LEMMA ActionForType == \A d \in Desired : ActionFor(d) \in AdminActions
BY DEF Desired, ActionFor, AdminActions

\* A row's command is addressed to the row's server.
LEMMA CommandOfType ==
    ASSUME NEW s \in Servers, NEW r \in Row
    PROVE  CommandOf(s, r) \in Command
BY DEF CommandOf, Command, Row, Actions, NoAction

\* The status of a profile is always one of its five.
LEMMA RecalculatedType == RecalculatedStatus \in ProfileStatuses
BY DEF RecalculatedStatus, ProfileStatuses

\* EnsureProfileNodes writes proper rows.
LEMMA EnsuredRowType ==
    ASSUME NEW w \in Workers, NEW s \in Servers, NEW r \in Row
    PROVE  EnsuredRow(w, s, r) \in Row
BY NullValues DEF EnsuredRow, Row, RowStatuses

-----------------------------------------------------------------------------
(***************************************************************************)
(* Type correctness                                                        *)
(***************************************************************************)

\* The initial state is typed.
LEMMA TypeInit == Init => TypeOK
<1> SUFFICES ASSUME Init PROVE TypeOK OBVIOUS
<1> USE DEF Init
<1>1. row \in [Servers -> Row] /\ task \in [Workers -> Task] /\ consumer \in Consumer
  BY NullValues
<1>2. profile \in [status: ProfileStatuses, notified: BOOLEAN] BY DEF ProfileStatuses
<1>3. acked \in [Servers -> SUBSET Actions] /\ requested \in [Servers -> SUBSET Actions]
  OBVIOUS
<1>4. eligible \subseteq Servers /\ cmds \subseteq Command /\ results \subseteq Result
  OBVIOUS
<1>5. notices \in 0..2 OBVIOUS
<1>6. stable \in BOOLEAN OBVIOUS
<1> HIDE DEF Init
<1> QED BY <1>1, <1>2, <1>3, <1>4, <1>5, <1>6 DEF TypeOK

\* The steps of requests and of the reconciler keep every type.
LEMMA TypeRequest ==
    ASSUME TypeOK, NEW w \in Workers, RequestStep(w) \/ ReconcileStep(w)
    PROVE  TypeOK'
<1> USE DEF TypeOK
<1>1. ASSUME NEW targets \in SUBSET Servers, BeginCreate(w, targets) PROVE TypeOK'
  <2>1. [IdleTask EXCEPT !.kind = "create", !.targets = targets,
                         !.pc = IF targets = {} THEN "reject" ELSE "ensure"] \in Task
    BY DEF IdleTask, Task
  <2> QED BY <1>1, <2>1 DEF BeginCreate
<1>2. CASE RequestCreateAll(w) BY <1>1, <1>2 DEF RequestCreateAll
<1>3. CASE \E s \in Servers : RequestCreateOn(w, s)
  BY <1>1, <1>3 DEF RequestCreateOn
<1>4. CASE \E s \in Servers, d \in DesiredInputs : RequestConnectionState(w, s, d)
  <2> PICK s \in Servers, d \in DesiredInputs : RequestConnectionState(w, s, d) BY <1>4
  <2>1. d \in Desired /\ ActionFor(d) \in AdminActions
    BY ConstantsAssumption, ActionForType
  <2>2. [status |-> "pending", desired |-> d, action |-> ActionFor(d)] \in Row
    BY <2>1 DEF Row, RowStatuses
  <2>3. row' \in [Servers -> Row] BY <2>2 DEF RequestConnectionState
  <2>5. [IdleTask EXCEPT !.pc = "reread", !.kind = "admin", !.targets = {s}] \in Task
    BY DEF IdleTask, Task
  <2>6. task' \in [Workers -> Task] BY <2>5 DEF RequestConnectionState
  <2>7. requested' \in [Servers -> SUBSET Actions]
    BY <2>1 DEF RequestConnectionState, Recorded, Actions
  <2> QED BY <2>3, <2>6, <2>7 DEF RequestConnectionState
<1>5. CASE RequestProgress(w)
  <2>1. CASE RejectCreate(w)
    BY <2>1, NullValues DEF RejectCreate, Done, ProfileStatuses
  <2>2. CASE EnsureTake(w)
    <3> DEFINE absent == {s \in task[w].targets : ~Exists(s)}
               settled == {s \in task[w].targets : row[s].status = "success"}
    <3>1. absent \in SUBSET Servers /\ settled \in SUBSET Servers BY DEF Task
    <3>2. task' = [task EXCEPT ![w].pc = "write", ![w].fresh = absent,
                               ![w].settled = settled]
      BY <2>2 DEF EnsureTake
    <3> HIDE DEF absent, settled
    <3>3. [task[w] EXCEPT !.pc = "write", !.fresh = absent, !.settled = settled] \in Task
      BY <3>1 DEF Task
    <3>4. task' \in [Workers -> Task] BY <3>2, <3>3
    <3> QED BY <2>2, <3>4 DEF EnsureTake
  <2>3. CASE EnsureCommit(w)
    <3>1. row' \in [Servers -> Row] BY <2>3, EnsuredRowType DEF EnsureCommit
    <3>2. [task[w] EXCEPT !.pc = "plan"] \in Task BY DEF Task
    <3>3. task' \in [Workers -> Task] BY <2>3, <3>2 DEF EnsureCommit, Step
    <3> QED BY <2>3, <3>1, <3>3 DEF EnsureCommit
  <2>4. CASE EnsureConflict(w) BY <2>4, NullValues DEF EnsureConflict, Done
  <2>5. CASE Plan(w)
    <3> DEFINE chosen == PendingTargets(task[w].targets)
               commands == {CommandOf(s, row[s]) : s \in chosen}
    <3>1. chosen \subseteq Servers BY DEF PendingTargets, Task
    <3>2. commands \subseteq Command BY <3>1, CommandOfType
    <3>3. [IdleTask EXCEPT !.pc = "publish", !.kind = "create", !.todo = commands] \in Task
      BY <3>2 DEF IdleTask, Task
    <3> QED BY <2>5, <3>3, NullValues DEF Plan, Done
  <2>6. CASE FinishCreate(w)
    BY <2>6, NullValues DEF FinishCreate, Done, ProfileStatuses
  <2>7. CASE RereadNode(w)
    <3>1. {CommandOf(s, row[s]) : s \in task[w].targets} \subseteq Command
      BY CommandOfType DEF Task
    <3>2. [IdleTask EXCEPT !.pc = "publish", !.kind = "admin",
                           !.todo = {CommandOf(s, row[s]) : s \in task[w].targets}] \in Task
      BY <3>1 DEF IdleTask, Task
    <3> QED BY <2>7, <3>2 DEF RereadNode
  <2> QED BY <1>5, <2>1, <2>2, <2>3, <2>4, <2>5, <2>6, <2>7 DEF RequestProgress
<1>6. CASE LoopProgress(w) \/ LoopFault(w)
  <2>1. ASSUME NEW c \in task[w].todo, SkipRow(w, c) PROVE TypeOK'
    BY <2>1 DEF SkipRow, Task
  <2>2. ASSUME NEW c \in task[w].todo, Publish(w, c) \/ PublishFails(w, c) PROVE TypeOK'
    <3>1. c \in Command BY DEF Task
    <3> QED BY <2>2, <3>1 DEF Publish, PublishFails, Task
  <2>3. ASSUME NEW stored \in BOOLEAN, Mark(w, stored) PROVE TypeOK'
    <3>1. \A c \in task[w].current : c.server \in Servers BY DEF Task, Command
    <3>2. row' \in [Servers -> Row]
      BY <2>3, <3>1 DEF Mark, MarkedPublishFailed, Row, RowStatuses
    <3>3. task' \in [Workers -> Task] BY <2>3 DEF Mark, Task
    <3> QED BY <2>3, <3>2, <3>3 DEF Mark
  <2>4. CASE EndLoop(w) BY <2>4, NullValues DEF EndLoop, Step, Done, Task
  <2> QED BY <1>6, <2>1, <2>2, <2>3, <2>4 DEF LoopProgress, LoopFault
<1>7. CASE Abandon(w) BY <1>7, NullValues DEF Abandon, Done
<1>8. CASE \E due \in SUBSET Servers : StartReconcile(w, due)
  <2> PICK due \in SUBSET Servers : StartReconcile(w, due) BY <1>8
  <2>1. {CommandOf(s, row[s]) : s \in due} \subseteq Command BY CommandOfType
  <2>2. [IdleTask EXCEPT !.pc = "publish",
                         !.todo = {CommandOf(s, row[s]) : s \in due}] \in Task
    BY <2>1 DEF IdleTask, Task
  <2> QED BY <2>2 DEF StartReconcile
<1> QED BY <1>2, <1>3, <1>4, <1>5, <1>6, <1>7, <1>8 DEF RequestStep, ReconcileStep

\* The steps of the result consumer keep every type.
LEMMA TypeConsumer == TypeOK /\ ConsumerProgress => TypeOK'
<1> SUFFICES ASSUME TypeOK, ConsumerProgress PROVE TypeOK' OBVIOUS
<1> USE DEF TypeOK
<1>0. \A e \in consumer.result : e \in Result /\ e.job \in Servers
  BY DEF Consumer, Result
<1>1. ASSUME NEW r \in results, AckIgnored(r) PROVE TypeOK' BY <1>1 DEF AckIgnored
<1>2. ASSUME NEW r \in results, TakeResult(r) PROVE TypeOK'
  <2>1. r \in Result /\ row[r.job].action \in AdminActions \cup {NoAction}
    BY DEF Result, Row
  <2>2. consumer' \in Consumer
    BY <1>2, <2>1, NullValues DEF TakeResult, IdleConsumer, Consumer
  <2> QED BY <1>2, <2>2 DEF TakeResult
<1>3. CASE ApplyProfileNodeActionResult
  <2>0. \A a, ok : ActionOutcome(a, ok) \in RowStatuses BY DEF ActionOutcome, RowStatuses
  <2>1. PICK e \in consumer.result :
          row' = [row EXCEPT ![e.job] =
                    [@ EXCEPT !.status = ActionOutcome(consumer.pending, e.ok),
                              !.action = NoAction]]
    BY <1>3 DEF ApplyProfileNodeActionResult
  <2>2. row[e.job] \in Row BY <1>0
  <2>3. [row[e.job] EXCEPT !.status = ActionOutcome(consumer.pending, e.ok),
                           !.action = NoAction] \in Row
    BY <2>0, <2>2 DEF Row
  <2>4. row' \in [Servers -> Row] BY <2>1, <2>3
  <2>5. consumer' \in Consumer
    BY <1>3, NullValues DEF ApplyProfileNodeActionResult, Consumer
  <2> QED BY <1>3, <2>4, <2>5 DEF ApplyProfileNodeActionResult
<1>4. CASE TakeRow
  <2>1. consumer' \in Consumer BY <1>0, <1>4 DEF TakeRow, Consumer
  <2> QED BY <1>4, <2>1 DEF TakeRow
<1>5. CASE SaveRow
  <2>1. \A e \in consumer.result : SavedRow(e) \in Row
    BY DEF SavedRow, ResultStatus, Consumer, Row, RowStatuses
  <2>2. row' \in [Servers -> Row] BY <1>0, <1>5, <2>1 DEF SaveRow
  <2>3. consumer' \in Consumer BY <1>5, NullValues DEF SaveRow, Consumer
  <2> QED BY <1>5, <2>2, <2>3 DEF SaveRow
<1>6. CASE Recalculate
  BY <1>6, RecalculatedType DEF Recalculate, Consumer, IsUsable
<1>7. CASE UpdateProfileResult
  <2>1. profile' \in [status: ProfileStatuses, notified: BOOLEAN]
    BY <1>7 DEF UpdateProfileResult, StoredProfile, Consumer
  <2>2. consumer' \in Consumer
    BY <1>7, NullValues DEF UpdateProfileResult, Consumer, ProfileStatuses
  <2> QED BY <1>7, <2>1, <2>2 DEF UpdateProfileResult
<1>8. CASE Notify BY <1>8, NullValues DEF Notify
<1> QED BY <1>1, <1>2, <1>3, <1>4, <1>5, <1>6, <1>7, <1>8 DEF ConsumerProgress

\* Agents, the broker, a crash and eligibility changes keep every type.
LEMMA TypeEnvironment == TypeOK /\ EnvironmentStep => TypeOK'
<1> SUFFICES ASSUME TypeOK, EnvironmentStep PROVE TypeOK' OBVIOUS
<1> USE DEF TypeOK
<1>1. CASE Crash BY <1>1, NullValues DEF Crash
<1>2. CASE HandlerError BY <1>2, NullValues DEF HandlerError
<1>3. ASSUME NEW c \in cmds, LoseCommand(c) PROVE TypeOK' BY <1>3 DEF LoseCommand
<1>4. ASSUME NEW c \in cmds, NEW r \in Reports(c), NEW kept \in BOOLEAN,
             AgentExecutes(c, r, kept)
      PROVE  TypeOK'
  <2>1. c \in Command /\ r \in Result BY DEF Reports
  <2>2. acked' \in [Servers -> SUBSET Actions]
    BY <1>4, <2>1 DEF AgentExecutes, Recorded, Command
  <2> QED BY <1>4, <2>1, <2>2 DEF AgentExecutes
<1>5. ASSUME NEW s \in Flapping, ToggleEligible(s) PROVE TypeOK'
  BY <1>5, ConstantsAssumption DEF ToggleEligible
<1> QED BY <1>1, <1>2, <1>3, <1>4, <1>5 DEF EnvironmentStep, AgentProgress

\* Every variable keeps its type.
THEOREM TypeCorrect == Spec => []TypeOK
<1>1. TypeOK /\ [Next]_vars => TypeOK'
  <2> SUFFICES ASSUME TypeOK, [Next]_vars PROVE TypeOK' OBVIOUS
  <2>1. CASE UNCHANGED vars BY <2>1 DEF TypeOK, vars
  <2>2. ASSUME NEW w \in Requests, RequestStep(w) PROVE TypeOK'
    BY <2>2, TypeRequest DEF Workers
  <2>3. ASSUME NEW w \in Crons, ReconcileStep(w) PROVE TypeOK'
    BY <2>3, TypeRequest DEF Workers
  <2> QED BY <2>1, <2>2, <2>3, TypeConsumer, TypeEnvironment DEF Next
<1> QED BY <1>1, TypeInit, PTL DEF Spec

-----------------------------------------------------------------------------
(***************************************************************************)
(* What the steps of the requests and of the environment can touch         *)
(***************************************************************************)

\* The four things a request or the reconciler does to a row: nothing, insert
\* it, make it pending again, prepare an administrative action.
RowStep(s) ==
    \/ row'[s] = row[s]
    \/ ~Exists(s) /\ row'[s] = [NoRow EXCEPT !.status = "pending"]
    \/ row'[s] = [row[s] EXCEPT !.status = "pending"]
    \/ \E d \in DesiredInputs :
          row'[s] = [status |-> "pending", desired |-> d, action |-> ActionFor(d)]

\* EnsureProfileNodes does one of those four things to every row.
LEMMA EnsuredRowStep ==
    ASSUME NEW w \in Workers, NEW s \in Servers,
           \A t \in task[w].fresh : ~Exists(t),
           row'[s] = EnsuredRow(w, s, row[s])
    PROVE  RowStep(s)
BY DEF EnsuredRow, RowStep

\* Requests and the reconciler never touch results, histories of the agents,
\* the consumer or the notification.
LEMMA RequestEffect ==
    ASSUME TypeOK, NEW w \in Workers, RequestStep(w) \/ ReconcileStep(w)
    PROVE  /\ \A s \in Servers : RowStep(s)
           /\ UNCHANGED <<results, acked, notices, consumer>>
           /\ profile'.notified = profile.notified
<1> DEFINE Frame == /\ UNCHANGED <<results, acked, notices, consumer>>
                    /\ profile'.notified = profile.notified
           Same == (\A s \in Servers : RowStep(s)) /\ Frame
<1>0. UNCHANGED <<row, profile, results, acked, notices, consumer>> => Same
  BY DEF RowStep
<1>1. CASE RequestCreateAll(w) BY <1>0, <1>1 DEF RequestCreateAll, BeginCreate
<1>2. CASE \E s \in Servers : RequestCreateOn(w, s)
  BY <1>0, <1>2 DEF RequestCreateOn, BeginCreate
<1>3. CASE \E s \in Servers, d \in DesiredInputs : RequestConnectionState(w, s, d)
  <2> PICK s \in Servers, d \in DesiredInputs : RequestConnectionState(w, s, d) BY <1>3
  <2>1. row' = [row EXCEPT ![s] = [status |-> "pending", desired |-> d,
                                   action |-> ActionFor(d)]]
    BY DEF RequestConnectionState
  <2>2. ASSUME NEW t \in Servers PROVE RowStep(t) BY <2>1 DEF RowStep, TypeOK
  <2>3. Frame BY DEF RequestConnectionState
  <2> QED BY <2>2, <2>3
<1>4. CASE RequestProgress(w)
  <2>1. CASE RejectCreate(w) BY <2>1 DEF RejectCreate, RowStep, TypeOK
  <2>2. CASE EnsureTake(w) BY <1>0, <2>2 DEF EnsureTake
  <2>3. CASE EnsureCommit(w)
    <3>1. ASSUME NEW s \in Servers PROVE RowStep(s)
      BY <2>3, EnsuredRowStep DEF EnsureCommit
    <3> QED BY <2>3, <3>1 DEF EnsureCommit
  <2>4. CASE EnsureConflict(w) BY <1>0, <2>4 DEF EnsureConflict
  <2>5. CASE Plan(w) BY <1>0, <2>5 DEF Plan
  <2>6. CASE FinishCreate(w) BY <2>6 DEF FinishCreate, RowStep, TypeOK
  <2>7. CASE RereadNode(w) BY <1>0, <2>7 DEF RereadNode
  <2> QED BY <1>4, <2>1, <2>2, <2>3, <2>4, <2>5, <2>6, <2>7 DEF RequestProgress
<1>5. CASE LoopProgress(w) \/ LoopFault(w)
  <2>1. ASSUME NEW c \in task[w].todo,
               SkipRow(w, c) \/ Publish(w, c) \/ PublishFails(w, c)
        PROVE  Same
    BY <1>0, <2>1 DEF SkipRow, Publish, PublishFails
  <2>2. ASSUME NEW stored \in BOOLEAN, Mark(w, stored) PROVE Same
    <3>1. PICK c \in task[w].current :
            row' = IF stored /\ ~task[w].sent
                   THEN [row EXCEPT ![c.server] = MarkedPublishFailed(@)] ELSE row
      BY <2>2 DEF Mark
    <3>2. ASSUME NEW s \in Servers PROVE RowStep(s)
      BY <3>1 DEF MarkedPublishFailed, RowStep, TypeOK
    <3> QED BY <2>2, <3>2 DEF Mark
  <2>3. CASE EndLoop(w) BY <1>0, <2>3 DEF EndLoop
  <2> QED BY <1>5, <2>1, <2>2, <2>3 DEF LoopProgress, LoopFault
<1>6. CASE Abandon(w) BY <1>0, <1>6 DEF Abandon
<1>7. CASE \E due \in SUBSET Servers : StartReconcile(w, due)
  BY <1>0, <1>7 DEF StartReconcile
<1> QED BY <1>1, <1>2, <1>3, <1>4, <1>5, <1>6, <1>7 DEF RequestStep, ReconcileStep

\* Outside the panel nothing is written to the database; results only pile up.
LEMMA EnvironmentEffect ==
    ASSUME TypeOK, EnvironmentStep
    PROVE  /\ UNCHANGED <<row, profile, notices, requested>>
           /\ consumer' = consumer \/ consumer' = IdleConsumer
           /\ results \subseteq results'
           /\ \A s \in Servers : acked[s] \subseteq acked'[s]
           /\ \A r \in results' \ results :
                 /\ r.action = NoAction => OmitsCommandType
                 /\ r.ok /\ r.server \in Audited
                       => /\ acked'[r.server] # {}
                          /\ r.action # NoAction => r.action \in acked'[r.server]
<1>1. CASE Crash BY <1>1 DEF Crash
<1>2. CASE HandlerError BY <1>2 DEF HandlerError
<1>3. ASSUME NEW c \in cmds, LoseCommand(c) PROVE UNCHANGED <<row, profile, notices,
             requested, consumer, results, acked>>
  BY <1>3 DEF LoseCommand
<1>4. ASSUME NEW s \in Flapping, ToggleEligible(s) PROVE UNCHANGED <<row, profile,
             notices, requested, consumer, results, acked>>
  BY <1>4 DEF ToggleEligible
<1>5. ASSUME NEW c \in cmds, NEW r \in Reports(c), NEW kept \in BOOLEAN,
             AgentExecutes(c, r, kept)
      PROVE  /\ UNCHANGED <<row, profile, notices, requested, consumer>>
             /\ results' = results \cup {r}
             /\ \A s \in Servers : acked[s] \subseteq acked'[s]
             /\ r.action = NoAction => OmitsCommandType
             /\ r.ok /\ r.server \in Audited
                   => /\ acked'[r.server] # {}
                      /\ r.action # NoAction => r.action \in acked'[r.server]
  <2>1. c.server \in Servers /\ c.action # NoAction
    BY DEF TypeOK, Command, Actions, AdminActions, NoAction
  <2>2. /\ r.server = c.server
        /\ r.action = c.action \/ (OmitsCommandType /\ r.action = NoAction)
    BY DEF Reports
  <2>3. r.ok /\ c.server \in Audited =>
           acked' = [acked EXCEPT ![c.server] = @ \cup {c.action}]
    BY <1>5 DEF AgentExecutes, Recorded
  <2>4. \A s \in Servers : acked[s] \subseteq acked'[s]
    BY <1>5, <2>1 DEF AgentExecutes, Recorded, TypeOK
  <2>5. r.ok /\ r.server \in Audited
           => /\ acked'[r.server] # {}
              /\ r.action # NoAction => r.action \in acked'[r.server]
    BY <2>1, <2>2, <2>3 DEF TypeOK
  <2> QED BY <1>5, <2>1, <2>2, <2>4, <2>5 DEF AgentExecutes
<1> QED BY <1>1, <1>2, <1>3, <1>4, <1>5 DEF EnvironmentStep, AgentProgress

-----------------------------------------------------------------------------
(***************************************************************************)
(* Desired state and pending action                                        *)
(***************************************************************************)

Matches(r) == r.action # NoAction => r.action = ActionFor(r.desired)

\* The consumer may write its copy over the row at any later time, so the copy
\* has to match as well.
PairInv == (\A s \in Servers : Matches(row[s])) /\ Matches(consumer.copy)

\* Every step keeps action and desired state together, in the rows and in the copy.
LEMMA PairStep == TypeOK /\ PairInv /\ [Next]_vars => PairInv'
<1> SUFFICES ASSUME TypeOK, PairInv, [Next]_vars PROVE PairInv' OBVIOUS
<1>0. Matches(NoRow) BY DEF Matches, NoRow
<1>1. CASE UNCHANGED vars BY <1>1 DEF PairInv, vars, Matches
<1>2. ASSUME NEW w \in Workers, RequestStep(w) \/ ReconcileStep(w) PROVE PairInv'
  <2>1. ASSUME NEW s \in Servers, RowStep(s) PROVE Matches(row'[s])
    <3>1. ASSUME NEW d \in DesiredInputs,
                 row'[s] = [status |-> "pending", desired |-> d, action |-> ActionFor(d)]
          PROVE  Matches(row'[s])
      BY <3>1 DEF Matches
    <3>2. CASE row'[s] = [row[s] EXCEPT !.status = "pending"]
      BY <3>2 DEF PairInv, Matches, TypeOK, Row
    <3>3. CASE row'[s] = row[s] BY <3>3 DEF PairInv, Matches
    <3>4. CASE row'[s] = [NoRow EXCEPT !.status = "pending"]
      BY <3>4 DEF NoRow, Matches
    <3> QED BY <2>1, <3>1, <3>2, <3>3, <3>4 DEF RowStep
  <2> QED BY <1>2, <2>1, RequestEffect DEF PairInv, Matches
<1>3. CASE ConsumerProgress
  <2>1. ASSUME NEW r \in results, AckIgnored(r) PROVE PairInv'
    BY <2>1 DEF AckIgnored, PairInv, Matches
  <2>2. ASSUME NEW r \in results, TakeResult(r) PROVE PairInv'
    <3>1. consumer'.copy = NoRow BY <2>2 DEF TakeResult, IdleConsumer
    <3> QED BY <1>0, <2>2, <3>1 DEF TakeResult, PairInv, Matches
  <2>3. CASE ApplyProfileNodeActionResult
    <3>1. consumer'.copy = NoRow BY <2>3 DEF ApplyProfileNodeActionResult, TypeOK, Consumer
    <3>2. PICK e \in consumer.result :
            row' = [row EXCEPT ![e.job] =
                      [@ EXCEPT !.status = ActionOutcome(consumer.pending, e.ok),
                                !.action = NoAction]]
      BY <2>3 DEF ApplyProfileNodeActionResult
    <3>3. ASSUME NEW s \in Servers PROVE Matches(row'[s])
      BY <3>2 DEF PairInv, Matches, TypeOK, Row
    <3> QED BY <1>0, <3>1, <3>3 DEF PairInv, Matches
  <2>4. CASE TakeRow
    <3>1. \A e \in consumer.result : e.job \in Servers BY DEF TypeOK, Consumer, Result
    <3>2. consumer'.copy = consumer.copy \/ \E s \in Servers : consumer'.copy = row[s]
      BY <2>4, <3>1 DEF TakeRow, TypeOK, Consumer
    <3> QED BY <2>4, <3>2 DEF TakeRow, PairInv, Matches
  <2>5. CASE SaveRow
    <3>1. PICK e \in consumer.result : row' = [row EXCEPT ![e.job] = SavedRow(e)]
      BY <2>5 DEF SaveRow
    <3>2. Matches(SavedRow(e))
      BY DEF SavedRow, PairInv, Matches, TypeOK, Consumer, Row
    <3>3. consumer'.copy = NoRow BY <2>5 DEF SaveRow, TypeOK, Consumer
    <3>4. ASSUME NEW s \in Servers PROVE Matches(row'[s])
      BY <3>1, <3>2 DEF PairInv, TypeOK
    <3> QED BY <1>0, <3>3, <3>4 DEF PairInv, Matches
  <2>6. CASE Recalculate
    BY <2>6 DEF Recalculate, PairInv, Matches, TypeOK, Consumer
  <2>7. CASE UpdateProfileResult
    <3>1. consumer'.copy \in {consumer.copy, NoRow}
      <4>1. CASE consumer.tell BY <2>7, <4>1 DEF UpdateProfileResult, TypeOK, Consumer
      <4>2. CASE ~consumer.tell BY <2>7, <4>2 DEF UpdateProfileResult, IdleConsumer
      <4> QED BY <4>1, <4>2
    <3> QED BY <1>0, <2>7, <3>1 DEF UpdateProfileResult, PairInv, Matches
  <2>8. CASE Notify
    <3>1. consumer'.copy = NoRow BY <2>8 DEF Notify, IdleConsumer
    <3> QED BY <1>0, <2>8, <3>1 DEF Notify, PairInv, Matches
  <2> QED BY <1>3, <2>1, <2>2, <2>3, <2>4, <2>5, <2>6, <2>7, <2>8 DEF ConsumerProgress
<1>4. CASE EnvironmentStep
  <2>1. row' = row /\ consumer'.copy \in {consumer.copy, NoRow}
    BY <1>4, EnvironmentEffect DEF IdleConsumer
  <2> QED BY <1>0, <2>1 DEF PairInv, Matches
<1> QED BY <1>1, <1>2, <1>3, <1>4 DEF Next, Workers

\* No partial update or full-row Save tears desired_state and pending_action apart.
THEOREM PendingActionMatches == Spec => []PendingActionMatchesDesired
<1>1. Init => PairInv
  BY DEF Init, PairInv, Matches, NoRow, IdleConsumer
<1>2. PairInv => PendingActionMatchesDesired
  BY DEF PairInv, Matches, PendingActionMatchesDesired
<1> QED BY <1>1, <1>2, PairStep, TypeCorrect, PTL DEF Spec

-----------------------------------------------------------------------------
(***************************************************************************)
(* At most one notification                                                *)
(***************************************************************************)

\* notified_at is stored before the message is sent, so nothing is sent when
\* it is already there.
NotifyInv ==
    /\ notices \in {0, 1}
    /\ notices = 1 => profile.notified
    /\ consumer.pc = "store" /\ consumer.tell => ~profile.notified
    /\ consumer.pc = "notify" => notices = 0 /\ profile.notified

\* Every step keeps the notification behind notified_at.
LEMMA NotifyStep == TypeOK /\ NotifyInv /\ [Next]_vars => NotifyInv'
<1> SUFFICES ASSUME TypeOK, NotifyInv, [Next]_vars PROVE NotifyInv' OBVIOUS
<1> USE DEF NotifyInv
<1>1. CASE UNCHANGED vars BY <1>1 DEF vars
<1>2. ASSUME NEW w \in Workers, RequestStep(w) \/ ReconcileStep(w) PROVE NotifyInv'
  BY <1>2, RequestEffect
<1>3. CASE ConsumerProgress
  <2>1. ASSUME NEW r \in results, AckIgnored(r) PROVE NotifyInv' BY <2>1 DEF AckIgnored
  <2>2. ASSUME NEW r \in results, TakeResult(r) PROVE NotifyInv'
    <3>1. consumer'.pc \in {"take", "action"} BY <2>2 DEF TakeResult, IdleConsumer
    <3> QED BY <2>2, <3>1 DEF TakeResult
  <2>3. CASE ApplyProfileNodeActionResult
    BY <2>3 DEF ApplyProfileNodeActionResult, TypeOK, Consumer
  <2>4. CASE TakeRow
    <3>1. consumer'.pc \in {"recalc", "save"} BY <2>4 DEF TakeRow, TypeOK, Consumer
    <3> QED BY <2>4, <3>1 DEF TakeRow
  <2>5. CASE SaveRow BY <2>5 DEF SaveRow, TypeOK, Consumer
  <2>6. CASE Recalculate
    <3>1. consumer'.pc = "store" /\ (consumer'.tell => ~profile.notified)
      BY <2>6 DEF Recalculate, TypeOK, Consumer
    <3> QED BY <2>6, <3>1 DEF Recalculate
  <2>7. CASE UpdateProfileResult
    <3>1. /\ profile.notified => profile'.notified
          /\ consumer.tell => profile'.notified
      BY <2>7 DEF UpdateProfileResult, StoredProfile
    <3>2. CASE consumer.tell
      BY <2>7, <3>1, <3>2 DEF UpdateProfileResult, TypeOK, Consumer
    <3>3. CASE ~consumer.tell
      BY <2>7, <3>1, <3>3 DEF UpdateProfileResult, IdleConsumer
    <3> QED BY <3>2, <3>3
  <2>8. CASE Notify BY <2>8 DEF Notify, IdleConsumer
  <2> QED BY <1>3, <2>1, <2>2, <2>3, <2>4, <2>5, <2>6, <2>7, <2>8 DEF ConsumerProgress
<1>4. CASE EnvironmentStep BY <1>4, EnvironmentEffect DEF IdleConsumer
<1> QED BY <1>1, <1>2, <1>3, <1>4 DEF Next, Workers

\* The user is told at most once, through crashes and redelivered results.
THEOREM NotifiedOnce == Spec => []NotifiedAtMostOnce
<1>1. Init => NotifyInv BY DEF Init, NotifyInv, IdleConsumer
<1>2. NotifyInv => NotifiedAtMostOnce BY DEF NotifyInv, NotifiedAtMostOnce
<1> QED BY <1>1, <1>2, NotifyStep, TypeCorrect, PTL DEF Spec

-----------------------------------------------------------------------------
(***************************************************************************)
(* What rows say is what agents acknowledged                               *)
(***************************************************************************)

\* A waiting result is backed by the history of the agent that sent it.
ResultsAreBacked ==
    \A r \in results :
        /\ r.action = NoAction => OmitsCommandType
        /\ r.ok /\ r.server \in Audited
              => /\ acked[r.server] # {}
                 /\ r.action # NoAction => r.action \in acked[r.server]

\* The result in hand passed the guards.  The row may change under it, but
\* only the consumer clears a pending action and only it makes a row successful.
ConsumerGuards ==
    /\ consumer.result \subseteq results
    /\ consumer.pc = "idle" => consumer.result = {}
    /\ \A e, f \in consumer.result : e = f
    /\ \A e \in consumer.result : e.server = e.job /\ Exists(e.job)
    /\ consumer.pc = "action" =>
          \A e \in consumer.result : /\ e.action \in {NoAction, consumer.pending}
                                     /\ consumer.pending # NoAction
                                     /\ row[e.job].action # NoAction
    /\ consumer.pc = "save" =>
          \A e \in consumer.result : e.ok \/ row[e.job].status # "success"

ResultInv == ResultsAreBacked /\ ConsumerGuards /\ StatusIsAcknowledged

\* Only the consumer removes results, and only when it has done with them.
LEMMA ConsumerEffect ==
    ASSUME ConsumerProgress
    PROVE  acked' = acked /\ results' \subseteq results
BY DEF ConsumerProgress, AckIgnored, TakeResult, ApplyProfileNodeActionResult,
       TakeRow, SaveRow, Recalculate, UpdateProfileResult, Notify

\* A row that exists goes on existing, keeps its pending action and never
\* becomes anything but pending, unless the consumer writes it.
LEMMA RowStepFacts ==
    ASSUME NEW s \in Servers, TypeOK, RowStep(s)
    PROVE  /\ row'[s].status \in {row[s].status, "pending"}
           /\ Exists(s) => Exists(s)'
           /\ Exists(s) /\ row[s].action # NoAction => row'[s].action # NoAction
<1>1. CASE row'[s] = row[s] BY <1>1 DEF Exists
<1>2. CASE ~Exists(s) /\ row'[s] = [NoRow EXCEPT !.status = "pending"]
  BY <1>2 DEF Exists, NoRow
<1>3. CASE row'[s] = [row[s] EXCEPT !.status = "pending"]
  BY <1>3 DEF Exists, TypeOK, Row
<1>4. ASSUME NEW d \in DesiredInputs,
             row'[s] = [status |-> "pending", desired |-> d, action |-> ActionFor(d)]
      PROVE  /\ row'[s].status = "pending" /\ Exists(s)'
             /\ row'[s].action # NoAction
  <2>1. ActionFor(d) # NoAction
    BY ConstantsAssumption, ActionForType DEF AdminActions, NoAction
  <2> QED BY <1>4, <2>1 DEF Exists
<1> QED BY <1>1, <1>2, <1>3, <1>4 DEF RowStep

\* Every step keeps waiting results backed: histories only grow.
LEMMA BackedStep == TypeOK /\ ResultsAreBacked /\ [Next]_vars => ResultsAreBacked'
<1> SUFFICES ASSUME TypeOK, ResultsAreBacked, [Next]_vars PROVE ResultsAreBacked' OBVIOUS
<1> USE DEF ResultsAreBacked
<1>0. \A r \in results : r.server \in Servers BY DEF TypeOK, Result
<1>1. CASE UNCHANGED vars BY <1>1 DEF vars
<1>2. ASSUME NEW w \in Workers, RequestStep(w) \/ ReconcileStep(w) PROVE ResultsAreBacked'
  BY <1>2, RequestEffect
<1>3. CASE ConsumerProgress BY <1>3, ConsumerEffect
<1>4. CASE EnvironmentStep
  <2> SUFFICES ASSUME NEW r \in results'
               PROVE  /\ r.action = NoAction => OmitsCommandType
                      /\ r.ok /\ r.server \in Audited
                            => /\ acked'[r.server] # {}
                               /\ r.action # NoAction => r.action \in acked'[r.server]
    OBVIOUS
  <2>1. CASE r \in results
    <3>1. acked[r.server] \subseteq acked'[r.server]
      BY <1>0, <1>4, <2>1, EnvironmentEffect
    <3> QED BY <2>1, <3>1
  <2>2. CASE r \notin results BY <1>4, <2>2, EnvironmentEffect
  <2> QED BY <2>1, <2>2
<1> QED BY <1>1, <1>2, <1>3, <1>4 DEF Next, Workers

\* What the consumer checked of its row stays true until it writes the row.
LEMMA GuardsStep == TypeOK /\ ConsumerGuards /\ [Next]_vars => ConsumerGuards'
<1> SUFFICES ASSUME TypeOK, ConsumerGuards, [Next]_vars PROVE ConsumerGuards' OBVIOUS
<1> USE DEF ConsumerGuards
<1>0. \A e \in consumer.result : e.job \in Servers BY DEF TypeOK, Consumer, Result
<1>1. CASE UNCHANGED vars BY <1>1 DEF vars, Exists
<1>2. ASSUME NEW w \in Workers, RequestStep(w) \/ ReconcileStep(w) PROVE ConsumerGuards'
  <2>1. \A e \in consumer.result :
           /\ row'[e.job].status \in {row[e.job].status, "pending"}
           /\ Exists(e.job)'
           /\ row[e.job].action # NoAction => row'[e.job].action # NoAction
    BY <1>0, <1>2, RequestEffect, RowStepFacts
  <2>2. consumer' = consumer /\ results' = results BY <1>2, RequestEffect
  <2> QED BY <2>1, <2>2 DEF Exists
<1>3. ASSUME consumer' = IdleConsumer PROVE ConsumerGuards' BY <1>3 DEF IdleConsumer
<1>4. CASE ConsumerProgress
  <2>1. ASSUME NEW r \in results, AckIgnored(r) PROVE ConsumerGuards'
    BY <2>1 DEF AckIgnored, Exists
  <2>2. ASSUME NEW r \in results, TakeResult(r) PROVE ConsumerGuards'
    <3>1. /\ Exists(r.job) /\ r.server = r.job
          /\ row[r.job].action = NoAction \/ r.action \in {NoAction, row[r.job].action}
      BY <2>2 DEF TakeResult, Ignored
    <3>2. /\ consumer'.result = {r} /\ consumer'.pending = row[r.job].action
          /\ consumer'.pc = IF row[r.job].action = NoAction THEN "take" ELSE "action"
      BY <2>2 DEF TakeResult, IdleConsumer
    <3>3. row' = row /\ results' = results BY <2>2 DEF TakeResult
    <3> QED BY <3>1, <3>2, <3>3 DEF Exists
  <2>3. CASE ApplyProfileNodeActionResult
    <3>1. PICK e \in consumer.result :
            row' = [row EXCEPT ![e.job] =
                      [@ EXCEPT !.status = ActionOutcome(consumer.pending, e.ok),
                                !.action = NoAction]]
      BY <2>3 DEF ApplyProfileNodeActionResult
    <3>2. ActionOutcome(consumer.pending, e.ok) # "none" BY DEF ActionOutcome
    <3>3. \A s \in Servers : Exists(s) => Exists(s)'
      BY <3>1, <3>2 DEF Exists, TypeOK, Row
    <3>4. consumer'.pc = "recalc" /\ consumer'.result = consumer.result
      BY <2>3 DEF ApplyProfileNodeActionResult, TypeOK, Consumer
    <3>5. results' = results BY <2>3 DEF ApplyProfileNodeActionResult
    <3> QED BY <1>0, <3>3, <3>4, <3>5
  <2>4. CASE TakeRow
    <3>1. PICK e \in consumer.result :
            consumer' = IF LateFailure(e) THEN [consumer EXCEPT !.pc = "recalc"]
                        ELSE [consumer EXCEPT !.pc = "save", !.copy = row[e.job]]
      BY <2>4 DEF TakeRow
    <3>2. consumer'.result = consumer.result /\ consumer'.pc \in {"recalc", "save"}
      BY <3>1 DEF TypeOK, Consumer
    <3>3. ASSUME consumer'.pc = "save" PROVE e.ok \/ row[e.job].status # "success"
      BY <3>1, <3>3 DEF LateFailure, TypeOK, Consumer
    <3>4. \A f \in consumer.result : f = e OBVIOUS
    <3> QED BY <2>4, <3>2, <3>3, <3>4 DEF TakeRow, Exists
  <2>5. CASE SaveRow
    <3>1. PICK e \in consumer.result : row' = [row EXCEPT ![e.job] = SavedRow(e)]
      BY <2>5 DEF SaveRow
    <3>2. SavedRow(e).status # "none"
      BY DEF SavedRow, ResultStatus, TypeOK, Consumer, Row
    <3>3. \A s \in Servers : Exists(s) => Exists(s)'
      BY <3>1, <3>2 DEF Exists, TypeOK
    <3>4. consumer'.pc = "recalc" /\ consumer'.result = consumer.result
      BY <2>5 DEF SaveRow, TypeOK, Consumer
    <3> QED BY <1>0, <2>5, <3>3, <3>4 DEF SaveRow
  <2>6. CASE Recalculate
    <3>1. consumer'.pc = "store" /\ consumer'.result = consumer.result
      BY <2>6 DEF Recalculate, TypeOK, Consumer
    <3> QED BY <2>6, <3>1 DEF Recalculate, Exists
  <2>7. CASE UpdateProfileResult
    <3>1. CASE consumer.tell
      <4>1. consumer'.pc = "notify" /\ consumer'.result = consumer.result
        BY <2>7, <3>1 DEF UpdateProfileResult, TypeOK, Consumer
      <4> QED BY <2>7, <3>1, <4>1 DEF UpdateProfileResult, Exists
    <3>2. CASE ~consumer.tell BY <1>3, <2>7, <3>2 DEF UpdateProfileResult
    <3> QED BY <3>1, <3>2
  <2>8. CASE Notify BY <1>3, <2>8 DEF Notify
  <2> QED BY <1>4, <2>1, <2>2, <2>3, <2>4, <2>5, <2>6, <2>7, <2>8 DEF ConsumerProgress
<1>5. CASE EnvironmentStep
  <2>1. row' = row /\ results \subseteq results' BY <1>5, EnvironmentEffect
  <2>2. CASE consumer' = consumer BY <2>1, <2>2 DEF Exists
  <2> QED BY <1>3, <1>5, <2>2, EnvironmentEffect
<1> QED BY <1>1, <1>2, <1>4, <1>5 DEF Next, Workers

\* StatusIsAcknowledged, one server at a time.
Acknowledged(s) ==
    /\ row[s].status = "success" => acked[s] # {}
    /\ row[s].status = "disabled" =>
          IF OmitsCommandType THEN acked[s] # {} ELSE "disable_client" \in acked[s]
    /\ row[s].status = "deleted" =>
          IF OmitsCommandType THEN acked[s] # {} ELSE "delete_client" \in acked[s]

\* StatusIsAcknowledged says Acknowledged of every audited server.
LEMMA AcknowledgedAll == StatusIsAcknowledged <=> \A s \in Audited : Acknowledged(s)
BY DEF StatusIsAcknowledged, Acknowledged

\* A row gets a status that reports an acknowledgement only from a backed result.
LEMMA StatusStep == TypeOK /\ ResultInv /\ [Next]_vars => StatusIsAcknowledged'
<1> SUFFICES ASSUME TypeOK, ResultInv, [Next]_vars,
                    NEW s \in Audited
             PROVE  Acknowledged(s)'
  BY DEF StatusIsAcknowledged, Acknowledged
<1>0. Acknowledged(s) /\ s \in Servers
  BY AcknowledgedAll, ConstantsAssumption DEF ResultInv
<1>1. ASSUME row'[s].status \in {row[s].status, "pending"}, acked[s] \subseteq acked'[s]
      PROVE  Acknowledged(s)'
  BY <1>0, <1>1 DEF Acknowledged
<1>2. CASE UNCHANGED vars BY <1>1, <1>2 DEF vars
<1>3. ASSUME NEW w \in Workers, RequestStep(w) \/ ReconcileStep(w) PROVE Acknowledged(s)'
  BY <1>0, <1>1, <1>3, RequestEffect, RowStepFacts
<1>4. CASE ConsumerProgress
  <2>0. acked' = acked BY <1>4, ConsumerEffect
  <2>1. CASE ApplyProfileNodeActionResult
    <3>1. PICK e \in consumer.result :
            row' = [row EXCEPT ![e.job] =
                      [@ EXCEPT !.status = ActionOutcome(consumer.pending, e.ok),
                                !.action = NoAction]]
      BY <2>1 DEF ApplyProfileNodeActionResult
    <3>2. CASE e.job # s BY <1>1, <2>0, <3>1, <3>2 DEF TypeOK
    <3>3. CASE e.job = s
      <4>1. row'[s].status = ActionOutcome(consumer.pending, e.ok)
        BY <1>0, <3>1, <3>3 DEF TypeOK, Row
      <4>2. /\ e \in results /\ e.server = s
            /\ e.action \in {NoAction, consumer.pending}
            /\ consumer.pending # NoAction
        BY <2>1, <3>3 DEF ResultInv, ConsumerGuards, ApplyProfileNodeActionResult
      <4>3. e.ok => /\ acked[s] # {}
                    /\ OmitsCommandType \/ consumer.pending \in acked[s]
        BY <4>2 DEF ResultInv, ResultsAreBacked
      <4>4. CASE e.ok
        <5>1. CASE consumer.pending = "disable_client"
          BY <2>0, <4>1, <4>3, <4>4, <5>1 DEF Acknowledged, ActionOutcome
        <5>2. CASE consumer.pending = "delete_client"
          BY <2>0, <4>1, <4>3, <4>4, <5>2 DEF Acknowledged, ActionOutcome
        <5>3. CASE consumer.pending \notin {"disable_client", "delete_client"}
          BY <2>0, <4>1, <4>3, <4>4, <5>3 DEF Acknowledged, ActionOutcome
        <5> QED BY <5>1, <5>2, <5>3
      <4>5. CASE ~e.ok BY <4>1, <4>5 DEF Acknowledged, ActionOutcome
      <4> QED BY <4>4, <4>5
    <3> QED BY <3>2, <3>3
  <2>2. CASE SaveRow
    <3>1. PICK e \in consumer.result : row' = [row EXCEPT ![e.job] = SavedRow(e)]
      BY <2>2 DEF SaveRow
    <3>2. CASE e.job # s BY <1>1, <2>0, <3>1, <3>2 DEF TypeOK
    <3>3. CASE e.job = s
      <4>1. row'[s].status = ResultStatus(e)
        BY <1>0, <3>1, <3>3 DEF SavedRow, TypeOK, Consumer, Row
      <4>2. e.ok => acked[s] # {}
        BY <3>3 DEF ResultInv, ResultsAreBacked, ConsumerGuards
      <4> QED BY <2>0, <4>1, <4>2 DEF ResultStatus, Acknowledged
    <3> QED BY <3>2, <3>3
  <2>3. CASE row' = row BY <1>1, <2>0, <2>3
  <2> QED BY <1>4, <2>1, <2>2, <2>3 DEF ConsumerProgress, AckIgnored, TakeResult,
                 TakeRow, Recalculate, UpdateProfileResult, Notify
<1>5. CASE EnvironmentStep BY <1>0, <1>1, <1>5, EnvironmentEffect
<1> QED BY <1>2, <1>3, <1>4, <1>5 DEF Next, Workers

\* The inductive invariant holds of every reachable state.
LEMMA ResultInvariant == Spec => [](TypeOK /\ ResultInv)
<1>1. Init => ResultInv
  <2>1. Init => StatusIsAcknowledged
    BY AcknowledgedAll, ConstantsAssumption DEF Init, Acknowledged, NoRow
  <2> QED BY <2>1 DEF Init, ResultInv, ResultsAreBacked, ConsumerGuards, IdleConsumer
<1>2. TypeOK /\ ResultInv /\ [Next]_vars => ResultInv'
  BY BackedStep, GuardsStep, StatusStep DEF ResultInv
<1> QED BY <1>1, <1>2, TypeCorrect, PTL DEF Spec

\* A row never reports what the agent of its server has not acknowledged.
THEOREM AcknowledgedStatus == Spec => []StatusIsAcknowledged
<1>1. ResultInv => StatusIsAcknowledged BY DEF ResultInv
<1> QED BY <1>1, ResultInvariant, PTL

\* A failure that comes after a success does not downgrade the row.
THEOREM SuccessKept == Spec => LateFailureKeepsSuccess
<1> DEFINE Kept == \A s \in Servers :
                      row[s].status = "success" /\ row'[s].status = "failed"
                          => row[s].action # NoAction
<1>1. TypeOK /\ ResultInv /\ [Next]_vars => [Kept]_vars
  <2> SUFFICES ASSUME TypeOK, ResultInv, [Next]_vars,
                      NEW s \in Servers,
                      row[s].status = "success", row'[s].status = "failed"
               PROVE  row[s].action # NoAction
    OBVIOUS
  <2>1. CASE UNCHANGED vars BY <2>1 DEF vars
  <2>2. ASSUME NEW w \in Workers, RequestStep(w) \/ ReconcileStep(w) PROVE FALSE
    BY <2>2, RequestEffect, RowStepFacts
  <2>3. CASE ConsumerProgress
    <3>1. CASE ApplyProfileNodeActionResult
      <4>1. PICK e \in consumer.result :
              row' = [row EXCEPT ![e.job] =
                        [@ EXCEPT !.status = ActionOutcome(consumer.pending, e.ok),
                                  !.action = NoAction]]
        BY <3>1 DEF ApplyProfileNodeActionResult
      <4>2. row[e.job].action # NoAction
        BY <3>1 DEF ResultInv, ConsumerGuards, ApplyProfileNodeActionResult
      <4> QED BY <4>1, <4>2 DEF TypeOK
    <3>2. CASE SaveRow
      <4>1. PICK e \in consumer.result : row' = [row EXCEPT ![e.job] = SavedRow(e)]
        BY <3>2 DEF SaveRow
      <4>2. e.ok \/ row[e.job].status # "success"
        BY <3>2 DEF ResultInv, ConsumerGuards, SaveRow
      <4>3. SavedRow(e).status = ResultStatus(e)
        BY DEF SavedRow, TypeOK, Consumer, Row
      <4> QED BY <4>1, <4>2, <4>3 DEF ResultStatus, TypeOK
    <3>3. CASE row' = row BY <3>3
    <3> QED BY <2>3, <3>1, <3>2, <3>3 DEF ConsumerProgress, AckIgnored, TakeResult,
                   TakeRow, Recalculate, UpdateProfileResult, Notify
  <2>4. CASE EnvironmentStep BY <2>4, EnvironmentEffect
  <2> QED BY <2>1, <2>2, <2>3, <2>4 DEF Next, Workers
<1> QED BY <1>1, ResultInvariant, PTL DEF Spec, LateFailureKeepsSuccess

-----------------------------------------------------------------------------
(***************************************************************************)
(* "VPN ready" is true                                                     *)
(***************************************************************************)

\* The panel tells a user that a server is ready, or is about to.
Claims ==
    \/ notices > 0 \/ profile.notified \/ IsUsable(profile.status)
    \/ consumer.pc = "notify"
    \/ consumer.pc = "store" /\ (consumer.tell \/ IsUsable(consumer.status))

SomeAcknowledged == \E s \in Servers : acked[s] # {}

ReadyInv == Audited = Servers /\ Claims => SomeAcknowledged

\* Requests make the profile pending or failed, never usable.
LEMMA ProfileEffect ==
    ASSUME TypeOK, NEW w \in Workers, RequestStep(w) \/ ReconcileStep(w)
    PROVE  profile'.status \in {profile.status, "failed", "pending"}
<1>1. CASE RejectCreate(w) BY <1>1 DEF RejectCreate, TypeOK
<1>2. CASE FinishCreate(w) BY <1>2 DEF FinishCreate, TypeOK
<1>3. CASE profile' = profile BY <1>3
<1>4. CASE \/ RequestCreateAll(w)
           \/ \E s \in Servers : RequestCreateOn(w, s)
           \/ \E s \in Servers, d \in DesiredInputs : RequestConnectionState(w, s, d)
           \/ EnsureTake(w) \/ EnsureCommit(w) \/ EnsureConflict(w)
           \/ Plan(w) \/ RereadNode(w) \/ Abandon(w)
  BY <1>3, <1>4 DEF RequestCreateAll, RequestCreateOn, BeginCreate, RequestConnectionState,
     EnsureTake, EnsureCommit, EnsureConflict, Plan, RereadNode, Abandon
<1>5. CASE \/ LoopProgress(w) \/ LoopFault(w)
           \/ \E due \in SUBSET Servers : StartReconcile(w, due)
  BY <1>3, <1>5 DEF LoopProgress, LoopFault, SkipRow, Publish, PublishFails, Mark, EndLoop,
     StartReconcile
<1> QED BY <1>1, <1>2, <1>4, <1>5 DEF RequestStep, ReconcileStep, RequestProgress

\* A usable profile has a successful row.
LEMMA UsableHasSuccess ==
    ASSUME IsUsable(RecalculatedStatus)
    PROVE  \E s \in Servers : row[s].status = "success"
BY DEF IsUsable, RecalculatedStatus

\* Only a recalculation makes a claim, and then some agent has acknowledged.
LEMMA ReadyStep == TypeOK /\ ResultInv /\ ReadyInv /\ [Next]_vars => ReadyInv'
<1> SUFFICES ASSUME TypeOK, ResultInv, ReadyInv, [Next]_vars, Audited = Servers, Claims'
             PROVE  SomeAcknowledged'
  BY DEF ReadyInv
<1>1. SomeAcknowledged => SomeAcknowledged'
  <2>1. \A s \in Servers : acked[s] \subseteq acked'[s]
    <3>1. CASE UNCHANGED vars BY <3>1 DEF vars
    <3>2. ASSUME NEW w \in Workers, RequestStep(w) \/ ReconcileStep(w) PROVE acked' = acked
      BY <3>2, RequestEffect
    <3>3. CASE ConsumerProgress BY <3>3, ConsumerEffect
    <3>4. CASE EnvironmentStep BY <3>4, EnvironmentEffect
    <3> QED BY <3>1, <3>2, <3>3, <3>4 DEF Next, Workers
  <2> QED BY <2>1 DEF SomeAcknowledged
<1>2. ASSUME Claims PROVE SomeAcknowledged BY <1>2 DEF ReadyInv
<1>3. CASE UNCHANGED vars BY <1>1, <1>2, <1>3 DEF vars, Claims
<1>4. ASSUME NEW w \in Workers, RequestStep(w) \/ ReconcileStep(w) PROVE SomeAcknowledged'
  <2>1. profile'.status \in {profile.status, "failed", "pending"} BY <1>4, ProfileEffect
  <2>2. UNCHANGED <<notices, consumer>> /\ profile'.notified = profile.notified
    BY <1>4, RequestEffect
  <2>3. Claims BY <2>1, <2>2 DEF Claims, IsUsable
  <2> QED BY <1>1, <1>2, <2>3
<1>5. CASE ConsumerProgress
  <2>1. CASE \/ \E r \in results : AckIgnored(r)
             \/ \E r \in results : TakeResult(r)
             \/ ApplyProfileNodeActionResult \/ TakeRow \/ SaveRow
    <3>1. UNCHANGED <<profile, notices>>
          /\ (consumer' = consumer \/ consumer'.pc \in {"take", "action", "recalc", "save"})
      <4>1. ASSUME NEW r \in results, AckIgnored(r)
            PROVE  UNCHANGED <<profile, notices, consumer>>
        BY <4>1 DEF AckIgnored
      <4>2. ASSUME NEW r \in results, TakeResult(r)
            PROVE  UNCHANGED <<profile, notices>> /\ consumer'.pc \in {"take", "action"}
        BY <4>2 DEF TakeResult, IdleConsumer
      <4>3. CASE ApplyProfileNodeActionResult
        BY <4>3 DEF ApplyProfileNodeActionResult, TypeOK, Consumer
      <4>4. CASE TakeRow
        <5>1. consumer'.pc \in {"recalc", "save"} BY <4>4 DEF TakeRow, TypeOK, Consumer
        <5> QED BY <4>4, <5>1 DEF TakeRow
      <4>5. CASE SaveRow BY <4>5 DEF SaveRow, TypeOK, Consumer
      <4> QED BY <2>1, <4>1, <4>2, <4>3, <4>4, <4>5
    <3>2. Claims BY <3>1 DEF Claims
    <3> QED BY <1>1, <1>2, <3>2
  <2>2. CASE Recalculate
    <3>1. /\ UNCHANGED <<profile, notices>>
          /\ consumer'.status = RecalculatedStatus
          /\ consumer'.tell => IsUsable(RecalculatedStatus)
          /\ consumer'.pc = "store"
      BY <2>2 DEF Recalculate, TypeOK, Consumer
    <3>2. CASE IsUsable(RecalculatedStatus)
      <4>1. PICK s \in Servers : row[s].status = "success" BY <3>2, UsableHasSuccess
      <4>2. acked[s] # {} BY <4>1 DEF ResultInv, StatusIsAcknowledged
      <4> QED BY <1>1, <4>2 DEF SomeAcknowledged
    <3>3. CASE ~IsUsable(RecalculatedStatus)
      <4>1. Claims BY <3>1, <3>3 DEF Claims
      <4> QED BY <1>1, <1>2, <4>1
    <3> QED BY <3>2, <3>3
  <2>3. CASE UpdateProfileResult
    <3>1. /\ profile'.status = consumer.status
          /\ profile'.notified = (profile.notified \/ consumer.tell)
          /\ notices' = notices /\ consumer.pc = "store"
          /\ consumer'.pc = "notify" => consumer.tell
          /\ consumer'.pc # "store"
      <4>1. /\ profile'.status = consumer.status
            /\ profile'.notified = (profile.notified \/ consumer.tell)
            /\ notices' = notices /\ consumer.pc = "store"
        BY <2>3 DEF UpdateProfileResult, StoredProfile
      <4>2. CASE consumer.tell
        <5>1. consumer'.pc = "notify"
          BY <2>3, <4>2 DEF UpdateProfileResult, TypeOK, Consumer
        <5> QED BY <4>1, <4>2, <5>1
      <4>3. CASE ~consumer.tell
        BY <2>3, <4>1, <4>3 DEF UpdateProfileResult, IdleConsumer
      <4> QED BY <4>2, <4>3
    <3>2. Claims BY <3>1 DEF Claims
    <3> QED BY <1>1, <1>2, <3>2
  <2>4. CASE Notify
    <3>1. Claims BY <2>4 DEF Notify, Claims
    <3> QED BY <1>1, <1>2, <3>1
  <2> QED BY <1>5, <2>1, <2>2, <2>3, <2>4 DEF ConsumerProgress
<1>6. CASE EnvironmentStep
  <2>1. /\ UNCHANGED <<profile, notices>>
        /\ consumer' = consumer \/ consumer' = IdleConsumer
    BY <1>6, EnvironmentEffect
  <2>2. Claims BY <2>1 DEF Claims, IdleConsumer
  <2> QED BY <1>1, <1>2, <2>2
<1> QED BY <1>3, <1>4, <1>5, <1>6 DEF Next, Workers

\* A user is told "VPN ready", and a profile is shown as usable, only after some
\* agent acknowledged a command, whatever was replayed or crashed.
THEOREM ReadyIsTrue == Spec => []ReadyIsAcknowledged
<1>1. Init => ReadyInv BY DEF Init, ReadyInv, Claims, IsUsable, IdleConsumer
<1>2. ReadyInv => ReadyIsAcknowledged
  BY DEF ReadyInv, ReadyIsAcknowledged, Claims, SomeAcknowledged
<1> QED BY <1>1, <1>2, ReadyStep, ResultInvariant, PTL DEF Spec
=============================================================================
