-------------------------- MODULE NodeRegistryProofs --------------------------
(* Theorems about NodeRegistry, for every set of servers, contents and times. *)
EXTENDS NodeRegistry, TLAPS

-----------------------------------------------------------------------------
(***************************************************************************)
(* The inductive invariant                                                 *)
(***************************************************************************)

InboundRows == [Inbounds -> {"managed", "plain", None}]
HistoryRow  == [sent: Times, content: Contents]

\* The types, with the domains of the functions whose values TypeOK bounds.
RegistryTypes ==
    /\ TypeOK
    /\ inbound \in [Servers -> InboundRows]
    /\ history \in [Servers -> SUBSET HistoryRow]
    /\ queue \in [Consumers -> SUBSET Message]

\* A consumer at work holds a message, and one that goes on knows its server.
Held(t) ==
    t.pc # "idle" => /\ t.message \in Message
                     /\ t.pc # "failed" => t.message.server \in Servers

\* A message that will be acknowledged is applied, or a newer one is.
Applied(c) ==
    task[c].pc = "ack" => /\ state[task[c].message.server].sent # None
                          /\ state[task[c].message.server].sent >= task[c].message.sent

\* No row of the history of a server is newer than its state.
Bounded(s) == \A h \in history[s] : state[s].sent # None /\ h.sent <= state[s].sent

\* The state and the inbounds are those of the snapshot h.
Reflects(s, h) ==
    /\ state[s].sent = h.sent /\ state[s].fit = h.content.fit
    /\ \A i \in Inbounds : h.content.inbounds[i] # None
                              => inbound[s][i] = h.content.inbounds[i]

RegistryInv ==
    /\ RegistryTypes
    /\ \A c \in Consumers : Held(task[c]) /\ Applied(c)
    /\ \A s \in Servers : Bounded(s)
    /\ \A s \in Servers : history[s] # {} => \E h \in history[s] : Reflects(s, h)

-----------------------------------------------------------------------------
(***************************************************************************)
(* Steps that leave the tables alone                                       *)
(***************************************************************************)

\* The rest of the state has its type after the step.
RestKept ==
    /\ queue' \in [Consumers -> SUBSET Message]
    /\ task' \in [Consumers -> Task]
    /\ lock' \in [Servers -> Consumers \cup {None}]
    /\ stale'.found # None => stale'.found \subseteq Servers \X BOOLEAN
    /\ clock' \in Times /\ stable' \in BOOLEAN

LEMMA RestStays ==
    ASSUME RegistryInv, UNCHANGED <<queue, task, lock, stale, clock, stable>>
    PROVE  RestKept
BY DEF RegistryInv, RegistryTypes, TypeOK, RestKept

LEMMA Quiet ==
    ASSUME RegistryInv, UNCHANGED tables, RestKept,
           \A c \in Consumers : \/ task'[c] = task[c]
                                \/ task'[c].pc # "ack" /\ Held(task'[c])
    PROVE  RegistryInv'
<1>1. RegistryTypes' BY DEF RegistryInv, RegistryTypes, TypeOK, RestKept, tables
<1>2. \A c \in Consumers : Held(task'[c]) /\ Applied(c)'
  BY DEF RegistryInv, Applied, tables
<1>3. \A s \in Servers : Bounded(s)' BY DEF RegistryInv, Bounded, tables
<1>4. \A s \in Servers : history'[s] # {} => \E h \in history'[s] : Reflects(s, h)'
  BY DEF RegistryInv, Reflects, tables
<1> QED BY <1>1, <1>2, <1>3, <1>4 DEF RegistryInv

LEMMA IdleHeld == IdleTask \in Task /\ IdleTask.pc = "idle" /\ Held(IdleTask)
BY RegistryAssumption DEF IdleTask, Task, Held, Times

\* What Goto changes, and leaves alone.
LEMMA GotoFields ==
    ASSUME RegistryInv, NEW c \in Consumers,
           NEW pc \in {"lock", "create", "apply", "ack", "failed"}, Goto(c, pc)
    PROVE  /\ task' \in [Consumers -> Task]
           /\ \A d \in Consumers \ {c} : task'[d] = task[d]
           /\ task'[c].pc = pc /\ task'[c].message = task[c].message
           /\ pc \in Running => task'[c].received = task[c].received
<1>0. /\ task \in [Consumers -> Task] /\ 0 \in Times
  BY RegistryAssumption DEF RegistryInv, RegistryTypes, TypeOK, Times
<1> DEFINE kept == IF pc \in Running THEN task[c].received ELSE 0
           t    == [task[c] EXCEPT !.pc = pc, !.received = kept]
<1>1. /\ t \in Task /\ t.pc = pc /\ t.message = task[c].message
      /\ pc \in Running => t.received = task[c].received
  BY <1>0 DEF Task
<1>2. task' = [task EXCEPT ![c] = t] BY DEF Goto
<1> HIDE DEF t
<1> QED BY <1>0, <1>1, <1>2

\* A consumer goes on, the message being what it was.
LEMMA GoesOn ==
    ASSUME RegistryInv, NEW c \in Consumers, NEW pc \in {"create", "apply", "failed"},
           Goto(c, pc), task[c].pc \in {"lock", "create", "apply"},
           UNCHANGED tables, UNCHANGED <<queue, stale, clock, stable>>,
           lock' \in [Servers -> Consumers \cup {None}]
    PROVE  RegistryInv'
<1>1. /\ task' \in [Consumers -> Task]
      /\ \A d \in Consumers \ {c} : task'[d] = task[d]
      /\ task'[c].pc = pc /\ task'[c].message = task[c].message
  BY GotoFields
<1>2. Held(task'[c]) BY <1>1 DEF RegistryInv, Held
<1>3. RestKept BY <1>1 DEF RegistryInv, RegistryTypes, TypeOK, RestKept
<1> QED BY <1>1, <1>2, <1>3, Quiet

\* A message is taken, its row is locked or inserted, a statement fails.
LEMMA TransactionSteps ==
    ASSUME RegistryInv, NEW c \in Consumers,
           \/ \E m \in queue[c] : Take(c, m)
           \/ LockRegistry(c) \/ CreateRegistry(c) \/ FailStatement(c)
    PROVE  RegistryInv'
<1>0. /\ queue \in [Consumers -> SUBSET Message] /\ task \in [Consumers -> Task]
      /\ lock \in [Servers -> Consumers \cup {None}] /\ clock \in Times /\ Held(task[c])
  BY DEF RegistryInv, RegistryTypes, TypeOK
<1>1. ASSUME NEW m \in queue[c], Take(c, m) PROVE RegistryInv'
  <2> DEFINE t == [pc |-> IF m.server = None THEN "failed" ELSE "lock",
                   message |-> m, received |-> clock]
  <2>1. m \in Message BY <1>0
  <2>2. t \in Task BY <1>0, <2>1 DEF Task
  <2>3. t.pc # "ack" /\ Held(t) BY <2>1 DEF Held, Message
  <2>4. task' = [task EXCEPT ![c] = t] /\ UNCHANGED tables
        /\ UNCHANGED <<queue, lock, stale, clock, stable>>
    BY <1>1 DEF Take
  <2> HIDE DEF t
  <2>5. task' \in [Consumers -> Task] /\ task'[c] = t
        /\ \A d \in Consumers \ {c} : task'[d] = task[d]
    BY <1>0, <2>2, <2>4
  <2>6. RestKept BY <2>4, <2>5 DEF RegistryInv, RegistryTypes, TypeOK, RestKept
  <2> QED BY <2>3, <2>4, <2>5, <2>6, Quiet
<1>2. CASE LockRegistry(c) \/ CreateRegistry(c)
  <2>1. /\ task[c].pc \in {"lock", "create"}
        /\ UNCHANGED tables /\ UNCHANGED <<queue, stale, clock, stable>>
    BY <1>2 DEF LockRegistry, CreateRegistry
  <2>2. lock' \in [Servers -> Consumers \cup {None}]
    BY <1>0, <1>2 DEF LockRegistry, CreateRegistry
  <2>3. Goto(c, "create") \/ Goto(c, "apply") \/ Goto(c, "failed")
    BY <1>2 DEF LockRegistry, CreateRegistry
  <2> QED BY <2>1, <2>2, <2>3, GoesOn
<1>3. CASE FailStatement(c)
  <2>1. lock' \in [Servers -> Consumers \cup {None}]
    BY <1>0, <1>3 DEF FailStatement, Unlock
  <2> QED BY <1>3, <2>1, GoesOn DEF FailStatement, Running
<1> QED BY <1>1, <1>2, <1>3

\* A message leaves its queue or stays there; everybody starts anew; time passes.
LEMMA OtherSteps ==
    ASSUME RegistryInv,
           \/ \E c \in Consumers : Ack(c) \/ Reject(c)
           \/ FindStale \/ AnySnapshot \/ (\E s \in Servers : HealthySnapshot(s))
           \/ Tick \/ Crash \/ Stabilise
    PROVE  RegistryInv'
<1>0. /\ queue \in [Consumers -> SUBSET Message] /\ task \in [Consumers -> Task]
      /\ lock \in [Servers -> Consumers \cup {None}] /\ clock \in Times /\ stable \in BOOLEAN
      /\ stale.found # None => stale.found \subseteq Servers \X BOOLEAN
  BY DEF RegistryInv, RegistryTypes, TypeOK
<1>1. ASSUME NEW c \in Consumers, NEW q, q \subseteq queue[c], Settle(c, q) PROVE RegistryInv'
  <2>1. /\ queue' = [queue EXCEPT ![c] = q] /\ task' = [task EXCEPT ![c] = IdleTask]
        /\ UNCHANGED tables /\ UNCHANGED <<lock, stale, clock, stable>>
    BY <1>1 DEF Settle
  <2>2. queue' \in [Consumers -> SUBSET Message] BY <1>0, <1>1, <2>1
  <2>3. /\ task' \in [Consumers -> Task] /\ task'[c] = IdleTask
        /\ \A d \in Consumers \ {c} : task'[d] = task[d]
    BY <1>0, <2>1, IdleHeld
  <2>4. RestKept BY <1>0, <2>1, <2>2, <2>3 DEF RestKept
  <2> QED BY <2>1, <2>3, <2>4, IdleHeld, Quiet
<1>2. ASSUME NEW c \in Consumers, Ack(c) \/ Reject(c) PROVE RegistryInv'
  BY <1>1, <1>2 DEF Ack, Reject, AfterFailure
<1>3. ASSUME NEW c \in Consumers, NEW m \in Message, Send(c, m) PROVE RegistryInv'
  <2>1. /\ queue' = [queue EXCEPT ![c] = @ \cup {m}] /\ UNCHANGED tables
        /\ UNCHANGED <<task, lock, stale, clock, stable>>
    BY <1>3 DEF Send
  <2>2. RestKept BY <1>0, <2>1 DEF RestKept
  <2> QED BY <2>1, <2>2, Quiet
<1>4. CASE AnySnapshot \/ \E s \in Servers : HealthySnapshot(s)
  <2>1. Malformed \in Message BY RegistryAssumption DEF Malformed, Message, Times
  <2>2. \A s \in Servers, n \in Contents :
            [server |-> s, sent |-> clock, content |-> n] \in Message
    BY <1>0 DEF Message
  <2>3. "events" \in Consumers /\ Healthy \in Contents BY RegistryAssumption DEF Consumers
  <2> QED BY <1>3, <1>4, <2>1, <2>2, <2>3 DEF AnySnapshot, HealthySnapshot
<1>5. CASE FindStale
  <2>1. stale' = [found |-> {<<s, Silent(s, clock - StaleAfter)>> :
                      s \in {t \in Servers :
                               Matches(t, clock - StaleAfter, Silent(t, clock - StaleAfter))}},
                  cutoff |-> clock - StaleAfter]
        /\ UNCHANGED tables /\ UNCHANGED <<queue, task, lock, clock, stable>>
    BY <1>5 DEF FindStale
  <2>2. \A s \in Servers : Silent(s, clock - StaleAfter) \in BOOLEAN BY DEF Silent
  <2>3. stale'.found \subseteq Servers \X BOOLEAN BY <2>1, <2>2
  <2>4. RestKept BY <1>0, <2>1, <2>3 DEF RestKept
  <2> QED BY <2>1, <2>4, Quiet
<1>6. CASE Tick
  <2>1. clock' \in Times BY <1>0, <1>6, RegistryAssumption DEF Tick, Times
  <2>2. RestKept BY <1>0, <1>6, <2>1 DEF Tick, RestKept
  <2> QED BY <1>6, <2>2, Quiet DEF Tick
<1>7. CASE Crash
  <2>1. /\ task' = [c \in Consumers |-> IdleTask] /\ lock' = [s \in Servers |-> None]
        /\ stale' = NoStatement /\ UNCHANGED tables /\ UNCHANGED <<queue, clock, stable>>
    BY <1>7 DEF Crash
  <2>2. stale'.found = None BY <2>1 DEF NoStatement
  <2>3. RestKept BY <1>0, <2>1, <2>2, IdleHeld DEF RestKept
  <2> QED BY <2>1, <2>3, IdleHeld, Quiet
<1>8. CASE Stabilise
  <2>1. RestKept BY <1>0, <1>8 DEF Stabilise, RestKept
  <2> QED BY <1>8, <2>1, Quiet DEF Stabilise
<1> QED BY <1>2, <1>4, <1>5, <1>6, <1>7, <1>8

-----------------------------------------------------------------------------
(***************************************************************************)
(* Steps that change the tables                                            *)
(***************************************************************************)

\* What a consumer reads and computes has its type.
LEMMA Computed ==
    ASSUME RegistryInv, NEW c \in Consumers, task[c].pc = "apply",
           NEW m, m = task[c].message, NEW s, s = m.server,
           NEW seen, seen = SeenRegistry(registry[s], m.content, task[c].received)
    PROVE  /\ m \in Message /\ s \in Servers /\ m.sent \in Times /\ m.content \in Content
           /\ m.content \in Contents
           /\ seen \in Registry
           /\ seen.status = "row" /\ seen.source = registry[s].source
           /\ seen.enabled = registry[s].enabled
           /\ seen.archived = FALSE /\ seen.fit = m.content.fit
           /\ ReportedState(s, seen, m.content, m.sent) \in State
           /\ UpsertedInbounds(inbound[s], m.content) \in InboundRows
           /\ Row(m) \in HistoryRow
<1>0. /\ task \in [Consumers -> Task] /\ registry \in [Servers -> Registry]
      /\ inbound \in [Servers -> InboundRows] /\ Held(task[c])
  BY DEF RegistryInv, RegistryTypes, TypeOK
<1>1. m \in Message /\ s \in Servers BY <1>0 DEF Held
<1>2. m.sent \in Times /\ m.content \in Contents /\ m.content \in Content
  BY <1>1, RegistryAssumption DEF Message
<1>3. m.content.fit \in Fits /\ m.content.inbounds \in [Inbounds -> {"managed", "plain", None}]
  BY <1>2 DEF Content
<1>4. task[c].received \in Times BY <1>0 DEF Task
<1>5. registry[s] \in Registry /\ inbound[s] \in InboundRows BY <1>0, <1>1
<1>6. /\ seen \in Registry
      /\ seen.status = "row" /\ seen.source = registry[s].source
      /\ seen.enabled = registry[s].enabled
      /\ seen.archived = FALSE /\ seen.fit = m.content.fit
  BY <1>3, <1>4, <1>5 DEF SeenRegistry, Registry
<1>7. ReportedState(s, seen, m.content, m.sent) \in State
  BY <1>2, <1>3, <1>6 DEF ReportedState, State, Registry
<1>8. UpsertedInbounds(inbound[s], m.content) \in InboundRows
  BY <1>3, <1>5 DEF UpsertedInbounds, InboundRows
<1>9. Row(m) \in HistoryRow BY <1>2 DEF Row, HistoryRow
<1> QED BY <1>1, <1>2, <1>6, <1>7, <1>8, <1>9

\* What a snapshot that is not outdated writes.
LEMMA Written ==
    ASSUME RegistryInv, NEW c \in Consumers, ApplySnapshot(c),
           NEW m, m = task[c].message, NEW s, s = m.server, ~Outdated(s, m.sent)
    PROVE  LET seen == SeenRegistry(registry[s], m.content, task[c].received)
           IN  /\ registry' = [registry EXCEPT ![s] = seen]
               /\ state' = [state EXCEPT ![s] = ReportedState(s, seen, m.content, m.sent)]
               /\ inbound' = [inbound EXCEPT ![s] = UpsertedInbounds(inbound[s], m.content)]
               /\ history' = [history EXCEPT ![s] = Latest(history[s] \cup {Row(m)})]
BY DEF ApplySnapshot

\* A row is only replaced by one that is not older: the row of the snapshot
\* stays, and so does what the snapshots of other servers have left.
LEMMA Apply ==
    ASSUME RegistryInv, NEW c \in Consumers, ApplySnapshot(c)
    PROVE  RegistryInv'
<1> DEFINE m       == task[c].message
           s       == m.server
           seen    == SeenRegistry(registry[s], m.content, task[c].received)
           st      == ReportedState(s, seen, m.content, m.sent)
           rows    == UpsertedInbounds(inbound[s], m.content)
           row     == Row(m)
           kept    == Latest(history[s] \cup {row})
<1>0. /\ TypeOK /\ inbound \in [Servers -> InboundRows]
      /\ history \in [Servers -> SUBSET HistoryRow]
      /\ queue \in [Consumers -> SUBSET Message] /\ task \in [Consumers -> Task]
      /\ registry \in [Servers -> Registry] /\ state \in [Servers -> State]
      /\ lock \in [Servers -> Consumers \cup {None}]
  BY DEF RegistryInv, RegistryTypes, TypeOK
<1>1. /\ task[c].pc = "apply" /\ Goto(c, "ack") /\ Unlock(c)
      /\ UNCHANGED <<queue, stale, clock, stable>>
  BY DEF ApplySnapshot
<1>2. /\ m \in Message /\ s \in Servers /\ m.sent \in Times
      /\ m.content \in Content /\ m.content \in Contents
      /\ seen \in Registry /\ st \in State /\ rows \in InboundRows /\ row \in HistoryRow
  BY <1>1, Computed
<1>3. /\ task' \in [Consumers -> Task] /\ task'[c].pc = "ack" /\ task'[c].message = m
      /\ \A d \in Consumers \ {c} : task'[d] = task[d]
  BY <1>1, GotoFields
<1>4. lock' \in [Servers -> Consumers \cup {None}] BY <1>0, <1>1 DEF Unlock
<1>5. RestKept BY <1>0, <1>1, <1>3, <1>4 DEF TypeOK, RestKept
<1>6. \A d \in Consumers : Held(task'[d])
  BY <1>1, <1>2, <1>3 DEF RegistryInv, Held
<1>7. CASE Outdated(s, m.sent)
  <2>1. UNCHANGED tables BY <1>7 DEF ApplySnapshot, tables
  <2>2. RegistryTypes'
    BY <1>0, <1>5, <2>1 DEF RegistryTypes, TypeOK, RestKept, tables
  <2>3. state[s].sent # None /\ m.sent < state[s].sent /\ state[s].sent \in Times
    BY <1>0, <1>2, <1>7 DEF Outdated, State
  <2>4. Applied(c)' BY <1>2, <1>3, <2>1, <2>3 DEF Applied, tables, Times
  <2>5. \A d \in Consumers \ {c} : Applied(d)' BY <1>3, <2>1 DEF RegistryInv, Applied, tables
  <2>6. \A t \in Servers : Bounded(t)' BY <2>1 DEF RegistryInv, Bounded, tables
  <2>7. \A t \in Servers : history'[t] # {} => \E h \in history'[t] : Reflects(t, h)'
    BY <2>1 DEF RegistryInv, Reflects, tables
  <2> QED BY <1>6, <2>2, <2>4, <2>5, <2>6, <2>7 DEF RegistryInv
<1>8. CASE ~Outdated(s, m.sent)
  <2>1. /\ registry' = [registry EXCEPT ![s] = seen] /\ state' = [state EXCEPT ![s] = st]
        /\ inbound' = [inbound EXCEPT ![s] = rows]
        /\ history' = [history EXCEPT ![s] = kept]
    BY <1>8, Written
  <2>2. st.sent = m.sent /\ st.fit = m.content.fit BY DEF ReportedState
  <2>3. row.sent = m.sent /\ row.content = m.content BY DEF Row
  <2>4. \A i \in Inbounds : m.content.inbounds[i] # None => rows[i] = m.content.inbounds[i]
    BY DEF UpsertedInbounds
  <2>5. m.sent # None /\ m.sent \in Nat BY <1>2, RegistryAssumption DEF Times
  <2>6. state[s] \in State /\ (state[s].sent # None => state[s].sent \in Nat /\ state[s].sent <= m.sent)
    <3>1. state[s] \in State BY <1>0, <1>2
    <3>2. state[s].sent # None => state[s].sent \in Nat BY <3>1 DEF State, Times
    <3> QED BY <1>8, <2>5, <3>1, <3>2 DEF Outdated
  <2>7. history[s] \subseteq HistoryRow BY <1>0, <1>2
  <2>8. \A h \in history[s] : h.sent <= m.sent
    <3> SUFFICES ASSUME NEW h \in history[s] PROVE h.sent <= m.sent
      OBVIOUS
    <3>1. Bounded(s) BY <1>2 DEF RegistryInv
    <3>2. state[s].sent # None /\ h.sent <= state[s].sent BY <3>1 DEF Bounded
    <3>3. h.sent \in Nat BY <2>7 DEF HistoryRow, Times
    <3> QED BY <2>5, <2>6, <3>2, <3>3
  <2> HIDE DEF m, s, seen, st, rows, row
  <2>9. row \in kept /\ kept \subseteq history[s] \cup {row}
    BY <2>3, <2>5, <2>8 DEF Latest
  <2> HIDE DEF kept
  <2>10. /\ kept \subseteq HistoryRow
         /\ \A h \in kept : h.sent <= m.sent
    BY <1>2, <2>3, <2>5, <2>7, <2>8, <2>9
  <2>11. /\ state'[s] = st /\ \A t \in Servers \ {s} : state'[t] = state[t]
         /\ inbound'[s] = rows /\ \A t \in Servers \ {s} : inbound'[t] = inbound[t]
         /\ history'[s] = kept /\ \A t \in Servers \ {s} : history'[t] = history[t]
    BY <1>0, <1>2, <2>1
  <2>12. /\ registry' \in [Servers -> Registry] /\ state' \in [Servers -> State]
         /\ inbound' \in [Servers -> InboundRows]
         /\ history' \in [Servers -> SUBSET HistoryRow]
    BY <1>0, <1>2, <2>1, <2>10
  <2>13. RegistryTypes'
    <3>1. \A t \in Servers, i \in Inbounds : inbound'[t][i] \in {"managed", "plain", None}
      BY <2>12 DEF InboundRows
    <3>2. \A t \in Servers : history'[t] \subseteq [sent : Times, content : Contents]
      BY <2>12 DEF HistoryRow
    <3>3. queue' \in [Consumers -> SUBSET Message] BY <1>5 DEF RestKept
    <3>4. TypeOK' BY <1>5, <2>12, <3>1, <3>2, <3>3 DEF TypeOK, RestKept
    <3> QED BY <2>12, <3>3, <3>4 DEF RegistryTypes
  <2>14. Applied(c)' BY <1>3, <2>2, <2>5, <2>11 DEF Applied, m, s
  <2>15. ASSUME NEW d \in Consumers \ {c} PROVE Applied(d)'
    <3>1. Applied(d) /\ task'[d] = task[d] /\ Held(task[d]) BY <1>3 DEF RegistryInv
    <3>2. CASE task[d].pc # "ack" BY <3>1, <3>2 DEF Applied
    <3>3. CASE task[d].pc = "ack"
      <4> DEFINE n == task[d].message
      <4>1. n \in Message /\ n.server \in Servers BY <3>1, <3>3 DEF Held
      <4>2. state[n.server].sent # None /\ state[n.server].sent >= n.sent
        BY <3>1, <3>3 DEF Applied
      <4>3. n.sent \in Nat BY <4>1 DEF Message, Times
      <4> HIDE DEF n
      <4>4. CASE n.server = s
        <5>1. m.sent >= n.sent BY <2>5, <2>6, <4>2, <4>3, <4>4
        <5> QED BY <2>2, <2>5, <2>11, <3>1, <4>4, <5>1 DEF Applied, n
      <4>5. CASE n.server # s
        BY <2>11, <3>1, <4>1, <4>2, <4>5 DEF Applied, n
      <4> QED BY <4>4, <4>5
    <3> QED BY <3>2, <3>3
  <2>16. ASSUME NEW t \in Servers PROVE Bounded(t)'
    <3>1. CASE t = s BY <2>2, <2>5, <2>10, <2>11, <3>1 DEF Bounded
    <3>2. CASE t # s BY <2>11, <3>2 DEF RegistryInv, Bounded
    <3> QED BY <3>1, <3>2
  <2>17. ASSUME NEW t \in Servers, history'[t] # {}
         PROVE  \E h \in history'[t] : Reflects(t, h)'
    <3>1. CASE t = s
      <4>1. \A h : h = row => Reflects(t, h)'
        BY <2>2, <2>3, <2>4, <2>11, <3>1 DEF Reflects
      <4>2. \E h \in history'[t] : h = row BY <2>9, <2>11, <3>1
      <4> QED BY <4>1, <4>2
    <3>2. CASE t # s
      <4>1. state'[t] = state[t] /\ inbound'[t] = inbound[t] /\ history'[t] = history[t]
        BY <2>11, <3>2
      <4> QED BY <2>17, <4>1 DEF RegistryInv, Reflects
    <3> QED BY <3>1, <3>2
  <2> QED BY <1>6, <2>13, <2>14, <2>15, <2>16, <2>17 DEF RegistryInv
<1> QED BY <1>7, <1>8

\* An administrator, or the archiving of silent servers, changes the registry alone.
LEMMA RegistryOnly ==
    ASSUME RegistryInv, registry' \in [Servers -> Registry],
           stale'.found # None => stale'.found \subseteq Servers \X BOOLEAN,
           UNCHANGED <<state, inbound, history, queue, task, lock, clock, stable>>
    PROVE  RegistryInv'
<1>1. RegistryTypes' BY DEF RegistryInv, RegistryTypes, TypeOK
<1>2. \A c \in Consumers : Held(task'[c]) /\ Applied(c)' BY DEF RegistryInv, Applied
<1>3. \A s \in Servers : Bounded(s)' BY DEF RegistryInv, Bounded
<1>4. \A s \in Servers : history'[s] # {} => \E h \in history'[s] : Reflects(s, h)'
  BY DEF RegistryInv, Reflects
<1> QED BY <1>1, <1>2, <1>3, <1>4 DEF RegistryInv

LEMMA AdministratorSteps ==
    ASSUME RegistryInv,
           (\E s \in Servers : AdministratorStep(s)) \/ ArchiveStaleDiscovered
    PROVE  RegistryInv'
<1>0. registry \in [Servers -> Registry]
      /\ (stale.found # None => stale.found \subseteq Servers \X BOOLEAN)
  BY DEF RegistryInv, RegistryTypes, TypeOK
<1>1. ASSUME NEW s \in Servers, AdministratorStep(s) PROVE RegistryInv'
  <2>1. registry[s] \in Registry BY <1>0
  <2>2. \A on \in BOOLEAN : /\ [registry[s] EXCEPT !.enabled = on] \in Registry
                            /\ [registry[s] EXCEPT !.archived = on] \in Registry
                            /\ [registry[s] EXCEPT !.archived = FALSE, !.enabled = TRUE] \in Registry
    BY <2>1 DEF Registry
  <2>3. PICK r \in Registry : Update(s, r)
    BY <1>1, <2>2
    DEF AdministratorStep, DisableServer, EnableServer, ArchiveServer, RestoreServer
  <2>4. registry' \in [Servers -> Registry] BY <1>0, <2>3 DEF Update
  <2> QED BY <1>0, <2>3, <2>4, RegistryOnly DEF Update
<1>2. CASE ArchiveStaleDiscovered
  <2>1. \A s \in Servers : [registry[s] EXCEPT !.archived = TRUE] \in Registry
    BY <1>0 DEF Registry
  <2>2. registry' \in [Servers -> Registry]
    BY <1>0, <1>2, <2>1 DEF ArchiveStaleDiscovered
  <2>3. stale'.found = None BY <1>2 DEF ArchiveStaleDiscovered, NoStatement
  <2> QED BY <1>2, <2>2, <2>3, RegistryOnly DEF ArchiveStaleDiscovered
<1> QED BY <1>1, <1>2

LEMMA RegistryInit == Init => RegistryInv
<1> SUFFICES ASSUME Init PROVE RegistryInv
  OBVIOUS
<1>1. PICK migrated \in SUBSET Servers :
         /\ registry = [s \in Servers |-> IF s \in migrated
               THEN [NoRegistry EXCEPT !.status = "row", !.source = "migrated"]
               ELSE NoRegistry]
         /\ state = [s \in Servers |-> IF s \in migrated
               THEN [NoState EXCEPT !.sent = 0, !.enabled = TRUE] ELSE NoState]
  BY DEF Init
<1>2. 0 \in Times BY RegistryAssumption DEF Times
<1>3. registry \in [Servers -> Registry] BY <1>1, <1>2 DEF NoRegistry, Registry, Fits
<1>4. state \in [Servers -> State] BY <1>1, <1>2 DEF NoState, State, Fits
<1>5. /\ inbound = [s \in Servers |-> [i \in Inbounds |-> None]]
      /\ history = [s \in Servers |-> {}] /\ queue = [c \in Consumers |-> {}]
      /\ task = [c \in Consumers |-> IdleTask] /\ lock = [s \in Servers |-> None]
      /\ stale.found = None /\ clock = 0 /\ stable = FALSE
  BY DEF Init, NoStatement
<1>6. RegistryTypes
  BY <1>2, <1>3, <1>4, <1>5, IdleHeld
  DEF RegistryTypes, TypeOK, InboundRows, HistoryRow
<1>7. \A c \in Consumers : Held(task[c]) /\ Applied(c) BY <1>5, IdleHeld DEF Applied
<1> QED BY <1>5, <1>6, <1>7 DEF RegistryInv, Bounded

LEMMA RegistryStep == RegistryInv /\ [Next]_vars => RegistryInv'
<1> SUFFICES ASSUME RegistryInv, [Next]_vars PROVE RegistryInv'
  OBVIOUS
<1>1. CASE UNCHANGED vars
  <2>1. UNCHANGED tables /\ UNCHANGED <<queue, task, lock, stale, clock, stable>>
    BY <1>1 DEF vars, tables
  <2> QED BY <2>1, RestStays, Quiet
<1>2. CASE Next
  BY <1>2, TransactionSteps, OtherSteps, Apply, AdministratorSteps DEF Next, ConsumerStep
<1> QED BY <1>1, <1>2

-----------------------------------------------------------------------------
(***************************************************************************)
(* The theorems                                                            *)
(***************************************************************************)

\* The invariant holds in every state.
THEOREM RegistryInvariant == Spec => []RegistryInv
BY RegistryInit, RegistryStep, PTL DEF Spec

\* Type correctness, whatever the queues do and wherever the panel crashes.
THEOREM RegistryTypeCorrect == Spec => []TypeOK
<1>1. RegistryInv => TypeOK BY DEF RegistryInv, RegistryTypes
<1> QED BY <1>1, RegistryInvariant, PTL

\* However the two queues interleave, repeat and reorder, the state of a server
\* and the rows of its inbounds are those of a newest snapshot of its history.
THEOREM StateFollowsTheNewest == Spec => []StateIsNewest
<1>1. RegistryInv => StateIsNewest BY DEF RegistryInv, StateIsNewest, Reflects
<1> QED BY <1>1, RegistryInvariant, PTL

\* Which steps move a consumer from apply to ack.
LEMMA OnlyApplyAcks ==
    ASSUME RegistryInv, [Next]_vars, NEW c \in Consumers,
           task[c].pc = "apply", task'[c].pc = "ack"
    PROVE  ApplySnapshot(c)
<1>0. task \in [Consumers -> Task] BY DEF RegistryInv, RegistryTypes, TypeOK
<1>1. CASE \E d \in Consumers : \/ \E m \in queue[d] : Take(d, m)
                                \/ ConsumerStep(d) \/ FailStatement(d)
  <2> PICK d \in Consumers : \/ \E m \in queue[d] : Take(d, m)
                             \/ ConsumerStep(d) \/ FailStatement(d)
    BY <1>1
  <2>1. CASE \E m \in queue[d] : Take(d, m) BY <1>0, <2>1 DEF Take
  <2>2. CASE LockRegistry(d) \/ CreateRegistry(d) \/ FailStatement(d)
    <3>1. PICK pc \in {"create", "apply", "failed"} : Goto(d, pc)
      BY <2>2 DEF LockRegistry, CreateRegistry, FailStatement
    <3>2. task'[d].pc = pc /\ \A e \in Consumers \ {d} : task'[e] = task[e]
      BY <3>1, GotoFields
    <3> QED BY <3>2
  <2>3. CASE ApplySnapshot(d)
    <3>1. \A e \in Consumers \ {d} : task'[e] = task[e]
      BY <2>3, GotoFields DEF ApplySnapshot
    <3> QED BY <2>3, <3>1
  <2>4. CASE Ack(d) \/ Reject(d)
    <3>1. task' = [task EXCEPT ![d] = IdleTask] BY <2>4 DEF Ack, Reject, Settle
    <3> QED BY <1>0, <3>1, IdleHeld
  <2> QED BY <2>1, <2>2, <2>3, <2>4 DEF ConsumerStep
<1>2. CASE Crash
  <2>1. task'[c] = IdleTask BY <1>2 DEF Crash
  <2> QED BY <2>1, IdleHeld
<1>3. CASE \/ \E s \in Servers : AdministratorStep(s) \/ HealthySnapshot(s)
           \/ FindStale \/ ArchiveStaleDiscovered \/ AnySnapshot \/ Tick \/ Stabilise
           \/ UNCHANGED vars
  <2>1. task' = task
    BY <1>3 DEF AdministratorStep, DisableServer, EnableServer, ArchiveServer, RestoreServer,
                Update, HealthySnapshot, Send, FindStale, ArchiveStaleDiscovered,
                AnySnapshot, Tick, Stabilise, vars
  <2> QED BY <2>1
<1> QED BY <1>1, <1>2, <1>3 DEF Next

\* A snapshot leaves the events queue only when the panel knows it or a newer one,
\* whatever fails on the way.
THEOREM EventsAreKept == Spec => NoSnapshotLost
<1>1. RegistryInv /\ [Next]_vars =>
        [\A m \in queue["events"] \ queue'["events"] :
            m.server # None => /\ state[m.server].sent # None
                               /\ state[m.server].sent >= m.sent]_vars
  <2> SUFFICES ASSUME RegistryInv, [Next]_vars,
                      NEW m \in queue["events"] \ queue'["events"], m.server # None
               PROVE  /\ state[m.server].sent # None
                      /\ state[m.server].sent >= m.sent
    OBVIOUS
  <2>0. queue \in [Consumers -> SUBSET Message] /\ "events" \in Consumers
    BY DEF RegistryInv, RegistryTypes, Consumers
  <2>1. CASE \E c \in Consumers : Ack(c) \/ Reject(c)
    <3> PICK c \in Consumers : Ack(c) \/ Reject(c) BY <2>1
    <3>1. \/ Ack(c) /\ queue' = [queue EXCEPT ![c] = queue[c] \ {task[c].message}]
          \/ Reject(c) /\ queue' = [queue EXCEPT ![c] = AfterFailure(c)]
      BY DEF Ack, Reject, Settle
    <3>2. c = "events" BY <2>0, <3>1
    <3>3. CASE Reject(c) /\ queue' = [queue EXCEPT ![c] = AfterFailure(c)]
      BY <2>0, <3>2, <3>3 DEF AfterFailure
    <3>4. CASE Ack(c) /\ queue' = [queue EXCEPT ![c] = queue[c] \ {task[c].message}]
      <4>1. m = task[c].message BY <2>0, <3>2, <3>4
      <4> QED BY <3>4, <4>1 DEF RegistryInv, Applied, Ack
    <3> QED BY <3>1, <3>3, <3>4
  <2>2. ASSUME NEW c \in Consumers, NEW n, Send(c, n) PROVE FALSE
    BY <2>0, <2>2 DEF Send
  <2>3. CASE AnySnapshot \/ \E s \in Servers : HealthySnapshot(s)
    BY <2>0, <2>2, <2>3 DEF AnySnapshot, HealthySnapshot
  <2>4. CASE \E c \in Consumers : \/ \E n \in queue[c] : Take(c, n)
                                  \/ LockRegistry(c) \/ CreateRegistry(c)
                                  \/ ApplySnapshot(c) \/ FailStatement(c)
    BY <2>4 DEF Take, LockRegistry, CreateRegistry, ApplySnapshot, FailStatement
  <2>5. CASE (\E s \in Servers : AdministratorStep(s))
    BY <2>5 DEF AdministratorStep, DisableServer, EnableServer, ArchiveServer,
                RestoreServer, Update
  <2>6. CASE FindStale \/ ArchiveStaleDiscovered \/ Tick \/ Crash \/ Stabilise \/ UNCHANGED vars
    BY <2>6 DEF FindStale, ArchiveStaleDiscovered, Tick, Crash, Stabilise, vars
  <2> QED BY <2>1, <2>3, <2>4, <2>5, <2>6 DEF Next, ConsumerStep
<1> QED BY <1>1, RegistryInvariant, PTL DEF Spec, NoSnapshotLost

\* A server that reports while ArchiveStaleDiscovered waits for its row is spared:
\* the statement archives only what it still finds silent.
THEOREM ReportingServersAreSpared == Spec => SparedOnceSeen
<1>1. RegistryInv /\ [Next]_vars =>
        [stale.found # None =>
            \A s \in Servers : stale'.found = None /\ ~registry[s].archived /\ registry'[s].archived
                => registry[s].seen < stale.cutoff]_vars
  <2> SUFFICES ASSUME RegistryInv, [Next]_vars, stale.found # None, NEW s \in Servers,
                      stale'.found = None, ~registry[s].archived, registry'[s].archived
               PROVE  registry[s].seen < stale.cutoff
    OBVIOUS
  <2>1. CASE ArchiveStaleDiscovered
    BY <2>1 DEF ArchiveStaleDiscovered, StillMatches, Matches
  <2>2. CASE Crash \/ FindStale BY <2>2 DEF Crash, FindStale, tables
  <2>3. CASE \/ \E c \in Consumers : \/ \E m \in queue[c] : Take(c, m)
                                     \/ ConsumerStep(c) \/ FailStatement(c)
             \/ \E t \in Servers : AdministratorStep(t) \/ HealthySnapshot(t)
             \/ AnySnapshot \/ Tick \/ Stabilise \/ UNCHANGED vars
    <3>1. stale' = stale
      BY <2>3 DEF Take, ConsumerStep, LockRegistry, CreateRegistry, ApplySnapshot, Ack, Reject,
                  Settle, FailStatement, AdministratorStep, DisableServer, EnableServer,
                  ArchiveServer, RestoreServer, Update, HealthySnapshot, Send, AnySnapshot,
                  Tick, Stabilise, vars
    <3> QED BY <3>1
  <2> QED BY <2>1, <2>2, <2>3 DEF Next
<1> QED BY <1>1, RegistryInvariant, PTL DEF Spec, SparedOnceSeen

\* Catalogue and provisioning judge a server by the registry and by the state it
\* reported: a step that leaves both rows alone does not part them.
LEMMA MisleadingStays ==
    ASSUME NEW s \in Servers, registry'[s] = registry[s], state'[s] = state[s], Misleading(s)'
    PROVE  Misleading(s)
BY DEF Misleading, Available, IsServerEligible

\* A snapshot that is applied writes both rows from one report.
LEMMA SnapshotsAgree ==
    ASSUME RegistryInv, NEW c \in Consumers, ApplySnapshot(c),
           NEW s \in Servers, Misleading(s)'
    PROVE  Misleading(s)
<1> DEFINE m    == task[c].message
           own  == m.server
           seen == SeenRegistry(registry[own], m.content, task[c].received)
           st   == ReportedState(own, seen, m.content, m.sent)
           rows == UpsertedInbounds(inbound[own], m.content)
           kept == Latest(history[own] \cup {Row(m)})
<1>0. /\ registry \in [Servers -> Registry] /\ state \in [Servers -> State]
  BY DEF RegistryInv, RegistryTypes, TypeOK
<1>1. /\ seen \in Registry /\ st \in State /\ own \in Servers
      /\ seen.archived = FALSE /\ seen.fit = m.content.fit
  <2>1. task[c].pc = "apply" BY DEF ApplySnapshot
  <2>2. /\ m \in Message /\ own \in Servers /\ m.sent \in Times
        /\ m.content \in Content /\ m.content \in Contents
        /\ seen \in Registry /\ st \in State /\ rows \in InboundRows /\ Row(m) \in HistoryRow
    BY <2>1, Computed
  <2>3. seen.archived = FALSE /\ seen.fit = m.content.fit
    <3>1. registry[own] \in Registry BY <1>0, <2>2
    <3> QED BY <3>1 DEF SeenRegistry, Registry
  <2> QED BY <2>2, <2>3
<1>2. CASE Outdated(own, m.sent)
  <2>1. registry' = registry /\ state' = state BY <1>2 DEF ApplySnapshot, tables
  <2> QED BY <2>1, MisleadingStays
<1>3. CASE ~Outdated(own, m.sent)
  <2>1. /\ registry' = [registry EXCEPT ![own] = seen]
        /\ state' = [state EXCEPT ![own] = st]
        /\ inbound' = [inbound EXCEPT ![own] = rows]
        /\ history' = [history EXCEPT ![own] = kept]
    BY <1>3, Written
  <2>2. st.enabled = (seen.enabled /\ ~seen.archived) /\ st.fit = seen.fit
    BY <1>1 DEF ReportedState
  <2> HIDE DEF m, own, seen, st
  <2>3. CASE own = s
    <3>1. registry'[s] = seen /\ state'[s] = st BY <1>0, <2>1, <2>3
    <3> QED BY <1>1, <2>2, <3>1 DEF Misleading, Available, IsServerEligible
  <2>4. CASE own # s
    <3>1. registry'[s] = registry[s] /\ state'[s] = state[s] BY <1>0, <2>1, <2>4
    <3> QED BY <3>1, MisleadingStays
  <2> QED BY <2>3, <2>4
<1> QED BY <1>2, <1>3

\* The catalogue offers a server whose protocol and endpoint group fit, and that cannot be
\* provisioned, only after an administrator enabled or restored it; no snapshot makes it so.
THEOREM CatalogueAgrees == Spec => CatalogueFollowsSnapshots
<1>1. RegistryInv /\ [Next]_vars =>
        [\A s \in Servers :
            Misleading(s)' => Misleading(s) \/ EnableServer(s) \/ RestoreServer(s)]_vars
  <2> SUFFICES ASSUME RegistryInv, [Next]_vars, NEW s \in Servers, Misleading(s)',
                      ~Misleading(s)
               PROVE  EnableServer(s) \/ RestoreServer(s)
    OBVIOUS
  <2>0. registry \in [Servers -> Registry] /\ state \in [Servers -> State]
    BY DEF RegistryInv, RegistryTypes, TypeOK
  <2>1. ~(registry'[s] = registry[s] /\ state'[s] = state[s]) BY MisleadingStays
  <2>2. ASSUME NEW c \in Consumers, ApplySnapshot(c) PROVE FALSE
    BY <2>2, SnapshotsAgree
  <2>3. CASE ArchiveStaleDiscovered
    <3>1. state' = state /\ (registry'[s] = registry[s]
                             \/ registry'[s] = [registry[s] EXCEPT !.archived = TRUE])
      BY <2>3 DEF ArchiveStaleDiscovered
    <3>2. registry'[s].archived BY <2>0, <2>1, <3>1 DEF Registry
    <3> QED BY <3>2 DEF Misleading, Available
  <2>4. ASSUME NEW t \in Servers, AdministratorStep(t) PROVE EnableServer(s) \/ RestoreServer(s)
    <3>1. t = s
      BY <2>0, <2>1, <2>4 DEF AdministratorStep, DisableServer, EnableServer, ArchiveServer,
                              RestoreServer, Update
    <3>2. CASE DisableServer(s) \/ ArchiveServer(s)
      <4>1. registry[s] \in Registry BY <2>0
      <4>2. ~registry'[s].enabled \/ registry'[s].archived
        BY <2>0, <3>2, <4>1 DEF DisableServer, ArchiveServer, Update, Registry
      <4> QED BY <4>2 DEF Misleading, Available
    <3> QED BY <2>4, <3>1, <3>2 DEF AdministratorStep
  <2>5. CASE \/ \E c \in Consumers : \/ \E m \in queue[c] : Take(c, m)
                                     \/ LockRegistry(c) \/ CreateRegistry(c)
                                     \/ Ack(c) \/ Reject(c) \/ FailStatement(c)
             \/ \E t \in Servers : HealthySnapshot(t)
             \/ FindStale \/ AnySnapshot \/ Tick \/ Crash \/ Stabilise \/ UNCHANGED vars
    <3>1. registry' = registry /\ state' = state
      BY <2>5 DEF Take, LockRegistry, CreateRegistry, Ack, Reject, Settle, FailStatement,
                  HealthySnapshot, Send, FindStale, AnySnapshot, Tick, Crash, Stabilise,
                  vars, tables
    <3> QED BY <2>1, <3>1
  <2> QED BY <2>2, <2>3, <2>4, <2>5 DEF Next, ConsumerStep
<1> QED BY <1>1, RegistryInvariant, PTL DEF Spec, CatalogueFollowsSnapshots

-----------------------------------------------------------------------------
(***************************************************************************)
(* Times in order                                                          *)
(***************************************************************************)

\* A message was sent before it was received, and neither later than now.
MessagesInOrder ==
    /\ \A c \in Consumers : \A m \in queue[c] : m.sent <= clock
    /\ \A c \in Consumers : task[c].pc \in Running =>
          /\ task[c].message.sent <= task[c].received
          /\ task[c].received <= clock

\* The statement under way looks for servers that are stale by now, too.
CutoffPassed ==
    stale.found # None => /\ stale.cutoff \in Int
                          /\ stale.cutoff <= clock - StaleAfter

\* A server with a row has reported, and what it reported last was sent before
\* the row's last_seen_at.
RowsInOrder ==
    \A s \in Servers : registry[s].status = "row" => /\ state[s].sent # None
                                                     /\ state[s].sent <= registry[s].seen

OrderInv == MessagesInOrder /\ CutoffPassed /\ RowsInOrder

LEMMA OrderTypes ==
    ASSUME RegistryInv
    PROVE  /\ clock \in Nat /\ StaleAfter \in Nat
           /\ queue \in [Consumers -> SUBSET Message] /\ task \in [Consumers -> Task]
           /\ registry \in [Servers -> Registry] /\ state \in [Servers -> State]
           /\ \A m \in Message : m.sent \in Nat
           /\ \A c \in Consumers : task[c].received \in Nat
           /\ \A s \in Servers : registry[s].seen \in Nat
           /\ \A s \in Servers : state[s].sent # None => state[s].sent \in Nat
<1>1. /\ clock \in Times /\ queue \in [Consumers -> SUBSET Message]
      /\ task \in [Consumers -> Task]
      /\ registry \in [Servers -> Registry] /\ state \in [Servers -> State]
  BY DEF RegistryInv, RegistryTypes, TypeOK
<1>2. clock \in Nat /\ StaleAfter \in Nat BY <1>1, RegistryAssumption DEF Times
<1>3. \A m \in Message : m.sent \in Nat BY DEF Message, Times
<1>4. \A c \in Consumers : task[c].received \in Nat BY <1>1 DEF Task, Times
<1>5. \A s \in Servers : registry[s].seen \in Nat BY <1>1 DEF Registry, Times
<1>6. \A s \in Servers : state[s].sent # None => state[s].sent \in Nat
  BY <1>1 DEF State, Times
<1> QED BY <1>1, <1>2, <1>3, <1>4, <1>5, <1>6

\* Which steps change the tables, and which the clock.
LEMMA TableSteps ==
    ASSUME [Next]_vars
    PROVE  \/ UNCHANGED tables /\ (Tick \/ UNCHANGED clock)
           \/ \E c \in Consumers : ApplySnapshot(c)
           \/ \E s \in Servers : AdministratorStep(s)
           \/ ArchiveStaleDiscovered
<1>1. CASE \E c \in Consumers : \/ \E m \in queue[c] : Take(c, m)
                                \/ ConsumerStep(c) \/ FailStatement(c)
  BY <1>1 DEF Take, ConsumerStep, LockRegistry, CreateRegistry, Ack, Reject, Settle,
              FailStatement
<1>2. CASE (\E s \in Servers : HealthySnapshot(s)) \/ FindStale \/ AnySnapshot
  BY <1>2 DEF HealthySnapshot, AnySnapshot, Send, FindStale
<1>3. CASE Tick \/ Crash \/ Stabilise \/ UNCHANGED vars
  BY <1>3 DEF Tick, Crash, Stabilise, vars, tables
<1> QED BY <1>1, <1>2, <1>3 DEF Next

\* Time does not go back, and messages stay as they were sent and received.
LEMMA MessagesStay ==
    ASSUME RegistryInv, MessagesInOrder, clock' \in Nat, clock <= clock',
           \A c \in Consumers : \A m \in queue'[c] :
              m \in queue[c] \/ (m.sent \in Nat /\ m.sent <= clock),
           \A c \in Consumers :
              \/ task'[c].pc \notin Running
              \/ /\ task[c].pc \in Running /\ task'[c].message = task[c].message
                 /\ task'[c].received = task[c].received
              \/ task'[c].message \in queue[c] /\ task'[c].received = clock
    PROVE  MessagesInOrder'
<1>1. \A c \in Consumers : \A m \in queue[c] : m.sent \in Nat /\ m.sent <= clock
  BY OrderTypes DEF MessagesInOrder
<1>2. \A c \in Consumers : \A m \in queue'[c] : m.sent <= clock'
  BY <1>1, OrderTypes
<1>3. ASSUME NEW c \in Consumers, task'[c].pc \in Running
      PROVE  task'[c].message.sent <= task'[c].received /\ task'[c].received <= clock'
  <2>1. CASE /\ task[c].pc \in Running /\ task'[c].message = task[c].message
             /\ task'[c].received = task[c].received
    <3>1. /\ task[c].message.sent <= task[c].received /\ task[c].received <= clock
          /\ task[c].received \in Nat
      BY <2>1, OrderTypes DEF MessagesInOrder
    <3> QED BY <2>1, <3>1, OrderTypes
  <2>2. CASE task'[c].message \in queue[c] /\ task'[c].received = clock
    BY <1>1, <2>2
  <2> QED BY <1>3, <2>1, <2>2
<1> QED BY <1>2, <1>3 DEF MessagesInOrder

LEMMA MessagesStep == RegistryInv /\ MessagesInOrder /\ [Next]_vars => MessagesInOrder'
<1> SUFFICES ASSUME RegistryInv, MessagesInOrder, [Next]_vars PROVE MessagesInOrder'
  OBVIOUS
<1>0. /\ clock \in Nat /\ queue \in [Consumers -> SUBSET Message]
      /\ task \in [Consumers -> Task] /\ \A m \in Message : m.sent \in Nat
  BY OrderTypes
<1>1. ASSUME UNCHANGED <<queue, task>>, clock' \in Nat, clock <= clock'
      PROVE  MessagesInOrder'
  <2>1. \A c \in Consumers : task'[c].pc \notin Running \/ task[c].pc \in Running BY <1>1
  <2> QED BY <1>1, <2>1, MessagesStay
<1>2. ASSUME NEW c \in Consumers, NEW pc \in {"lock", "create", "apply", "ack", "failed"},
             Goto(c, pc), task[c].pc \in Running, UNCHANGED <<queue, clock>>
      PROVE  MessagesInOrder'
  <2>1. /\ \A d \in Consumers \ {c} : task'[d] = task[d]
        /\ task'[c].pc = pc /\ task'[c].message = task[c].message
        /\ pc \in Running => task'[c].received = task[c].received
    BY <1>2, GotoFields
  <2>2. \A d \in Consumers :
            \/ task'[d].pc \notin Running
            \/ /\ task[d].pc \in Running /\ task'[d].message = task[d].message
               /\ task'[d].received = task[d].received
    BY <1>2, <2>1
  <2> QED BY <1>0, <1>2, <2>2, MessagesStay
<1>3. ASSUME NEW c \in Consumers, NEW m \in queue[c], Take(c, m) PROVE MessagesInOrder'
  <2>1. task'[c].message = m /\ task'[c].received = clock
        /\ \A d \in Consumers \ {c} : task'[d] = task[d]
    BY <1>0, <1>3 DEF Take
  <2>2. UNCHANGED <<queue, clock>> BY <1>3 DEF Take
  <2>3. \A d \in Consumers :
            \/ task'[d].pc \notin Running
            \/ /\ task[d].pc \in Running /\ task'[d].message = task[d].message
               /\ task'[d].received = task[d].received
            \/ task'[d].message \in queue[d] /\ task'[d].received = clock
    BY <2>1
  <2> QED BY <1>0, <2>2, <2>3, MessagesStay
<1>4. ASSUME NEW c \in Consumers,
             LockRegistry(c) \/ CreateRegistry(c) \/ ApplySnapshot(c) \/ FailStatement(c)
      PROVE  MessagesInOrder'
  <2>1. task[c].pc \in Running /\ UNCHANGED <<queue, clock>>
    BY <1>4 DEF LockRegistry, CreateRegistry, ApplySnapshot, FailStatement, Running
  <2>2. PICK pc \in {"lock", "create", "apply", "ack", "failed"} : Goto(c, pc)
    BY <1>4 DEF LockRegistry, CreateRegistry, ApplySnapshot, FailStatement
  <2> QED BY <1>2, <2>1, <2>2
<1>5. ASSUME NEW c \in Consumers, Ack(c) \/ Reject(c) PROVE MessagesInOrder'
  <2>1. PICK messages \in SUBSET queue[c] : Settle(c, messages)
    BY <1>5 DEF Ack, Reject, AfterFailure
  <2>2. /\ task'[c].pc = "idle" /\ \A d \in Consumers \ {c} : task'[d] = task[d]
        /\ \A d \in Consumers : queue'[d] \subseteq queue[d] /\ UNCHANGED clock
    BY <1>0, <2>1, IdleHeld DEF Settle
  <2>3. \A d \in Consumers : \A m \in queue'[d] : m \in queue[d]
    BY <2>2
  <2>4. \A d \in Consumers : task'[d].pc \notin Running \/ task'[d] = task[d]
    BY <2>2 DEF Running
  <2> QED BY <1>0, <2>2, <2>3, <2>4, MessagesStay
<1>6. ASSUME NEW c \in Consumers, NEW m \in Message, m.sent <= clock, Send(c, m)
      PROVE  MessagesInOrder'
  <2>1. /\ queue' = [queue EXCEPT ![c] = queue[c] \cup {m}]
        /\ UNCHANGED <<task, clock>>
    BY <1>6 DEF Send
  <2>2. \A d \in Consumers : \A n \in queue'[d] : n \in queue[d] \/ n = m
    BY <1>0, <2>1
  <2>3. \A d \in Consumers : \A n \in queue'[d] :
            n \in queue[d] \/ (n.sent \in Nat /\ n.sent <= clock)
    BY <1>0, <1>6, <2>2
  <2>4. \A d \in Consumers : task'[d].pc \notin Running \/ task[d].pc \in Running BY <2>1
  <2> QED BY <1>0, <2>1, <2>3, <2>4, MessagesStay
<1>7. CASE AnySnapshot \/ \E s \in Servers : HealthySnapshot(s)
  <2>1. Malformed \in Message /\ Malformed.sent <= clock
    BY <1>0, RegistryAssumption DEF Malformed, Message, Times
  <2>2. clock \in Times /\ Healthy \in Contents /\ "events" \in Consumers
    BY RegistryAssumption DEF RegistryInv, RegistryTypes, TypeOK, Consumers
  <2>3. \A s \in Servers, n \in Contents :
            /\ [server |-> s, sent |-> clock, content |-> n] \in Message
            /\ [server |-> s, sent |-> clock, content |-> n].sent <= clock
    BY <1>0, <2>2 DEF Message
  <2> QED BY <1>6, <1>7, <2>1, <2>2, <2>3 DEF AnySnapshot, HealthySnapshot
<1>8. CASE Crash
  <2>1. UNCHANGED <<queue, clock>> /\ \A c \in Consumers : task'[c].pc \notin Running
    BY <1>8, IdleHeld DEF Crash, Running
  <2> QED BY <1>0, <2>1, MessagesStay
<1>9. CASE \/ \E s \in Servers : AdministratorStep(s)
           \/ FindStale \/ ArchiveStaleDiscovered \/ Tick \/ Stabilise \/ UNCHANGED vars
  <2>1. UNCHANGED <<queue, task>> /\ (clock' = clock \/ clock' = clock + 1)
    BY <1>9 DEF AdministratorStep, DisableServer, EnableServer, ArchiveServer, RestoreServer,
                Update, FindStale, ArchiveStaleDiscovered, Tick, Stabilise, vars
  <2>2. clock' \in Nat /\ clock <= clock' BY <1>0, <2>1
  <2> QED BY <1>1, <2>1, <2>2
<1> QED BY <1>3, <1>4, <1>5, <1>7, <1>8, <1>9 DEF Next, ConsumerStep

LEMMA CutoffStep == RegistryInv /\ CutoffPassed /\ [Next]_vars => CutoffPassed'
<1> SUFFICES ASSUME RegistryInv, CutoffPassed, [Next]_vars PROVE CutoffPassed'
  OBVIOUS
<1>0. clock \in Nat /\ StaleAfter \in Nat BY OrderTypes
<1>1. CASE FindStale
  <2>1. stale'.cutoff = clock - StaleAfter /\ clock' = clock BY <1>1 DEF FindStale
  <2> QED BY <1>0, <2>1 DEF CutoffPassed
<1>2. CASE ArchiveStaleDiscovered \/ Crash
  BY <1>2 DEF ArchiveStaleDiscovered, Crash, NoStatement, CutoffPassed
<1>3. CASE \/ \E c \in Consumers : \/ \E m \in queue[c] : Take(c, m)
                                   \/ ConsumerStep(c) \/ FailStatement(c)
           \/ \E s \in Servers : AdministratorStep(s) \/ HealthySnapshot(s)
           \/ AnySnapshot \/ Tick \/ Stabilise \/ UNCHANGED vars
  <2>1. stale' = stale /\ (clock' = clock \/ clock' = clock + 1)
    BY <1>3 DEF Take, ConsumerStep, LockRegistry, CreateRegistry, ApplySnapshot, Ack, Reject,
                Settle, FailStatement, AdministratorStep, DisableServer, EnableServer,
                ArchiveServer, RestoreServer, Update, HealthySnapshot, Send, AnySnapshot,
                Tick, Stabilise, vars
  <2> QED BY <1>0, <2>1 DEF CutoffPassed
<1> QED BY <1>1, <1>2, <1>3 DEF Next

\* Administrators and the archiving touch neither the status nor last_seen_at.
LEMMA DatesStay ==
    ASSUME RegistryInv, (\E s \in Servers : AdministratorStep(s)) \/ ArchiveStaleDiscovered
    PROVE  /\ UNCHANGED state
           /\ \A s \in Servers : registry'[s].status = registry[s].status
                                 /\ registry'[s].seen = registry[s].seen
<1>0. registry \in [Servers -> Registry] BY OrderTypes
<1>1. ASSUME NEW t \in Servers, AdministratorStep(t)
      PROVE  /\ UNCHANGED state
             /\ \A s \in Servers : registry'[s].status = registry[s].status
                                   /\ registry'[s].seen = registry[s].seen
  <2>1. registry[t] \in Registry BY <1>0
  <2>2. UNCHANGED state
    BY <1>1 DEF AdministratorStep, DisableServer, EnableServer, ArchiveServer, RestoreServer,
                Update
  <2>3. PICK r \in {[registry[t] EXCEPT !.enabled = FALSE], [registry[t] EXCEPT !.enabled = TRUE],
                   [registry[t] EXCEPT !.archived = TRUE],
                   [registry[t] EXCEPT !.archived = FALSE, !.enabled = TRUE]} : Update(t, r)
    BY <1>1 DEF AdministratorStep, DisableServer, EnableServer, ArchiveServer, RestoreServer
  <2>4. r.status = registry[t].status /\ r.seen = registry[t].seen BY <2>1, <2>3 DEF Registry
  <2>5. registry' = [registry EXCEPT ![t] = r] BY <2>3 DEF Update
  <2> QED BY <1>0, <2>2, <2>4, <2>5
<1>2. CASE ArchiveStaleDiscovered
  <2>1. \A s \in Servers : registry'[s] = registry[s]
                           \/ registry'[s] = [registry[s] EXCEPT !.archived = TRUE]
    BY <1>2 DEF ArchiveStaleDiscovered
  <2>2. \A s \in Servers : registry[s] \in Registry BY <1>0
  <2> QED BY <1>2, <2>1, <2>2 DEF ArchiveStaleDiscovered, Registry
<1> QED BY <1>1, <1>2

\* What a snapshot that is applied leaves of the row and the state of its server.
LEMMA AppliedDates ==
    ASSUME RegistryInv, NEW c \in Consumers, ApplySnapshot(c),
           ~Outdated(task[c].message.server, task[c].message.sent)
    PROVE  LET s == task[c].message.server
           IN  /\ s \in Servers
               /\ registry'[s].seen = task[c].received
               /\ state'[s].sent = task[c].message.sent
               /\ task[c].message.sent \in Nat
               /\ \A t \in Servers \ {s} : registry'[t] = registry[t] /\ state'[t] = state[t]
<1> DEFINE m    == task[c].message
           s    == m.server
           seen == SeenRegistry(registry[s], m.content, task[c].received)
           st   == ReportedState(s, seen, m.content, m.sent)
           rows == UpsertedInbounds(inbound[s], m.content)
           kept == Latest(history[s] \cup {Row(m)})
<1>0. /\ registry \in [Servers -> Registry] /\ state \in [Servers -> State]
      /\ \A n \in Message : n.sent \in Nat
  BY OrderTypes
<1>1. /\ registry' = [registry EXCEPT ![s] = seen] /\ state' = [state EXCEPT ![s] = st]
      /\ inbound' = [inbound EXCEPT ![s] = rows] /\ history' = [history EXCEPT ![s] = kept]
  BY Written
<1>2. m \in Message /\ s \in Servers BY DEF RegistryInv, Held, ApplySnapshot
<1>3. seen.seen = task[c].received
  <2>1. registry[s] \in Registry BY <1>0, <1>2
  <2> QED BY <2>1 DEF SeenRegistry, Registry
<1>4. st.sent = m.sent BY DEF ReportedState
<1>5. m.sent \in Nat BY <1>0, <1>2
<1> HIDE DEF seen, st, m
<1>6. /\ registry'[s] = seen /\ state'[s] = st
      /\ \A t \in Servers \ {s} : registry'[t] = registry[t] /\ state'[t] = state[t]
  BY <1>0, <1>1, <1>2
<1>7. /\ s \in Servers /\ registry'[s].seen = task[c].received /\ state'[s].sent = m.sent
      /\ m.sent \in Nat
      /\ \A t \in Servers \ {s} : registry'[t] = registry[t] /\ state'[t] = state[t]
  BY <1>2, <1>3, <1>4, <1>5, <1>6
<1> QED BY <1>7 DEF m

LEMMA RowsStep ==
    RegistryInv /\ MessagesInOrder /\ RowsInOrder /\ [Next]_vars => RowsInOrder'
<1> SUFFICES ASSUME RegistryInv, MessagesInOrder, RowsInOrder, [Next]_vars
             PROVE  RowsInOrder'
  OBVIOUS
<1>1. CASE UNCHANGED tables BY <1>1 DEF RowsInOrder, tables
<1>2. CASE (\E s \in Servers : AdministratorStep(s)) \/ ArchiveStaleDiscovered
  BY <1>2, DatesStay DEF RowsInOrder
<1>3. ASSUME NEW c \in Consumers, ApplySnapshot(c) PROVE RowsInOrder'
  <2> DEFINE s == task[c].message.server
  <2>1. CASE Outdated(s, task[c].message.sent)
    BY <1>3, <2>1 DEF ApplySnapshot, RowsInOrder, tables
  <2>2. CASE ~Outdated(s, task[c].message.sent)
    <3>1. /\ s \in Servers /\ registry'[s].seen = task[c].received
          /\ state'[s].sent = task[c].message.sent /\ task[c].message.sent \in Nat
          /\ \A t \in Servers \ {s} : registry'[t] = registry[t] /\ state'[t] = state[t]
      BY <1>3, <2>2, AppliedDates
    <3>2. task[c].message.sent <= task[c].received
      BY <1>3 DEF MessagesInOrder, ApplySnapshot, Running
    <3>3. task[c].message.sent # None BY <3>1, RegistryAssumption
    <3>4. state'[s].sent # None /\ state'[s].sent <= registry'[s].seen BY <3>1, <3>2, <3>3
    <3> QED BY <3>1, <3>4 DEF RowsInOrder
  <2> QED BY <2>1, <2>2
<1> QED BY <1>1, <1>2, <1>3, TableSteps

LEMMA OrderStep == RegistryInv /\ OrderInv /\ [Next]_vars => OrderInv'
BY MessagesStep, CutoffStep, RowsStep DEF OrderInv

LEMMA OrderInit == Init => OrderInv
<1> SUFFICES ASSUME Init PROVE OrderInv
  OBVIOUS
<1>1. PICK migrated \in SUBSET Servers :
         /\ registry = [s \in Servers |-> IF s \in migrated
               THEN [NoRegistry EXCEPT !.status = "row", !.source = "migrated"]
               ELSE NoRegistry]
         /\ state = [s \in Servers |-> IF s \in migrated
               THEN [NoState EXCEPT !.sent = 0, !.enabled = TRUE] ELSE NoState]
  BY DEF Init
<1>2. ASSUME NEW s \in Servers, registry[s].status = "row"
      PROVE  state[s].sent # None /\ state[s].sent <= registry[s].seen
  <2>1. s \in migrated BY <1>1, <1>2 DEF NoRegistry
  <2>2. state[s].sent = 0 /\ registry[s].seen = 0 BY <1>1, <2>1 DEF NoRegistry, NoState
  <2> QED BY <2>2, RegistryAssumption
<1>3. RowsInOrder BY <1>2 DEF RowsInOrder
<1>4. MessagesInOrder BY IdleHeld DEF Init, MessagesInOrder, Running
<1>5. CutoffPassed BY DEF Init, NoStatement, CutoffPassed
<1> QED BY <1>3, <1>4, <1>5 DEF OrderInv

-----------------------------------------------------------------------------
(***************************************************************************)
(* NodeRegistry implements ServerRecords                                   *)
(***************************************************************************)

RecordsStep == [Records!RecordsNext]_(Records!recordVars)

\* The abstract variables.
Known   == [s \in Servers |-> Record(s)]
Reports == [s \in Servers |-> LastReport(s)]

\* What leaves the rows and the clock alone is not seen.
LEMMA RecordsStutter ==
    ASSUME UNCHANGED <<registry, state, inbound, clock>>
    PROVE  RecordsStep
BY DEF RecordsStep, Records!recordVars, Record, LastReport

\* A step that changes the rows of one server changes what is known of it alone.
LEMMA OneServer ==
    ASSUME NEW s \in Servers,
           \A t \in Servers \ {s} : /\ registry'[t] = registry[t] /\ state'[t] = state[t]
                                    /\ inbound'[t] = inbound[t]
    PROVE  /\ Known' = [Known EXCEPT ![s] = Record(s)']
           /\ Reports' = [Reports EXCEPT ![s] = LastReport(s)']
<1>1. \A t \in Servers \ {s} : Record(t)' = Record(t) /\ LastReport(t)' = LastReport(t)
  BY DEF Record, LastReport
<1> QED BY <1>1 DEF Known, Reports

\* The clock is all that changes.
LEMMA TimePasses ==
    ASSUME Tick
    PROVE  RecordsStep
<1>1. clock' = clock + 1 /\ UNCHANGED tables BY DEF Tick
<1>2. Records!Pass BY <1>1 DEF Records!Pass, Record, LastReport, tables
<1> QED BY <1>2 DEF RecordsStep, Records!RecordsNext

\* The step makes the rows of s show the snapshot m, which was received at now.
Shown(m, s, now) ==
    /\ m \in Message /\ s \in Servers /\ m.sent \in Nat /\ m.content \in Contents
    /\ m.content.fit \in Fits
    /\ registry'[s].status = "row" /\ registry'[s].source = registry[s].source
    /\ registry'[s].enabled = registry[s].enabled /\ registry'[s].archived = FALSE
    /\ registry'[s].seen = now
    /\ registry'[s].fit = m.content.fit /\ state'[s].fit = m.content.fit
    /\ state'[s].enabled = registry[s].enabled /\ state'[s].sent = m.sent
    /\ inbound'[s] = Records!Merged(inbound[s], m.content)
    /\ \A t \in Servers \ {s} : /\ registry'[t] = registry[t] /\ state'[t] = state[t]
                                /\ inbound'[t] = inbound[t]

\* What a snapshot that is applied makes of the rows of its server s.
LEMMA RowsOfSnapshot ==
    ASSUME RegistryInv, NEW c \in Consumers, ApplySnapshot(c),
           NEW m, m = task[c].message, NEW s, s = m.server, NEW now, now = task[c].received,
           ~Outdated(s, m.sent)
    PROVE  Shown(m, s, now)
<1> DEFINE seen == SeenRegistry(registry[s], m.content, task[c].received)
           st   == ReportedState(s, seen, m.content, m.sent)
           rows == UpsertedInbounds(inbound[s], m.content)
           kept == Latest(history[s] \cup {Row(m)})
<1>0. /\ registry \in [Servers -> Registry] /\ state \in [Servers -> State]
      /\ inbound \in [Servers -> InboundRows]
  BY OrderTypes DEF RegistryInv, RegistryTypes
<1>1. /\ registry' = [registry EXCEPT ![s] = seen] /\ state' = [state EXCEPT ![s] = st]
      /\ inbound' = [inbound EXCEPT ![s] = rows] /\ history' = [history EXCEPT ![s] = kept]
  BY Written
<1>2. task[c].pc = "apply" BY DEF ApplySnapshot
<1>3. m \in Message /\ s \in Servers BY <1>2 DEF RegistryInv, Held
<1>4. m.content \in Contents /\ m.content.fit \in Fits /\ m.sent \in Nat
  BY <1>3, OrderTypes, RegistryAssumption DEF Message, Content
<1>5. registry[s] \in Registry BY <1>0, <1>3
<1>6. /\ seen.status = "row" /\ seen.source = registry[s].source
      /\ seen.enabled = registry[s].enabled /\ seen.enabled \in BOOLEAN
      /\ seen.archived = FALSE /\ seen.fit = m.content.fit /\ seen.seen = now
  BY <1>5 DEF SeenRegistry, Registry
<1>7. st.sent = m.sent /\ st.fit = m.content.fit /\ st.enabled = registry[s].enabled
  BY <1>6 DEF ReportedState
<1>8. rows = Records!Merged(inbound[s], m.content)
  BY DEF UpsertedInbounds, Records!Merged
<1> HIDE DEF seen, st, rows, kept
<1>9. /\ registry'[s] = seen /\ state'[s] = st /\ inbound'[s] = rows
      /\ \A t \in Servers \ {s} : /\ registry'[t] = registry[t] /\ state'[t] = state[t]
                                  /\ inbound'[t] = inbound[t]
  BY <1>0, <1>1, <1>3
<1> QED BY <1>3, <1>4, <1>6, <1>7, <1>8, <1>9 DEF Shown

\* A snapshot that is refused is not seen, and one that is applied is a report,
\* not older than the last one and not from the future.
LEMMA SnapshotReports ==
    ASSUME RegistryInv, OrderInv, NEW c \in Consumers, ApplySnapshot(c)
    PROVE  RecordsStep
<1>1. PICK m : m = task[c].message OBVIOUS
<1>2. PICK s, now : s = m.server /\ now = task[c].received OBVIOUS
<1>3. task[c].pc = "apply" /\ clock' = clock BY DEF ApplySnapshot
<1>4. CASE Outdated(s, m.sent)
  BY <1>1, <1>2, <1>4, RecordsStutter DEF ApplySnapshot, tables
<1>5. CASE ~Outdated(s, m.sent)
  <2>1. /\ m \in Message /\ s \in Servers /\ m.sent \in Nat /\ m.content \in Contents
        /\ m.content.fit \in Fits
        /\ registry'[s].status = "row" /\ registry'[s].source = registry[s].source
        /\ registry'[s].enabled = registry[s].enabled /\ registry'[s].archived = FALSE
        /\ registry'[s].seen = now
        /\ registry'[s].fit = m.content.fit /\ state'[s].fit = m.content.fit
        /\ state'[s].enabled = registry[s].enabled /\ state'[s].sent = m.sent
        /\ inbound'[s] = Records!Merged(inbound[s], m.content)
        /\ \A t \in Servers \ {s} : /\ registry'[t] = registry[t] /\ state'[t] = state[t]
                                    /\ inbound'[t] = inbound[t]
    <3>1. Shown(m, s, now) BY <1>1, <1>2, <1>5, RowsOfSnapshot
    <3> QED BY <3>1 DEF Shown
  <2>2. m.sent <= now /\ now <= clock /\ now \in Nat /\ clock \in Nat
    BY <1>1, <1>2, <1>3, OrderTypes DEF OrderInv, MessagesInOrder, Running
  <2>3. state[s].sent = None \/ state[s].sent <= m.sent
    BY <1>5, <2>1, OrderTypes DEF Outdated
  <2>4. Known' = [Known EXCEPT ![s] = Record(s)']
        /\ Reports' = [Reports EXCEPT ![s] = LastReport(s)']
    BY <2>1, OneServer
  <2>5. Record(s).discovered = (registry[s].source = "discovered")
        /\ Record(s).enabled = registry[s].enabled
    BY DEF Record
  <2>6. Record(s)' = Records!Switched(Record(s), Record(s).enabled, FALSE)
    <3>1. /\ (registry'[s].status = "row") = TRUE
          /\ (registry'[s].source = "discovered") = Record(s).discovered
      BY <2>1, <2>5
    <3> QED BY <2>1, <2>5, <3>1, Zenon DEF Record, Records!Switched
  <2>7. LastReport(s)' = [fit |-> m.content.fit, enabled |-> Record(s).enabled,
                          seen |-> now, sent |-> m.sent,
                          inbounds |-> Records!Merged(LastReport(s).inbounds, m.content)]
    <3>1. LastReport(s).inbounds = inbound[s] BY DEF LastReport
    <3>2. state'[s].fit = m.content.fit BY <2>1
    <3> QED BY <2>1, <2>5, <3>1, <3>2, Zenon DEF LastReport
  <2>8. Known[s] = Record(s) /\ Reports[s] = LastReport(s) BY <2>1 DEF Known, Reports
  <2>9. Reports[s].sent = state[s].sent BY <2>8 DEF LastReport
  <2>10. /\ Known' = [Known EXCEPT ![s] = Records!Switched(Known[s], Known[s].enabled, FALSE)]
         /\ Reports' = [Reports EXCEPT ![s] =
               [fit |-> m.content.fit, enabled |-> Known[s].enabled, seen |-> now,
                sent |-> m.sent, inbounds |-> Records!Merged(Reports[s].inbounds, m.content)]]
    BY <2>4, <2>6, <2>7, <2>8
  <2>11. Records!Report(s, m.sent, now, m.content)
    BY <1>3, <2>2, <2>3, <2>9, <2>10 DEF Records!Report, Known, Reports
  <2>12. m.sent \in 0..clock /\ now \in 0..clock BY <2>1, <2>2
  <2>13. Records!RecordsNext BY <2>1, <2>11, <2>12 DEF Records!RecordsNext
  <2> QED BY <2>13 DEF RecordsStep
<1> QED BY <1>4, <1>5

\* A request of an administrator is one UPDATE, and one step of the record.
LEMMA AdministratorRecords ==
    ASSUME RegistryInv, NEW s \in Servers, AdministratorStep(s)
    PROVE  RecordsStep
<1>0. registry[s] \in Registry /\ registry \in [Servers -> Registry] BY OrderTypes
<1>1. PICK r \in {[registry[s] EXCEPT !.enabled = FALSE], [registry[s] EXCEPT !.enabled = TRUE],
                  [registry[s] EXCEPT !.archived = TRUE],
                  [registry[s] EXCEPT !.archived = FALSE, !.enabled = TRUE]} : Update(s, r)
  BY DEF AdministratorStep, DisableServer, EnableServer, ArchiveServer, RestoreServer
<1>2. /\ registry[s].status = "row" /\ registry' = [registry EXCEPT ![s] = r]
      /\ UNCHANGED <<state, inbound, clock>>
  BY <1>1 DEF Update
<1>3. registry'[s] = r /\ \A t \in Servers \ {s} : registry'[t] = registry[t]
  BY <1>0, <1>2
<1>4. /\ r.status = registry[s].status /\ r.source = registry[s].source
      /\ r.fit = registry[s].fit /\ r.seen = registry[s].seen
  BY <1>0, <1>1 DEF Registry
<1>5. \/ r.enabled \in BOOLEAN /\ r.archived = registry[s].archived
      \/ r.enabled = registry[s].enabled /\ r.archived = TRUE
      \/ r.enabled = TRUE /\ r.archived = FALSE
  BY <1>0, <1>1 DEF Registry
<1>6. /\ Record(s).known = TRUE
      /\ Record(s).discovered = (registry[s].source = "discovered")
      /\ Record(s).enabled = registry[s].enabled /\ Record(s).archived = registry[s].archived
  <2>1. (registry[s].status = "row") = TRUE BY <1>2
  <2> QED BY <2>1, Zenon DEF Record
<1>7. Record(s)' = Records!Switched(Record(s), r.enabled, r.archived)
  <2>1. /\ (registry'[s].status = "row") = TRUE
        /\ (registry'[s].source = "discovered") = Record(s).discovered
        /\ registry'[s].enabled = r.enabled /\ registry'[s].archived = r.archived
    BY <1>2, <1>3, <1>4, <1>6
  <2> QED BY <2>1, Zenon DEF Record, Records!Switched
<1>8. /\ r.enabled \in BOOLEAN /\ r.archived \in BOOLEAN
      /\ \/ r.archived = Record(s).archived
         \/ r.archived /\ r.enabled = Record(s).enabled
         \/ ~r.archived /\ r.enabled
  BY <1>0, <1>5, <1>6 DEF Registry
<1>9. Known' = [Known EXCEPT ![s] = Record(s)'] BY <1>2, <1>3, OneServer
<1>10. Reports' = Reports
  <2>1. \A t \in Servers : LastReport(t)' = LastReport(t)
    <3> SUFFICES ASSUME NEW t \in Servers PROVE LastReport(t)' = LastReport(t)
      OBVIOUS
    <3>1. /\ registry'[t].fit = registry[t].fit /\ registry'[t].seen = registry[t].seen
          /\ state'[t] = state[t] /\ inbound'[t] = inbound[t]
      BY <1>2, <1>3, <1>4
    <3> QED BY <3>1, Zenon DEF LastReport
  <2> QED BY <2>1 DEF Reports
<1>11. Known[s] = Record(s) BY DEF Known
<1>12. Known' = [Known EXCEPT ![s] = Records!Switched(Known[s], r.enabled, r.archived)]
  BY <1>7, <1>9, <1>11
<1>14. Records!Administer(s)
  BY <1>2, <1>6, <1>8, <1>10, <1>11, <1>12 DEF Records!Administer, Known, Reports
<1> QED BY <1>14 DEF RecordsStep, Records!RecordsNext

\* ArchiveStaleDiscovered waited for its rows and matches them as they are now:
\* each of them is silent by now, whatever its subquery found.
LEMMA ArchivingRecords ==
    ASSUME RegistryInv, OrderInv, ArchiveStaleDiscovered
    PROVE  RecordsStep
<1> DEFINE doomed == {s \in Servers : \E silent \in BOOLEAN :
                         <<s, silent>> \in stale.found /\ StillMatches(s, silent)}
<1>0. /\ registry \in [Servers -> Registry] /\ clock \in Nat /\ StaleAfter \in Nat
      /\ \A s \in Servers : registry[s].seen \in Nat
      /\ \A s \in Servers : state[s].sent # None => state[s].sent \in Nat
  BY OrderTypes
<1>1. /\ registry' = [s \in Servers |-> IF s \in doomed
                         THEN [registry[s] EXCEPT !.archived = TRUE] ELSE registry[s]]
      /\ UNCHANGED <<state, inbound, clock>> /\ stale.found # None
  BY DEF ArchiveStaleDiscovered
<1>2. stale.cutoff \in Int /\ stale.cutoff <= clock - StaleAfter
  BY <1>1 DEF OrderInv, CutoffPassed
<1>3. ASSUME NEW s \in doomed
      PROVE  /\ registry[s].status = "row" /\ registry[s].source = "discovered"
             /\ registry[s].seen < clock - StaleAfter
             /\ state[s].sent # None /\ state[s].sent < clock - StaleAfter
  <2>1. /\ s \in Servers /\ registry[s].status = "row" /\ registry[s].source = "discovered"
        /\ registry[s].seen < stale.cutoff
    BY DEF StillMatches, Matches
  <2>2. state[s].sent # None /\ state[s].sent <= registry[s].seen
    BY <2>1 DEF OrderInv, RowsInOrder
  <2>3. registry[s].seen \in Nat /\ state[s].sent \in Nat BY <1>0, <2>1, <2>2
  <2> QED BY <1>0, <1>2, <2>1, <2>2, <2>3
<1>4. PICK S \in SUBSET Servers : S = doomed OBVIOUS
<1> HIDE DEF doomed
<1>5. \A s \in S : Records!Silent(s)
  <2> SUFFICES ASSUME NEW s \in S PROVE Records!Silent(s)
    OBVIOUS
  <2>1. Known[s] = Record(s) /\ Reports[s] = LastReport(s) BY <1>4 DEF Known, Reports
  <2>2. /\ Record(s).known /\ Record(s).discovered
        /\ LastReport(s).seen = registry[s].seen /\ LastReport(s).sent = state[s].sent
    BY <1>3, <1>4 DEF Record, LastReport
  <2> QED BY <1>3, <1>4, <2>1, <2>2 DEF Records!Silent, Known, Reports
<1>6. ASSUME NEW s \in Servers
      PROVE  /\ Record(s)' = IF s \in S THEN Records!Switched(Record(s), Record(s).enabled, TRUE)
                            ELSE Record(s)
             /\ LastReport(s)' = LastReport(s)
  <2>0. registry[s] \in Registry BY <1>0
  <2>1. /\ registry'[s].status = registry[s].status /\ registry'[s].source = registry[s].source
        /\ registry'[s].enabled = registry[s].enabled /\ registry'[s].fit = registry[s].fit
        /\ registry'[s].seen = registry[s].seen
        /\ registry'[s].archived = IF s \in S THEN TRUE ELSE registry[s].archived
    <3>1. registry'[s] = IF s \in S THEN [registry[s] EXCEPT !.archived = TRUE] ELSE registry[s]
      BY <1>1, <1>4
    <3> QED BY <2>0, <3>1 DEF Registry
  <2>2. /\ Record(s).known = (registry[s].status = "row")
        /\ Record(s).discovered = (registry[s].source = "discovered")
        /\ Record(s).enabled = registry[s].enabled
    BY Zenon DEF Record
  <2>3. Record(s)' = IF s \in S THEN Records!Switched(Record(s), Record(s).enabled, TRUE)
                     ELSE Record(s)
    <3>1. CASE s \in S
      <4>1. /\ (registry'[s].status = "row") = TRUE /\ registry'[s].archived = TRUE
            /\ (registry'[s].source = "discovered") = Record(s).discovered
            /\ registry'[s].enabled = Record(s).enabled
        BY <1>3, <1>4, <2>1, <2>2, <3>1
      <4>2. Record(s)' = Records!Switched(Record(s), Record(s).enabled, TRUE)
        BY <4>1, Zenon DEF Record, Records!Switched
      <4> QED BY <3>1, <4>2
    <3>2. CASE s \notin S
      <4>1. Record(s)' = Record(s) BY <2>1, <3>2, Zenon DEF Record
      <4> QED BY <3>2, <4>1
    <3> QED BY <3>1, <3>2
  <2>4. LastReport(s)' = LastReport(s)
    <3>1. state'[s] = state[s] /\ inbound'[s] = inbound[s] BY <1>1
    <3> QED BY <2>1, <3>1, Zenon DEF LastReport
  <2> QED BY <2>3, <2>4
<1>7. /\ Known' = [s \in Servers |-> IF s \in S
                      THEN Records!Switched(Known[s], Known[s].enabled, TRUE) ELSE Known[s]]
      /\ Reports' = Reports
  BY <1>6 DEF Known, Reports
<1>8. Records!ArchiveSilent(S)
  BY <1>1, <1>5, <1>7 DEF Records!ArchiveSilent, Known, Reports
<1> QED BY <1>8 DEF RecordsStep, Records!RecordsNext

LEMMA EveryStepRecords ==
    ASSUME RegistryInv, OrderInv, [Next]_vars
    PROVE  RecordsStep
BY TableSteps, RecordsStutter, TimePasses, SnapshotReports, AdministratorRecords,
   ArchivingRecords DEF tables

LEMMA RecordsStart == Init => Records!RecordsInit
<1> SUFFICES ASSUME Init PROVE Records!RecordsInit
  OBVIOUS
<1>1. PICK migrated \in SUBSET Servers :
         /\ registry = [s \in Servers |-> IF s \in migrated
               THEN [NoRegistry EXCEPT !.status = "row", !.source = "migrated"]
               ELSE NoRegistry]
         /\ state = [s \in Servers |-> IF s \in migrated
               THEN [NoState EXCEPT !.sent = 0, !.enabled = TRUE] ELSE NoState]
  BY DEF Init
<1>2. inbound = [s \in Servers |-> [i \in Inbounds |-> None]] /\ clock = 0 BY DEF Init
<1>3. ASSUME NEW s \in Servers
      PROVE  /\ Record(s) = [known |-> s \in migrated, discovered |-> s \notin migrated,
                             enabled |-> TRUE, archived |-> FALSE]
             /\ LastReport(s) = [fit |-> "none", enabled |-> s \in migrated, seen |-> 0,
                                 sent |-> IF s \in migrated THEN 0 ELSE None,
                                 inbounds |-> Records!NoInbounds]
  <2>1. /\ (registry[s].status = "row") = (s \in migrated)
        /\ (registry[s].source = "discovered") = (s \notin migrated)
        /\ registry[s].enabled = TRUE /\ registry[s].archived = FALSE
        /\ state[s].fit = "none" /\ registry[s].seen = 0
        /\ state[s].enabled = (s \in migrated)
        /\ state[s].sent = IF s \in migrated THEN 0 ELSE None
    <3>1. CASE s \in migrated
      <4>1. /\ registry[s] = [NoRegistry EXCEPT !.status = "row", !.source = "migrated"]
            /\ state[s] = [NoState EXCEPT !.sent = 0, !.enabled = TRUE]
        BY <1>1, <3>1
      <4> QED BY <3>1, <4>1 DEF NoRegistry, NoState
    <3>2. CASE s \notin migrated
      <4>1. registry[s] = NoRegistry /\ state[s] = NoState BY <1>1, <3>2
      <4>2. NoState.sent = None /\ NoState.enabled = FALSE /\ NoState.fit = "none"
        BY DEF NoState
      <4>3. /\ NoRegistry.status = "none" /\ NoRegistry.source = "discovered"
            /\ NoRegistry.enabled = TRUE /\ NoRegistry.archived = FALSE
            /\ NoRegistry.fit = "none" /\ NoRegistry.seen = 0
        BY DEF NoRegistry
      <4>4. (s \in migrated) = FALSE /\ (s \notin migrated) = TRUE BY <3>2
      <4>5. /\ (registry[s].status = "row") = FALSE
            /\ (registry[s].source = "discovered") = TRUE
            /\ state[s].fit = "none"
        BY <4>1, <4>2, <4>3
      <4> QED BY <3>2, <4>1, <4>2, <4>3, <4>4, <4>5, Zenon
    <3> QED BY <3>1, <3>2
  <2>2. inbound[s] = Records!NoInbounds BY <1>2 DEF Records!NoInbounds
  <2> QED BY <2>1, <2>2, Zenon DEF Record, LastReport
<1> QED BY <1>2, <1>3, Zenon DEF Records!RecordsInit

\* NodeRegistry implements ServerRecords: whatever the queues, crashes and a slow
\* UPDATE do, every change of a server is one step of its record.
THEOREM RefinesRecords == Spec => ImplementsRecords
<1>1. Init => Records!RecordsInit BY RecordsStart
<1>2. RegistryInv /\ OrderInv /\ [Next]_vars => [Records!RecordsNext]_(Records!recordVars)
  BY EveryStepRecords DEF RecordsStep
<1>3. Spec => []OrderInv
  BY RegistryInvariant, OrderInit, OrderStep, PTL DEF Spec
<1> QED BY <1>1, <1>2, <1>3, RegistryInvariant, PTL
        DEF Spec, ImplementsRecords, Records!RecordsSpec
=============================================================================
