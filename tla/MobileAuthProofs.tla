--------------------------- MODULE MobileAuthProofs ---------------------------
(* Theorems about MobileAuth, for every number of users, devices, logins,      *)
(* sessions and requests at once; the last but one is that it implements       *)
(* module MobileAccess.                                                        *)
EXTENDS MobileAuth, FiniteSetTheorems, TLAPS

-----------------------------------------------------------------------------
(***************************************************************************)
(* The inductive invariant                                                 *)
(***************************************************************************)

\* The requests between a statement and the next one, by what they have learnt.
Exchanging == {"user", "subscription", "insert", "device", "count", "take",
               "create", "touch", "commit"}
Limited    == {"device", "count", "take", "create", "touch", "commit"}
Refreshing == {"used", "reuse", "match", "rotate"}
Entering   == {"session", "check", "account", "granted", "logout", "sessions"}

\* A request holds what its next statement reads.
Equipped(t) ==
    /\ t.pc = "approve" => t.login \in Logins /\ t.user \in Users
    /\ t.pc = "login" => t.login \in Logins /\ t.install \in Installs
    /\ t.pc \in Exchanging =>
          t.login \in Logins /\ t.user \in Users /\ t.install \in Installs
    /\ t.pc \in Refreshing => t.token \in Tokens /\ t.token[2] < MaxRotations
    /\ t.pc \in Entering => t.session \in Sessions
    /\ t.pc = "sessions" => t.install \in Installs

\* A row is locked by one transaction at most.
Exclusion == \A g, h \in Requests : g # h => locks[g] \cap locks[h] = {}

\* An exchange under way: the login is locked, not exchanged, and of the install and
\* the user the exchange is for; the limit that was read is in force as long as the
\* subscription is locked; a device that is still to be created was counted; one that
\* exists is the user's.
ExchangeInv(g) ==
    LET t == task[g]
        d == device[task[g].install]
    IN  /\ t.pc \in Exchanging =>
              /\ <<"login", t.login>> \in locks[g]
              /\ login[t.login].status = "approved" /\ ~login[t.login].exchanged
              /\ login[t.login].install = t.install /\ login[t.login].user = t.user
        /\ t.pc \in Limited =>
              /\ <<"subscription", t.user>> \in locks[g]
              /\ \/ limit[t.user] = t.limit
                 \/ limit[t.user] = None /\ t.limit = 1
        /\ t.pc \in {"take", "create", "commit"} /\ d.status = "none" =>
              Cardinality(ActiveDevices(t.user)) < t.limit
        /\ t.pc = "touch" => d.status # "none" /\ d.user = t.user
        /\ t.pc = "commit" =>
              /\ <<"device", t.install>> \in locks[g]
              /\ d.status # "none" => d.user = t.user

\* A refresh under way: the session whose token rotates is locked and has it; a
\* token that was used before is still known to be, until the session is revoked.
RefreshInv(g) ==
    LET t == task[g]
        s == task[g].token[1]
    IN  /\ t.pc \in Refreshing => session[s].status # "none"
        /\ t.pc \in {"used", "match"} /\ t.dead => IsDead(s)
        /\ t.pc = "rotate" =>
              /\ <<"session", s>> \in locks[g]
              /\ session[s].status = "live" /\ session[s].current = t.token[2]
              /\ t.dead => ~DeviceIsActive(s)
        /\ t.spent => t.pc \in {"used", "reuse"} /\ (t.pc = "used" => t.token \in used)

\* A request with an access token, and the end of a refresh: what was dead when it
\* began still is, and no such request goes further than the check of the device.
AccessInv(g) ==
    LET t == task[g]
    IN  /\ t.pc \in Entering => session[t.session].status # "none"
        /\ t.pc = "session" /\ t.dead => IsDead(t.session)
        /\ t.pc = "check" /\ t.dead => ~DeviceIsActive(t.session)
        /\ t.pc \in Entering \ {"session", "check"} => ~t.dead
        /\ t.pc = "sessions" => device[t.install].status # "none"

RequestInv(g) ==
    Equipped(task[g]) /\ ExchangeInv(g) /\ RefreshInv(g) /\ AccessInv(g)

\* A session is one of its device's owner, and came from an exchanged login.
Rooted(s) ==
    IF session[s].status = "none" THEN session[s].from = None
    ELSE /\ session[s].install \in Installs
         /\ device[session[s].install].status # "none"
         /\ device[session[s].install].user = session[s].user
         /\ session[s].from \in Logins
         /\ login[session[s].from].status # "none" /\ login[session[s].from].exchanged

SessionInv == (\A s \in Sessions : Rooted(s)) /\ OneSessionPerLogin

MobileInv ==
    /\ TypeOK
    /\ Exclusion
    /\ \A g \in Requests : RequestInv(g)
    /\ SessionInv

-----------------------------------------------------------------------------
(***************************************************************************)
(* What a step leaves to the requests that do not take it                  *)
(***************************************************************************)

\* A device keeps its owner and a revoked one is not used again; a session keeps
\* its owner, its device and its login, and one that has ended does not return.
Growth ==
    /\ \A i \in Installs : device[i].status # "none" =>
          /\ device'[i].status # "none" /\ device'[i].user = device[i].user
          /\ device[i].status # "active" => device'[i].status # "active"
    /\ \A s \in Sessions : session[s].status # "none" =>
          /\ session'[s].status # "none" /\ session'[s].install = session[s].install
          /\ session'[s].user = session[s].user /\ session'[s].from = session[s].from
          /\ session[s].status # "live" => session'[s].status # "live"

\* The rows that h has locked stay, and so does what they protect.
Respects(h) ==
    /\ \A l \in Logins : <<"login", l>> \in locks[h] /\ login[l].status # "none" =>
          login'[l] = login[l]
    /\ \A u \in Users : <<"subscription", u>> \in locks[h] =>
          limit'[u] = limit[u] /\ ActiveDevices(u)' \subseteq ActiveDevices(u)
    /\ \A i \in Installs : <<"device", i>> \in locks[h] /\ device[i].status = "none" =>
          device'[i].status = "none"
    /\ \A s \in Sessions : <<"session", s>> \in locks[h] /\ session[s].status # "none" =>
          session'[s] = session[s]
    /\ task[h].token \in used => task[h].token \in used'

LEMMA TokenParts ==
    ASSUME NEW t \in Tokens
    PROVE  t[1] \in Sessions /\ t[2] \in 0..MaxRotations /\ t[2] \in Nat
BY MobileAssumption DEF Tokens

LEMMA ActiveFinite ==
    ASSUME NEW u
    PROVE  IsFiniteSet(ActiveDevices(u)) /\ Cardinality(ActiveDevices(u)) \in Nat
<1>1. ActiveDevices(u) \subseteq Installs BY DEF ActiveDevices
<1>2. IsFiniteSet(ActiveDevices(u)) BY <1>1, MobileAssumption, FS_Subset
<1> QED BY <1>2, FS_CardinalityType

\* Fewer devices stay below the limit.
LEMMA FewerDevices ==
    ASSUME NEW u, NEW n \in Nat, ActiveDevices(u)' \subseteq ActiveDevices(u),
           Cardinality(ActiveDevices(u)) < n
    PROVE  Cardinality(ActiveDevices(u)') < n
<1>1. /\ IsFiniteSet(ActiveDevices(u)) /\ Cardinality(ActiveDevices(u)) \in Nat
  BY ActiveFinite
<1> DEFINE A == ActiveDevices(u)
           B == ActiveDevices(u)'
<1>2. IsFiniteSet(A) /\ B \subseteq A BY <1>1
<1> HIDE DEF A, B
<1>3. IsFiniteSet(B) /\ Cardinality(B) <= Cardinality(A) BY <1>2, FS_Subset
<1>4. Cardinality(B) \in Nat BY <1>3, FS_CardinalityType
<1> QED BY <1>1, <1>3, <1>4 DEF A, B

\* A dead session stays dead.
LEMMA DeadStays ==
    ASSUME MobileInv, Growth, NEW s \in Sessions, session[s].status # "none"
    PROVE  /\ session'[s].status # "none"
           /\ IsDead(s) => IsDead(s)'
           /\ ~DeviceIsActive(s) => ~DeviceIsActive(s)'
<1>1. session[s].install \in Installs /\ device[session[s].install].status # "none"
  BY DEF MobileInv, SessionInv, Rooted
<1>2. session'[s].install = session[s].install /\ session'[s].status # "none"
  BY DEF Growth
<1>3. device[session[s].install].status # "active" => device'[session[s].install].status # "active"
  BY <1>1 DEF Growth
<1>4. session[s].status # "live" => session'[s].status # "live" BY DEF Growth
<1> QED BY <1>2, <1>3, <1>4 DEF IsDead, DeviceIsActive

LEMMA Undisturbed ==
    ASSUME MobileInv, Growth, NEW h \in Requests, Respects(h),
           task'[h] = task[h], locks'[h] = locks[h]
    PROVE  RequestInv(h)'
<1> DEFINE t == task[h]
<1>0. t \in Task /\ Equipped(t) /\ ExchangeInv(h) /\ RefreshInv(h) /\ AccessInv(h)
  BY DEF MobileInv, TypeOK, RequestInv
<1>1. Equipped(task'[h]) BY <1>0
<1>2. ExchangeInv(h)'
  <2>1. t.pc \in Exchanging =>
            /\ t.login \in Logins /\ t.user \in Users /\ t.install \in Installs
            /\ <<"login", t.login>> \in locks[h] /\ login'[t.login] = login[t.login]
    BY <1>0 DEF Equipped, ExchangeInv, Respects
  <2>2. t.pc \in Limited =>
            /\ t.pc \in Exchanging
            /\ <<"subscription", t.user>> \in locks[h] /\ limit'[t.user] = limit[t.user]
            /\ ActiveDevices(t.user)' \subseteq ActiveDevices(t.user)
    BY <1>0, <2>1 DEF Exchanging, Limited, ExchangeInv, Respects
  <2>3. t.limit \in Nat BY <1>0 DEF Task
  <2>4. t.pc \in {"take", "create", "commit"} /\ device'[t.install].status = "none" =>
            Cardinality(ActiveDevices(t.user)') < t.limit
    <3>1. SUFFICES ASSUME t.pc \in {"take", "create", "commit"},
                          device'[t.install].status = "none"
                   PROVE  Cardinality(ActiveDevices(t.user)') < t.limit
      OBVIOUS
    <3>2. t.pc \in Limited BY <3>1 DEF Limited
    <3>3. device[t.install].status = "none" BY <2>1, <2>2, <3>1, <3>2 DEF Growth
    <3>4. Cardinality(ActiveDevices(t.user)) < t.limit BY <1>0, <3>1, <3>3 DEF ExchangeInv
    <3> QED BY <2>2, <2>3, <3>2, <3>4, FewerDevices
  <2>5. t.pc = "touch" => device'[t.install].status # "none" /\ device'[t.install].user = t.user
    BY <1>0, <2>1 DEF ExchangeInv, Growth, Exchanging
  <2>6. t.pc = "commit" =>
            /\ <<"device", t.install>> \in locks[h]
            /\ device'[t.install].status # "none" => device'[t.install].user = t.user
    BY <1>0, <2>1 DEF ExchangeInv, Growth, Respects, Exchanging
  <2> QED BY <1>0, <2>1, <2>2, <2>4, <2>5, <2>6 DEF ExchangeInv
<1>3. RefreshInv(h)'
  <2>1. t.pc \in Refreshing =>
            t.token \in Tokens /\ t.token[1] \in Sessions /\ session[t.token[1]].status # "none"
    BY <1>0, TokenParts DEF Equipped, RefreshInv
  <2>2. t.pc \in Refreshing => /\ session'[t.token[1]].status # "none"
                               /\ IsDead(t.token[1]) => IsDead(t.token[1])'
                               /\ ~DeviceIsActive(t.token[1]) => ~DeviceIsActive(t.token[1])'
    BY <2>1, DeadStays
  <2>3. t.pc = "rotate" => /\ <<"session", t.token[1]>> \in locks[h]
                           /\ session'[t.token[1]] = session[t.token[1]]
    BY <1>0, <2>1 DEF RefreshInv, Respects, Refreshing
  <2>4. t.spent => t.pc \in {"used", "reuse"} /\ (t.pc = "used" => t.token \in used')
    BY <1>0 DEF RefreshInv, Respects
  <2> QED BY <1>0, <2>2, <2>3, <2>4 DEF RefreshInv, Refreshing
<1>4. AccessInv(h)'
  <2>1. t.pc \in Entering => t.session \in Sessions /\ session[t.session].status # "none"
    BY <1>0 DEF Equipped, AccessInv
  <2>2. t.pc \in Entering => /\ session'[t.session].status # "none"
                             /\ IsDead(t.session) => IsDead(t.session)'
                             /\ ~DeviceIsActive(t.session) => ~DeviceIsActive(t.session)'
    BY <2>1, DeadStays
  <2>3. t.pc = "sessions" => device'[t.install].status # "none"
    BY <1>0 DEF Equipped, AccessInv, Growth
  <2> QED BY <1>0, <2>2, <2>3 DEF AccessInv, Entering
<1> QED BY <1>1, <1>2, <1>3, <1>4 DEF RequestInv

\* A login that was used stays so.
LoginsKept ==
    \A l \in Logins : login[l].status # "none" =>
        login'[l].status # "none" /\ (login[l].exchanged => login'[l].exchanged)

\* What roots a session stays.
LEMMA RootKept ==
    ASSUME MobileInv, Growth, LoginsKept, NEW s \in Sessions,
           session[s].status = "none" => session'[s] = session[s]
    PROVE  Rooted(s)'
<1>0. Rooted(s) BY DEF MobileInv, SessionInv
<1>1. CASE session[s].status = "none"
  <2>1. session'[s] = session[s] BY <1>1
  <2> QED BY <1>0, <1>1, <2>1 DEF Rooted
<1>2. CASE session[s].status # "none"
  <2>1. /\ session'[s].status # "none" /\ session'[s].install = session[s].install
        /\ session'[s].user = session[s].user /\ session'[s].from = session[s].from
    BY <1>2 DEF Growth
  <2>2. /\ session[s].install \in Installs /\ session[s].from \in Logins
        /\ device[session[s].install].status # "none"
        /\ device[session[s].install].user = session[s].user
        /\ login[session[s].from].status # "none" /\ login[session[s].from].exchanged
    BY <1>0, <1>2 DEF Rooted
  <2>3. /\ device'[session[s].install].status # "none"
        /\ device'[session[s].install].user = session[s].user
    BY <2>2 DEF Growth
  <2>4. login'[session[s].from].status # "none" /\ login'[session[s].from].exchanged
    BY <2>2 DEF LoginsKept
  <2> QED BY <2>1, <2>2, <2>3, <2>4 DEF Rooted
<1> QED BY <1>1, <1>2

\* No session is added, and what roots the sessions stays.
LEMMA SessionsKept ==
    ASSUME MobileInv, Growth, LoginsKept,
           \A s \in Sessions : session[s].status = "none" => session'[s] = session[s]
    PROVE  SessionInv'
<1>1. \A s \in Sessions : Rooted(s)' BY RootKept
<1>2. \A s \in Sessions : session'[s].from = session[s].from BY DEF Growth
<1>3. OneSessionPerLogin' BY <1>2 DEF MobileInv, SessionInv, OneSessionPerLogin
<1> QED BY <1>1, <1>3 DEF SessionInv

\* A step of the request g.
LEMMA StepOf ==
    ASSUME MobileInv, NEW g \in Requests, TypeOK', Exclusion', Growth, SessionInv',
           \A h \in Requests \ {g} : Respects(h) /\ task'[h] = task[h] /\ locks'[h] = locks[h],
           RequestInv(g)'
    PROVE  MobileInv'
BY Undisturbed DEF MobileInv

-----------------------------------------------------------------------------
(***************************************************************************)
(* Statements that write nothing                                           *)
(***************************************************************************)

LEMMA DatabaseStays ==
    ASSUME MobileInv, UNCHANGED database
    PROVE  Growth /\ SessionInv' /\ \A h \in Requests : Respects(h)
<1>1. UNCHANGED <<login, limit, device, session, used>> BY DEF database
<1>2. Growth BY <1>1 DEF Growth
<1>3. \A h \in Requests : Respects(h) BY <1>1 DEF Respects, ActiveDevices
<1>4. LoginsKept BY <1>1 DEF LoginsKept
<1>5. SessionInv' BY <1>1, <1>2, <1>4, SessionsKept
<1> QED BY <1>2, <1>3, <1>5

\* What happens to the locks of g in a step of g.
Locking(g) ==
    \/ UNCHANGED locks
    \/ locks' = [locks EXCEPT ![g] = {}]
    \/ \E r \in Rows : Free(g, r) /\ Lock(g, r)

LEMMA Locked ==
    ASSUME MobileInv, NEW g \in Requests, Locking(g)
    PROVE  /\ locks' \in [Requests -> SUBSET Rows] /\ Exclusion'
           /\ \A h \in Requests \ {g} : locks'[h] = locks[h]
<1>0. locks \in [Requests -> SUBSET Rows] /\ Exclusion BY DEF MobileInv, TypeOK
<1>1. CASE UNCHANGED locks BY <1>0, <1>1 DEF Exclusion
<1>2. CASE locks' = [locks EXCEPT ![g] = {}] BY <1>0, <1>2 DEF Exclusion
<1>3. CASE \E r \in Rows : Free(g, r) /\ Lock(g, r)
  <2>1. PICK r \in Rows : Free(g, r) /\ Lock(g, r) BY <1>3
  <2>2. /\ locks' \in [Requests -> SUBSET Rows] /\ locks'[g] = locks[g] \cup {r}
        /\ \A h \in Requests \ {g} : locks'[h] = locks[h]
    BY <1>0, <2>1 DEF Lock
  <2>3. \A h \in Requests \ {g} : r \notin locks[h] BY <2>1 DEF Free
  <2>4. Exclusion' BY <1>0, <2>2, <2>3 DEF Exclusion
  <2> QED BY <2>2, <2>4
<1> QED BY <1>1, <1>2, <1>3 DEF Locking

\* The request g becomes t.
Becomes(g, t) ==
    /\ task' \in [Requests -> Task] /\ task'[g] = t
    /\ \A h \in Requests \ {g} : task'[h] = task[h]

LEMMA Moved ==
    ASSUME MobileInv, NEW g \in Requests, NEW t \in Task, task' = [task EXCEPT ![g] = t]
    PROVE  Becomes(g, t)
BY DEF MobileInv, TypeOK, Becomes

LEMMA QuietStep ==
    ASSUME MobileInv, NEW g \in Requests, NEW t, Becomes(g, t), Locking(g),
           UNCHANGED <<database, clock>>, RequestInv(g)'
    PROVE  MobileInv'
<1>1. Growth /\ SessionInv' /\ \A h \in Requests : Respects(h) BY DatabaseStays
<1>2. /\ locks' \in [Requests -> SUBSET Rows] /\ Exclusion'
      /\ \A h \in Requests \ {g} : locks'[h] = locks[h]
  BY Locked
<1>3. TypeOK' BY <1>2 DEF MobileInv, TypeOK, Becomes, database, clock
<1> QED BY <1>1, <1>2, <1>3, StepOf DEF Becomes

\* What Goto changes.
LEMMA Went ==
    ASSUME MobileInv, NEW g \in Requests, NEW pc \in PCs, Goto(g, pc)
    PROVE  /\ Becomes(g, [task[g] EXCEPT !.pc = pc])
           /\ task'[g].pc = pc /\ task'[g].kind = task[g].kind
           /\ task'[g].login = task[g].login /\ task'[g].user = task[g].user
           /\ task'[g].install = task[g].install /\ task'[g].limit = task[g].limit
           /\ task'[g].token = task[g].token /\ task'[g].session = task[g].session
           /\ task'[g].late = task[g].late
           /\ task'[g].dead = task[g].dead /\ task'[g].spent = task[g].spent
<1>0. task[g] \in Task BY DEF MobileInv, TypeOK
<1> DEFINE t == [task[g] EXCEPT !.pc = pc]
<1>1. /\ t \in Task /\ t.pc = pc /\ t.kind = task[g].kind
      /\ t.login = task[g].login /\ t.user = task[g].user
      /\ t.install = task[g].install /\ t.limit = task[g].limit
      /\ t.token = task[g].token /\ t.session = task[g].session
      /\ t.late = task[g].late /\ t.dead = task[g].dead /\ t.spent = task[g].spent
  BY <1>0 DEF Task
<1>2. task' = [task EXCEPT ![g] = t] BY DEF Goto
<1> HIDE DEF t
<1>3. Becomes(g, t) BY <1>1, <1>2, Moved
<1> QED BY <1>1, <1>3 DEF Becomes, t

LEMMA IdleType ==
    /\ IdleTask \in Task /\ IdleTask.pc = "idle" /\ IdleTask.spent = FALSE
    /\ IdleTask.token = None
BY DEF IdleTask, Task, PCs

\* A request that is over has nothing to keep.
LEMMA Over ==
    ASSUME NEW g \in Requests, task'[g].pc \in {"idle", "aborted"}, ~task'[g].spent
    PROVE  RequestInv(g)'
<1>1. Equipped(task'[g])
  BY DEF Equipped, Exchanging, Refreshing, Entering
<1>2. ExchangeInv(g)' BY DEF ExchangeInv, Exchanging, Limited
<1>3. RefreshInv(g)' BY DEF RefreshInv, Refreshing
<1>4. AccessInv(g)' BY DEF AccessInv, Entering
<1> QED BY <1>1, <1>2, <1>3, <1>4 DEF RequestInv

LEMMA Ended ==
    ASSUME MobileInv, NEW g \in Requests, End(g)
    PROVE  /\ Becomes(g, IdleTask) /\ Locking(g) /\ RequestInv(g)'
           /\ locks' = [locks EXCEPT ![g] = {}]
<1>1. Becomes(g, IdleTask) BY IdleType, Moved DEF End
<1>2. Locking(g) /\ locks' = [locks EXCEPT ![g] = {}] BY DEF End, Locking
<1>3. task'[g] = IdleTask BY <1>1 DEF Becomes
<1> QED BY <1>1, <1>2, <1>3, IdleType, Over

LEMMA QuietEnd ==
    ASSUME MobileInv, NEW g \in Requests, End(g), UNCHANGED <<database, clock>>
    PROVE  MobileInv'
BY Ended, QuietStep

\* Where a request is decides which part of its invariant says something.
LEMMA OnExchange ==
    ASSUME NEW g \in Requests, task'[g].pc \in Exchanging, ~task'[g].spent,
           task'[g].login \in Logins, task'[g].user \in Users, task'[g].install \in Installs,
           ExchangeInv(g)'
    PROVE  RequestInv(g)'
<1>1. Equipped(task'[g]) BY DEF Equipped, Exchanging, Refreshing, Entering
<1>2. RefreshInv(g)' BY DEF RefreshInv, Refreshing, Exchanging
<1>3. AccessInv(g)' BY DEF AccessInv, Entering, Exchanging
<1> QED BY <1>1, <1>2, <1>3 DEF RequestInv

LEMMA OnRefresh ==
    ASSUME NEW g \in Requests, task'[g].pc \in Refreshing,
           task'[g].token \in Tokens, task'[g].token[2] < MaxRotations, RefreshInv(g)'
    PROVE  RequestInv(g)'
<1>1. Equipped(task'[g]) BY DEF Equipped, Exchanging, Refreshing, Entering
<1>2. ExchangeInv(g)' BY DEF ExchangeInv, Exchanging, Limited, Refreshing
<1>3. AccessInv(g)' BY DEF AccessInv, Entering, Refreshing
<1> QED BY <1>1, <1>2, <1>3 DEF RequestInv

LEMMA OnAccess ==
    ASSUME NEW g \in Requests, task'[g].pc \in Entering, ~task'[g].spent,
           task'[g].session \in Sessions,
           task'[g].pc = "sessions" => task'[g].install \in Installs,
           AccessInv(g)'
    PROVE  RequestInv(g)'
<1>1. Equipped(task'[g]) BY DEF Equipped, Exchanging, Refreshing, Entering
<1>2. ExchangeInv(g)' BY DEF ExchangeInv, Exchanging, Limited, Entering
<1>3. RefreshInv(g)' BY DEF RefreshInv, Refreshing, Entering
<1> QED BY <1>1, <1>2, <1>3 DEF RequestInv

-----------------------------------------------------------------------------
(***************************************************************************)
(* Beginnings and failures                                                 *)
(***************************************************************************)

LEMMA BeginLoginSteps ==
    ASSUME MobileInv, NEW g \in Requests,
           \/ \E l \in Logins, u \in Users : BeginApprove(g, l, u)
           \/ \E l \in Logins, i \in Installs : BeginExchange(g, l, i)
    PROVE  MobileInv'
<1>0. expired \subseteq Logins \cup Sessions /\ Kinds \subseteq RequestKinds
  BY MobileAssumption DEF MobileInv, TypeOK
<1>1. ASSUME NEW l \in Logins, NEW u \in Users, BeginApprove(g, l, u) PROVE MobileInv'
  <2> DEFINE t == [IdleTask EXCEPT !.pc = "approve", !.kind = "approve", !.login = l,
                                   !.user = u, !.late = expired \cap {l}]
  <2>1. /\ t \in Task /\ t.pc = "approve" /\ t.login = l /\ t.user = u /\ t.spent = FALSE
    BY <1>0 DEF IdleTask, Task, PCs, RequestKinds
  <2>2. task' = [task EXCEPT ![g] = t] /\ UNCHANGED <<database, clock>> /\ UNCHANGED locks
    BY <1>1 DEF BeginApprove, Begin, clock
  <2> HIDE DEF t
  <2>3. Becomes(g, t) /\ task'[g] = t BY <2>1, <2>2, Moved DEF Becomes
  <2>4. Equipped(task'[g]) BY <2>1, <2>3 DEF Equipped, Exchanging, Refreshing, Entering
  <2>5. ExchangeInv(g)' BY <2>1, <2>3 DEF ExchangeInv, Exchanging, Limited
  <2>6. RefreshInv(g)' BY <2>1, <2>3 DEF RefreshInv, Refreshing
  <2>7. AccessInv(g)' BY <2>1, <2>3 DEF AccessInv, Entering
  <2> QED BY <2>2, <2>3, <2>4, <2>5, <2>6, <2>7, QuietStep DEF RequestInv, Locking
<1>2. ASSUME NEW l \in Logins, NEW i \in Installs, BeginExchange(g, l, i) PROVE MobileInv'
  <2> DEFINE t == [IdleTask EXCEPT !.pc = "login", !.kind = "exchange", !.login = l,
                                   !.install = i, !.late = expired \cap {l}]
  <2>1. /\ t \in Task /\ t.pc = "login" /\ t.login = l /\ t.install = i /\ t.spent = FALSE
    BY <1>0 DEF IdleTask, Task, PCs, RequestKinds
  <2>2. task' = [task EXCEPT ![g] = t] /\ UNCHANGED <<database, clock>> /\ UNCHANGED locks
    BY <1>2 DEF BeginExchange, Begin, clock
  <2> HIDE DEF t
  <2>3. Becomes(g, t) /\ task'[g] = t BY <2>1, <2>2, Moved DEF Becomes
  <2>4. Equipped(task'[g]) BY <2>1, <2>3 DEF Equipped, Exchanging, Refreshing, Entering
  <2>5. ExchangeInv(g)' BY <2>1, <2>3 DEF ExchangeInv, Exchanging, Limited
  <2>6. RefreshInv(g)' BY <2>1, <2>3 DEF RefreshInv, Refreshing
  <2>7. AccessInv(g)' BY <2>1, <2>3 DEF AccessInv, Entering
  <2> QED BY <2>2, <2>3, <2>4, <2>5, <2>6, <2>7, QuietStep DEF RequestInv, Locking
<1> QED BY <1>1, <1>2

LEMMA BeginSessionSteps ==
    ASSUME MobileInv, NEW g \in Requests,
           \/ \E t \in Tokens, i \in Installs : BeginRefresh(g, t, i)
           \/ \E s \in Sessions : BeginAccess(g, s)
    PROVE  MobileInv'
<1>0. expired \subseteq Logins \cup Sessions /\ Kinds \subseteq RequestKinds
  BY MobileAssumption DEF MobileInv, TypeOK
<1>1. ASSUME NEW k \in Tokens, NEW i \in Installs, BeginRefresh(g, k, i) PROVE MobileInv'
  <2> DEFINE dead  == IsDead(k[1])
             spent == k \in used
             t == [IdleTask EXCEPT !.pc = "used", !.kind = "refresh", !.token = k,
                                   !.install = i, !.late = expired \cap {k[1]},
                                   !.dead = dead, !.spent = spent]
  <2>1. dead \in BOOLEAN /\ spent \in BOOLEAN BY DEF IsDead
  <2>2. /\ task' = [task EXCEPT ![g] = t] /\ UNCHANGED <<database, clock>> /\ UNCHANGED locks
        /\ session[k[1]].status # "none" /\ k[2] < MaxRotations
    BY <1>1 DEF BeginRefresh, Begin, clock
  <2>3. UNCHANGED <<device, session, used>> BY <2>2 DEF database
  <2>4. dead = IsDead(k[1]) /\ spent = (k \in used) OBVIOUS
  <2> HIDE DEF dead, spent
  <2>5. /\ t \in Task /\ t.pc = "used" /\ t.token = k /\ t.dead = dead /\ t.spent = spent
    BY <1>0, <2>1 DEF IdleTask, Task, PCs, RequestKinds
  <2> HIDE DEF t
  <2>6. Becomes(g, t) /\ task'[g] = t BY <2>2, <2>5, Moved DEF Becomes
  <2>7. RefreshInv(g)'
    BY <2>2, <2>3, <2>4, <2>5, <2>6 DEF RefreshInv, Refreshing, IsDead
  <2>8. RequestInv(g)' BY <2>2, <2>5, <2>6, <2>7, OnRefresh DEF Refreshing
  <2> QED BY <2>2, <2>6, <2>8, QuietStep DEF Locking
<1>2. ASSUME NEW s \in Sessions, BeginAccess(g, s) PROVE MobileInv'
  <2> DEFINE dead == IsDead(s)
             t == [IdleTask EXCEPT !.pc = "session", !.kind = "access", !.session = s,
                                   !.dead = dead]
  <2>1. dead \in BOOLEAN BY DEF IsDead
  <2>2. /\ task' = [task EXCEPT ![g] = t] /\ UNCHANGED <<database, clock>> /\ UNCHANGED locks
        /\ session[s].status # "none"
    BY <1>2 DEF BeginAccess, Begin, clock
  <2>3. UNCHANGED <<device, session, used>> BY <2>2 DEF database
  <2>4. dead = IsDead(s) OBVIOUS
  <2> HIDE DEF dead
  <2>5. /\ t \in Task /\ t.pc = "session" /\ t.session = s /\ t.dead = dead
        /\ t.spent = FALSE
    BY <2>1 DEF IdleTask, Task, PCs, RequestKinds
  <2> HIDE DEF t
  <2>6. Becomes(g, t) /\ task'[g] = t BY <2>2, <2>5, Moved DEF Becomes
  <2>7. AccessInv(g)' BY <2>2, <2>3, <2>4, <2>5, <2>6 DEF AccessInv, Entering, IsDead
  <2>8. RequestInv(g)' BY <2>5, <2>6, <2>7, OnAccess DEF Entering
  <2> QED BY <2>2, <2>6, <2>8, QuietStep DEF Locking
<1> QED BY <1>1, <1>2

LEMMA FailureSteps ==
    ASSUME MobileInv, NEW g \in Requests, Abort(g) \/ Fail(g) \/ Answer(g)
    PROVE  MobileInv'
<1>1. CASE Abort(g)
  <2> DEFINE t == [IdleTask EXCEPT !.pc = "aborted"]
  <2>1. t \in Task /\ t.pc = "aborted" /\ t.spent = FALSE BY DEF IdleTask, Task, PCs
  <2>2. /\ task' = [task EXCEPT ![g] = t] /\ locks' = [locks EXCEPT ![g] = {}]
        /\ UNCHANGED <<database, clock>>
    BY <1>1 DEF Abort
  <2> HIDE DEF t
  <2>3. Becomes(g, t) /\ task'[g] = t BY <2>1, <2>2, Moved DEF Becomes
  <2>4. RequestInv(g)' BY <2>1, <2>3, Over
  <2> QED BY <2>2, <2>3, <2>4, QuietStep DEF Locking
<1>2. CASE Fail(g) \/ Answer(g) BY <1>2, QuietEnd DEF Fail, Answer
<1> QED BY <1>1, <1>2

-----------------------------------------------------------------------------
(***************************************************************************)
(* The statements of an exchange                                           *)
(***************************************************************************)

\* What a request of an exchange knows.
LEMMA Known ==
    ASSUME MobileInv, NEW g \in Requests, task[g].pc \in Exchanging
    PROVE  /\ task[g].login \in Logins /\ task[g].user \in Users
           /\ task[g].install \in Installs /\ task[g].limit \in Nat
           /\ ~task[g].spent /\ task[g] \in Task
           /\ <<"login", task[g].login>> \in locks[g]
           /\ login[task[g].login].status = "approved" /\ ~login[task[g].login].exchanged
           /\ login[task[g].login].install = task[g].install
           /\ login[task[g].login].user = task[g].user
<1>1. task[g] \in Task /\ Equipped(task[g]) /\ ExchangeInv(g) /\ RefreshInv(g)
  BY DEF MobileInv, TypeOK, RequestInv
<1>2. task[g].limit \in Nat /\ task[g].spent \in BOOLEAN BY <1>1 DEF Task
<1>3. ~task[g].spent BY <1>1 DEF RefreshInv, Exchanging
<1> QED BY <1>1, <1>2, <1>3 DEF Equipped, ExchangeInv

\* The next statement of an exchange, by Goto.
LEMMA ExchangeGoes ==
    ASSUME MobileInv, NEW g \in Requests, NEW pc \in Exchanging, Goto(g, pc),
           task[g].pc \in Exchanging, Locking(g), UNCHANGED <<database, clock>>,
           locks[g] \subseteq locks'[g],
           pc \in Limited => \/ task[g].pc \in Limited,
           pc \in {"take", "create", "commit"} /\ device[task[g].install].status = "none" =>
               Cardinality(ActiveDevices(task[g].user)) < task[g].limit,
           pc = "touch" => /\ device[task[g].install].status # "none"
                           /\ device[task[g].install].user = task[g].user,
           pc = "commit" =>
               /\ <<"device", task[g].install>> \in locks'[g]
               /\ device[task[g].install].status # "none"
                     => device[task[g].install].user = task[g].user
    PROVE  MobileInv'
<1>1. pc \in PCs BY DEF Exchanging, PCs
<1>2. /\ task[g].login \in Logins /\ task[g].user \in Users
      /\ task[g].install \in Installs /\ ~task[g].spent
      /\ <<"login", task[g].login>> \in locks[g]
      /\ login[task[g].login].status = "approved" /\ ~login[task[g].login].exchanged
      /\ login[task[g].login].install = task[g].install
      /\ login[task[g].login].user = task[g].user
      /\ ExchangeInv(g)
  BY Known DEF MobileInv, RequestInv
<1>3. /\ Becomes(g, [task[g] EXCEPT !.pc = pc])
      /\ task'[g].pc = pc /\ task'[g].login = task[g].login /\ task'[g].user = task[g].user
      /\ task'[g].install = task[g].install /\ task'[g].limit = task[g].limit
      /\ task'[g].spent = task[g].spent
  BY <1>1, Went
<1>4. UNCHANGED <<login, limit, device>> BY DEF database
<1>5. ActiveDevices(task[g].user)' = ActiveDevices(task[g].user)
  BY <1>3, <1>4 DEF ActiveDevices
<1>6. ExchangeInv(g)'
  <2>1. pc \in Limited => /\ <<"subscription", task[g].user>> \in locks[g]
                          /\ \/ limit[task[g].user] = task[g].limit
                             \/ limit[task[g].user] = None /\ task[g].limit = 1
    BY <1>2 DEF ExchangeInv
  <2> QED BY <1>2, <1>3, <1>4, <1>5, <2>1 DEF ExchangeInv
<1>7. RequestInv(g)' BY <1>2, <1>3, <1>6, OnExchange
<1> QED BY <1>3, <1>7, QuietStep

LEMMA LockLoginStep ==
    ASSUME MobileInv, NEW g \in Requests, LockLogin(g)
    PROVE  MobileInv'
<1> DEFINE l == task[g].login
           t == [task[g] EXCEPT !.pc = "user", !.user = login[l].user]
<1>1. /\ task[g] \in Task /\ l \in Logins /\ task[g].install \in Installs /\ ~task[g].spent
      /\ task[g].pc = "login" /\ login[l] \in Login
  BY DEF LockLogin, MobileInv, TypeOK, RequestInv, Equipped, RefreshInv
<1>2. CASE ~Exchangeable(g) BY <1>2, QuietEnd DEF LockLogin
<1>3. CASE Exchangeable(g)
  <2>1. /\ task' = [task EXCEPT ![g] = t] /\ Free(g, <<"login", l>>)
        /\ Lock(g, <<"login", l>>) /\ UNCHANGED <<database, clock>>
    BY <1>1, <1>3 DEF LockLogin, clock, MobileInv, TypeOK
  <2>2. /\ login[l].status = "approved" /\ ~login[l].exchanged /\ login[l].user \in Users
        /\ login[l].install = task[g].install
    BY <1>1, <1>3 DEF Exchangeable, Login
  <2>3. UNCHANGED login BY <2>1 DEF database
  <2>4. /\ t \in Task /\ t.pc = "user" /\ t.login = l /\ t.user = login[l].user
        /\ t.install = task[g].install /\ t.spent = task[g].spent
    BY <1>1, <2>2 DEF Task, PCs
  <2>5. <<"login", l>> \in Rows BY <1>1 DEF Rows
  <2> HIDE DEF t
  <2>6. Becomes(g, t) /\ task'[g] = t BY <2>1, <2>4, Moved DEF Becomes
  <2>7. <<"login", l>> \in locks'[g] BY <2>1 DEF Lock, MobileInv, TypeOK
  <2>8. ExchangeInv(g)'
    BY <2>2, <2>3, <2>4, <2>6, <2>7 DEF ExchangeInv, Exchanging, Limited
  <2>9. RequestInv(g)' BY <1>1, <2>2, <2>4, <2>6, <2>8, OnExchange DEF Exchanging
  <2> QED BY <2>1, <2>5, <2>6, <2>9, QuietStep DEF Locking
<1> QED BY <1>2, <1>3

LEMMA SubscriptionSteps ==
    ASSUME MobileInv, NEW g \in Requests, LockSubscription(g) \/ InsertSubscription(g)
    PROVE  MobileInv'
<1> DEFINE u == task[g].user
<1>1. task[g].pc \in {"subscription", "insert"} /\ UNCHANGED <<database, clock>>
  BY DEF LockSubscription, InsertSubscription, clock
<1>2. task[g].pc \in Exchanging BY <1>1 DEF Exchanging
<1>3. /\ task[g] \in Task /\ task[g].login \in Logins /\ u \in Users
      /\ task[g].install \in Installs /\ ~task[g].spent
      /\ <<"login", task[g].login>> \in locks[g]
      /\ login[task[g].login].status = "approved" /\ ~login[task[g].login].exchanged
      /\ login[task[g].login].install = task[g].install /\ login[task[g].login].user = u
  BY <1>2, Known
<1>4. limit[u] \in Nat \cup {None} BY <1>3 DEF MobileInv, TypeOK
<1>5. CASE Goto(g, "insert") /\ UNCHANGED locks
  <2>1. "insert" \in Exchanging \ Limited BY DEF Exchanging, Limited
  <2> QED BY <1>1, <1>2, <1>5, <2>1, ExchangeGoes DEF Locking
<1>6. CASE End(g) BY <1>1, <1>6, QuietEnd
<1>7. ASSUME NEW n \in Nat, limit[u] = n \/ (limit[u] = None /\ n = 1),
             task' = [task EXCEPT ![g].pc = "device", ![g].limit = n],
             Free(g, <<"subscription", u>>), Lock(g, <<"subscription", u>>)
      PROVE  MobileInv'
  <2> DEFINE t == [task[g] EXCEPT !.pc = "device", !.limit = n]
  <2>1. task' = [task EXCEPT ![g] = t] BY <1>7 DEF MobileInv, TypeOK
  <2>2. /\ t \in Task /\ t.pc = "device" /\ t.login = task[g].login /\ t.user = u
        /\ t.install = task[g].install /\ t.limit = n /\ t.spent = task[g].spent
    BY <1>3, <1>7 DEF Task, PCs
  <2> HIDE DEF t
  <2>3. Becomes(g, t) /\ task'[g] = t BY <2>1, <2>2, Moved DEF Becomes
  <2>4. locks'[g] = locks[g] \cup {<<"subscription", u>>}
    BY <1>7 DEF Lock, MobileInv, TypeOK
  <2>5. UNCHANGED <<login, limit>> BY <1>1 DEF database
  <2>6. ExchangeInv(g)'
    BY <1>3, <1>7, <2>2, <2>3, <2>4, <2>5 DEF ExchangeInv, Exchanging, Limited
  <2>7. RequestInv(g)' BY <1>3, <2>2, <2>3, <2>6, OnExchange DEF Exchanging
  <2>8. <<"subscription", u>> \in Rows BY <1>3 DEF Rows
  <2> QED BY <1>1, <1>7, <2>3, <2>7, <2>8, QuietStep DEF Locking
<1>8. CASE LockSubscription(g)
  <2>1. CASE limit[u] = None BY <1>5, <1>8, <2>1 DEF LockSubscription
  <2>2. CASE limit[u] # None
    <3>1. limit[u] \in Nat BY <1>4, <2>2
    <3>2. /\ task' = [task EXCEPT ![g].pc = "device", ![g].limit = limit[u]]
          /\ Free(g, <<"subscription", u>>) /\ Lock(g, <<"subscription", u>>)
      BY <1>8, <2>2 DEF LockSubscription, LockOfSubscription
    <3> QED BY <1>7, <3>1, <3>2
  <2> QED BY <2>1, <2>2
<1>9. CASE InsertSubscription(g)
  <2>1. CASE limit[u] # None BY <1>6, <1>9, <2>1 DEF InsertSubscription
  <2>2. CASE limit[u] = None
    <3>1. /\ task' = [task EXCEPT ![g].pc = "device", ![g].limit = 1]
          /\ Free(g, <<"subscription", u>>) /\ Lock(g, <<"subscription", u>>)
      BY <1>9, <2>2 DEF InsertSubscription
    <3> QED BY <1>7, <2>2, <3>1
  <2> QED BY <2>1, <2>2
<1> QED BY <1>8, <1>9

LEMMA DeviceSteps ==
    ASSUME MobileInv, NEW g \in Requests,
           \/ ReadUser(g) \/ ReadDevice(g) \/ CountDevices(g)
           \/ TakeDevice(g) \/ CreateDevice(g) \/ TouchDevice(g)
    PROVE  MobileInv'
<1> DEFINE i == task[g].install
<1>1. /\ task[g].pc \in {"user", "device", "count", "take", "create", "touch"}
      /\ UNCHANGED <<database, clock>>
  BY DEF ReadUser, ReadDevice, CountDevices, TakeDevice, CreateDevice, TouchDevice, clock
<1>2. task[g].pc \in Exchanging BY <1>1 DEF Exchanging
<1>3. i \in Installs /\ task[g].user \in Users /\ task[g].limit \in Nat /\ ExchangeInv(g)
  BY <1>2, Known DEF MobileInv, RequestInv
<1>4. CASE End(g) BY <1>1, <1>4, QuietEnd
<1>5. ASSUME UNCHANGED locks PROVE Locking(g) /\ locks[g] \subseteq locks'[g]
  BY <1>5 DEF Locking
<1>6. ASSUME Free(g, <<"device", i>>), Lock(g, <<"device", i>>)
      PROVE  Locking(g) /\ locks[g] \subseteq locks'[g] /\ <<"device", i>> \in locks'[g]
  <2>1. <<"device", i>> \in Rows BY <1>3 DEF Rows
  <2> QED BY <1>6, <2>1 DEF Locking, Lock, MobileInv, TypeOK
<1>7. CASE ReadUser(g)
  <2>1. SUFFICES ASSUME Goto(g, "subscription"), UNCHANGED locks PROVE MobileInv'
    BY <1>4, <1>7 DEF ReadUser
  <2>2. "subscription" \in Exchanging \ Limited BY DEF Exchanging, Limited
  <2> QED BY <1>1, <1>2, <1>5, <2>1, <2>2, ExchangeGoes
<1>8. CASE ReadDevice(g)
  <2>1. task[g].pc = "device" /\ UNCHANGED locks BY <1>8 DEF ReadDevice
  <2>2. \/ Goto(g, "count")
        \/ Goto(g, "take") /\ device[i].status # "none"
    BY <1>8 DEF ReadDevice
  <2>3. /\ "count" \in Exchanging /\ "take" \in Exchanging /\ task[g].pc \in Limited
    BY <2>1 DEF Exchanging, Limited
  <2> QED BY <1>1, <1>2, <1>5, <2>1, <2>2, <2>3, ExchangeGoes
<1>9. CASE CountDevices(g)
  <2>1. SUFFICES ASSUME ~(Cardinality(ActiveDevices(task[g].user)) >= task[g].limit),
                        Goto(g, "take"), UNCHANGED locks
                 PROVE  MobileInv'
    BY <1>4, <1>9 DEF CountDevices
  <2>2. Cardinality(ActiveDevices(task[g].user)) < task[g].limit
    BY <1>3, <2>1, ActiveFinite
  <2>3. "take" \in Exchanging /\ task[g].pc \in Limited
    BY <1>9 DEF CountDevices, Exchanging, Limited
  <2> QED BY <1>1, <1>2, <1>5, <2>1, <2>2, <2>3, ExchangeGoes
<1>10. CASE TakeDevice(g)
  <2>1. task[g].pc = "take" BY <1>10 DEF TakeDevice
  <2>2. \/ End(g)
        \/ device[i].status = "none" /\ Goto(g, "create") /\ UNCHANGED locks
        \/ Accepts(g, i) /\ Goto(g, "touch") /\ UNCHANGED locks
    BY <1>10 DEF TakeDevice
  <2>3. device[i].status = "none" => Cardinality(ActiveDevices(task[g].user)) < task[g].limit
    BY <1>3, <2>1 DEF ExchangeInv
  <2>4. "create" \in Exchanging /\ "touch" \in Exchanging /\ task[g].pc \in Limited
    BY <2>1 DEF Exchanging, Limited
  <2>5. CASE device[i].status = "none" /\ Goto(g, "create") /\ UNCHANGED locks
    BY <1>1, <1>2, <1>5, <2>3, <2>4, <2>5, ExchangeGoes
  <2>6. CASE Accepts(g, i) /\ Goto(g, "touch") /\ UNCHANGED locks
    <3>1. device[i].status # "none" /\ device[i].user = task[g].user BY <2>6 DEF Accepts
    <3> QED BY <1>1, <1>2, <1>5, <2>4, <2>6, <3>1, ExchangeGoes
  <2> QED BY <1>4, <2>2, <2>5, <2>6
<1>11. CASE CreateDevice(g) \/ TouchDevice(g)
  <2>1. task[g].pc \in {"create", "touch"} /\ Free(g, <<"device", i>>)
    BY <1>11 DEF CreateDevice, TouchDevice
  <2>2. \/ End(g)
        \/ /\ Goto(g, "commit") /\ Lock(g, <<"device", i>>)
           /\ \/ task[g].pc = "create" /\ device[i].status = "none"
              \/ task[g].pc = "touch"
    BY <1>11 DEF CreateDevice, TouchDevice
  <2>3. /\ task[g].pc = "create" /\ device[i].status = "none"
              => Cardinality(ActiveDevices(task[g].user)) < task[g].limit
        /\ task[g].pc = "touch" => device[i].status # "none" /\ device[i].user = task[g].user
    BY <1>3 DEF ExchangeInv
  <2>4. "commit" \in Exchanging /\ task[g].pc \in Limited
    BY <2>1 DEF Exchanging, Limited
  <2> QED BY <1>1, <1>2, <1>4, <1>6, <2>1, <2>2, <2>3, <2>4, ExchangeGoes
<1> QED BY <1>7, <1>8, <1>9, <1>10, <1>11

-----------------------------------------------------------------------------
(***************************************************************************)
(* The statements of a refresh and of a request with an access token       *)
(***************************************************************************)

LEMMA RefreshReads ==
    ASSUME MobileInv, NEW g \in Requests, ReadUsed(g) \/ LockSession(g)
    PROVE  MobileInv'
<1> DEFINE k == task[g].token
           s == k[1]
<1>1. task[g].pc \in {"used", "match"} /\ UNCHANGED <<database, clock>>
  BY DEF ReadUsed, LockSession, clock
<1>2. /\ k \in Tokens /\ k[2] < MaxRotations /\ s \in Sessions
      /\ RefreshInv(g) /\ session[s].status # "none" /\ task[g] \in Task
  <2>1. task[g].pc \in Refreshing BY <1>1 DEF Refreshing
  <2>2. Equipped(task[g]) /\ RefreshInv(g) /\ task[g] \in Task
    BY DEF MobileInv, RequestInv, TypeOK
  <2> QED BY <2>1, <2>2, TokenParts DEF Equipped, RefreshInv
<1>3. /\ task[g].dead => IsDead(s)
      /\ task[g].spent => task[g].pc = "used" /\ k \in used
  BY <1>1, <1>2 DEF RefreshInv
<1>4. UNCHANGED <<device, session, used>> BY <1>1 DEF database
<1>5. CASE End(g) BY <1>1, <1>5, QuietEnd
<1>6. CASE ReadUsed(g)
  <2>1. PICK pc \in {"reuse", "match"} :
            Goto(g, pc) /\ UNCHANGED locks /\ (k \notin used => pc = "match")
                        /\ (k \in used => pc = "reuse")
    BY <1>6 DEF ReadUsed, IsReuse
  <2>2. pc \in PCs /\ pc \in Refreshing BY DEF PCs, Refreshing
  <2>3. /\ Becomes(g, [task[g] EXCEPT !.pc = pc])
        /\ task'[g].pc = pc /\ task'[g].token = k
        /\ task'[g].dead = task[g].dead /\ task'[g].spent = task[g].spent
    BY <2>1, <2>2, Went
  <2>4. RefreshInv(g)'
    BY <1>2, <1>3, <1>4, <2>1, <2>3 DEF RefreshInv, Refreshing, IsDead
  <2>5. RequestInv(g)' BY <1>2, <2>2, <2>3, <2>4, OnRefresh
  <2> QED BY <1>1, <2>1, <2>3, <2>5, QuietStep DEF Locking
<1>7. CASE LockSession(g)
  <2>1. SUFFICES ASSUME session[s].current = k[2], Free(g, <<"session", s>>),
                        Refreshable(g, s), Goto(g, "rotate"), Lock(g, <<"session", s>>)
                 PROVE  MobileInv'
    BY <1>5, <1>7 DEF LockSession
  <2>2. task[g].pc = "match" BY <1>7 DEF LockSession
  <2>3. "rotate" \in PCs /\ "rotate" \in Refreshing BY DEF PCs, Refreshing
  <2>4. /\ Becomes(g, [task[g] EXCEPT !.pc = "rotate"])
        /\ task'[g].pc = "rotate" /\ task'[g].token = k
        /\ task'[g].dead = task[g].dead /\ task'[g].spent = task[g].spent
    BY <2>1, <2>3, Went
  <2>5. session[s].status = "live" BY <2>1 DEF Refreshable
  <2>6. ~task[g].spent /\ (task[g].dead => ~DeviceIsActive(s))
    BY <1>3, <2>2, <2>5 DEF IsDead, DeviceIsActive
  <2>7. <<"session", s>> \in locks'[g] BY <2>1 DEF Lock, MobileInv, TypeOK
  <2>8. RefreshInv(g)'
    BY <1>4, <2>1, <2>4, <2>5, <2>6, <2>7 DEF RefreshInv, Refreshing, DeviceIsActive
  <2>9. RequestInv(g)' BY <1>2, <2>3, <2>4, <2>8, OnRefresh
  <2>10. <<"session", s>> \in Rows BY <1>2 DEF Rows
  <2> QED BY <1>1, <2>1, <2>4, <2>9, <2>10, QuietStep DEF Locking
<1> QED BY <1>6, <1>7

LEMMA AccessReads ==
    ASSUME MobileInv, NEW g \in Requests,
           \/ ReadSession(g) \/ CheckDevice(g) \/ ReadAccount(g)
           \/ \E t \in Tokens : BeginLogout(g, t)
           \/ \E i \in Installs : LockDevice(g, i)
    PROVE  MobileInv'
<1> DEFINE s == task[g].session
<1>1. task[g].pc \in {"session", "check", "account", "granted"}
      /\ UNCHANGED <<database, clock>>
  BY DEF ReadSession, CheckDevice, ReadAccount, BeginLogout, LockDevice, clock
<1>2. /\ s \in Sessions /\ session[s].status # "none" /\ ~task[g].spent
      /\ AccessInv(g) /\ task[g] \in Task
  <2>1. task[g].pc \in Entering BY <1>1 DEF Entering
  <2>2. Equipped(task[g]) /\ RefreshInv(g) /\ AccessInv(g) /\ task[g] \in Task
    BY DEF MobileInv, RequestInv, TypeOK
  <2> QED BY <1>1, <2>1, <2>2 DEF Equipped, RefreshInv, AccessInv
<1>3. UNCHANGED <<device, session>> BY <1>1 DEF database
<1>4. CASE End(g) BY <1>1, <1>4, QuietEnd
<1>5. ASSUME NEW pc \in Entering \ {"session", "sessions"}, Goto(g, pc), UNCHANGED locks,
             pc = "check" => (task[g].dead => ~DeviceIsActive(s)),
             pc # "check" => ~task[g].dead
      PROVE  MobileInv'
  <2>1. pc \in PCs BY DEF PCs, Entering
  <2>2. /\ Becomes(g, [task[g] EXCEPT !.pc = pc])
        /\ task'[g].pc = pc /\ task'[g].session = s
        /\ task'[g].dead = task[g].dead /\ task'[g].spent = task[g].spent
    BY <1>5, <2>1, Went
  <2>3. AccessInv(g)' BY <1>2, <1>3, <1>5, <2>2 DEF AccessInv, DeviceIsActive
  <2>4. RequestInv(g)' BY <1>2, <2>2, <2>3, OnAccess
  <2> QED BY <1>1, <1>5, <2>2, <2>4, QuietStep DEF Locking
<1>6. {"check", "account", "granted", "logout"} \subseteq Entering \ {"session", "sessions"}
  BY DEF Entering
<1>7. CASE ReadSession(g)
  <2>1. SUFFICES ASSUME session[s].status = "live", Goto(g, "check"), UNCHANGED locks
                 PROVE  MobileInv'
    BY <1>4, <1>7 DEF ReadSession
  <2>2. task[g].dead => ~DeviceIsActive(s)
    BY <1>2, <1>7, <2>1 DEF ReadSession, AccessInv, IsDead, DeviceIsActive
  <2> QED BY <1>5, <1>6, <2>1, <2>2
<1>8. CASE CheckDevice(g)
  <2>1. SUFFICES ASSUME DeviceIsActive(s), UNCHANGED locks,
                        Goto(g, "granted") \/ Goto(g, "account")
                 PROVE  MobileInv'
    BY <1>4, <1>8 DEF CheckDevice
  <2>2. ~task[g].dead BY <1>2, <1>8, <2>1 DEF CheckDevice, AccessInv
  <2> QED BY <1>5, <1>6, <2>1, <2>2
<1>9. ASSUME task[g].pc \in {"account", "granted"} PROVE ~task[g].dead
  BY <1>2, <1>9 DEF AccessInv, Entering
<1>10. CASE ReadAccount(g)
  <2>1. End(g) \/ (Goto(g, "granted") /\ UNCHANGED locks) BY <1>10 DEF ReadAccount
  <2>2. ~task[g].dead BY <1>9, <1>10 DEF ReadAccount
  <2> QED BY <1>4, <1>5, <1>6, <2>1, <2>2
<1>11. CASE \E t \in Tokens : BeginLogout(g, t)
  <2>1. End(g) \/ (Goto(g, "logout") /\ UNCHANGED locks) BY <1>11 DEF BeginLogout
  <2>2. ~task[g].dead BY <1>9, <1>11 DEF BeginLogout
  <2> QED BY <1>4, <1>5, <1>6, <2>1, <2>2
<1>12. ASSUME NEW i \in Installs, LockDevice(g, i) PROVE MobileInv'
  <2> DEFINE t == [task[g] EXCEPT !.pc = "sessions", !.install = i]
  <2>1. SUFFICES ASSUME device[i].status # "none", Lock(g, <<"device", i>>),
                        task' = [task EXCEPT ![g].pc = "sessions", ![g].install = i]
                 PROVE  MobileInv'
    BY <1>4, <1>12 DEF LockDevice
  <2>2. Free(g, <<"device", i>>) /\ ~task[g].dead BY <1>9, <1>12 DEF LockDevice
  <2>3. task' = [task EXCEPT ![g] = t] BY <2>1 DEF MobileInv, TypeOK
  <2>4. /\ t \in Task /\ t.pc = "sessions" /\ t.session = s /\ t.install = i
        /\ t.dead = task[g].dead /\ t.spent = task[g].spent
    BY <1>2 DEF Task, PCs
  <2> HIDE DEF t
  <2>5. Becomes(g, t) /\ task'[g] = t BY <2>3, <2>4, Moved DEF Becomes
  <2>6. AccessInv(g)' BY <1>2, <1>3, <2>1, <2>2, <2>4, <2>5 DEF AccessInv
  <2>7. RequestInv(g)' BY <1>2, <2>4, <2>5, <2>6, OnAccess DEF Entering
  <2>8. <<"device", i>> \in Rows BY DEF Rows
  <2> QED BY <1>1, <2>1, <2>2, <2>5, <2>7, <2>8, QuietStep DEF Locking
<1> QED BY <1>7, <1>8, <1>10, <1>11, <1>12

-----------------------------------------------------------------------------
(***************************************************************************)
(* Statements that write                                                   *)
(***************************************************************************)

\* A request ends with a write.
LEMMA WriteEnd ==
    ASSUME MobileInv, NEW g \in Requests, End(g), Growth, SessionInv',
           \A h \in Requests \ {g} : Respects(h),
           login' \in [Logins -> Login], limit' \in [Users -> Nat \cup {None}],
           device' \in [Installs -> Device], session' \in [Sessions -> Session],
           used' \subseteq Tokens, UNCHANGED clock
    PROVE  MobileInv'
<1>1. Becomes(g, IdleTask) /\ Locking(g) /\ RequestInv(g)' BY Ended
<1>2. /\ locks' \in [Requests -> SUBSET Rows] /\ Exclusion'
      /\ \A h \in Requests \ {g} : locks'[h] = locks[h]
  BY <1>1, Locked
<1>3. TypeOK' BY <1>1, <1>2 DEF MobileInv, TypeOK, Becomes, clock
<1> QED BY <1>1, <1>2, <1>3, StepOf DEF Becomes

\* A statement that changes sessions alone: they are free of other requests, and
\* it only lets them end or gives them another token.
LEMMA SessionWrites ==
    ASSUME MobileInv, NEW G, UNCHANGED <<login, limit, device>>,
           \A h \in Requests \ G : task[h].token \in used => task[h].token \in used',
           session' \in [Sessions -> Session],
           \A s \in Sessions :
              \/ session'[s] = session[s]
              \/ /\ session[s].status # "none" /\ session'[s].status # "none"
                 /\ session'[s].status = "live" => session[s].status = "live"
                 /\ session'[s].install = session[s].install
                 /\ session'[s].user = session[s].user
                 /\ session'[s].from = session[s].from
                 /\ \A h \in Requests \ G : <<"session", s>> \notin locks[h]
    PROVE  Growth /\ SessionInv' /\ \A h \in Requests \ G : Respects(h)
<1>1. Growth BY DEF Growth
<1>2. LoginsKept BY DEF LoginsKept
<1>3. SessionInv' BY <1>1, <1>2, SessionsKept
<1>4. \A h \in Requests \ G : Respects(h) BY DEF Respects, ActiveDevices
<1> QED BY <1>1, <1>3, <1>4

LEMMA ApproveStep ==
    ASSUME MobileInv, NEW g \in Requests, ApproveLogin(g)
    PROVE  MobileInv'
<1> DEFINE l == task[g].login
           r == [login[l] EXCEPT !.status = "approved", !.user = task[g].user]
<1>0. TypeOK /\ login \in [Logins -> Login] BY DEF MobileInv, TypeOK
<1>1. l \in Logins /\ task[g].user \in Users
  BY DEF ApproveLogin, MobileInv, RequestInv, Equipped
<1>2. /\ Free(g, <<"login", l>>) /\ End(g)
      /\ UNCHANGED <<limit, device, session, used, clock>>
  BY DEF ApproveLogin
<1>3. login' = login \/ (login[l].status = "pending" /\ login' = [login EXCEPT ![l] = r])
  BY <1>0 DEF ApproveLogin
<1>4. r \in Login /\ r.status = "approved" /\ r.exchanged = login[l].exchanged
  BY <1>0, <1>1 DEF Login
<1> HIDE DEF r
<1>5. login' \in [Logins -> Login] BY <1>0, <1>1, <1>3, <1>4
<1>6. \A k \in Logins \ {l} : login'[k] = login[k] BY <1>0, <1>1, <1>3
<1>7. login'[l] = login[l] \/ login'[l] = r BY <1>0, <1>1, <1>3
<1>8. LoginsKept BY <1>4, <1>6, <1>7 DEF LoginsKept
<1>9. Growth BY <1>2 DEF Growth
<1>10. SessionInv' BY <1>2, <1>8, <1>9, SessionsKept
<1>11. \A h \in Requests \ {g} : Respects(h)
  BY <1>2, <1>6 DEF Respects, ActiveDevices, Free
<1> QED BY <1>0, <1>2, <1>5, <1>9, <1>10, <1>11, WriteEnd DEF TypeOK

\* A session is revoked, by its reused token or by its owner.
LEMMA RevokeSteps ==
    ASSUME MobileInv, NEW g \in Requests, RevokeReused(g) \/ RevokeSession(g)
    PROVE  MobileInv'
<1>0. TypeOK /\ session \in [Sessions -> Session] BY DEF MobileInv, TypeOK
<1>1. PICK s \in Sessions :
          /\ Free(g, <<"session", s>>) /\ session[s].status # "none"
          /\ session' = session \/ session' = [session EXCEPT ![s].status = "revoked"]
  <2>1. CASE RevokeReused(g)
    <3>1. task[g].pc = "reuse" /\ task[g].pc \in Refreshing
      BY <2>1 DEF RevokeReused, Refreshing
    <3>2. task[g].token[1] \in Sessions /\ session[task[g].token[1]].status # "none"
      BY <3>1, TokenParts DEF MobileInv, RequestInv, Equipped, RefreshInv
    <3> QED BY <2>1, <3>2 DEF RevokeReused
  <2>2. CASE RevokeSession(g)
    <3>1. task[g].pc = "logout" /\ task[g].pc \in Entering
      BY <2>2 DEF RevokeSession, Entering
    <3>2. task[g].session \in Sessions /\ session[task[g].session].status # "none"
      BY <3>1 DEF MobileInv, RequestInv, Equipped, AccessInv
    <3> QED BY <2>2, <3>2 DEF RevokeSession
  <2> QED BY <2>1, <2>2
<1>2. End(g) /\ UNCHANGED <<login, limit, device, used, clock>>
  BY DEF RevokeReused, RevokeSession
<1> DEFINE r == [session[s] EXCEPT !.status = "revoked"]
<1>3. /\ r \in Session /\ r.status = "revoked" /\ r.install = session[s].install
      /\ r.user = session[s].user /\ r.from = session[s].from
  BY <1>0 DEF Session
<1>4. session' = session \/ session' = [session EXCEPT ![s] = r] BY <1>0, <1>1
<1> HIDE DEF r
<1>5. /\ session' \in [Sessions -> Session]
      /\ session'[s] = session[s] \/ session'[s] = r
      /\ \A t \in Sessions \ {s} : session'[t] = session[t]
  BY <1>0, <1>3, <1>4
<1>6. \A h \in Requests \ {g} : <<"session", s>> \notin locks[h] BY <1>1 DEF Free
<1>7. session'[s] = session[s] \/ (/\ session'[s].status = "revoked"
                                  /\ session'[s].install = session[s].install
                                  /\ session'[s].user = session[s].user
                                  /\ session'[s].from = session[s].from)
  BY <1>3, <1>5
<1>8. Growth /\ SessionInv' /\ \A h \in Requests \ {g} : Respects(h)
  BY <1>1, <1>2, <1>5, <1>6, <1>7, SessionWrites
<1> QED BY <1>0, <1>2, <1>5, <1>8, WriteEnd DEF TypeOK

\* What is known at the commit of an exchange.
LEMMA AtCommit ==
    ASSUME MobileInv, NEW g \in Requests, CommitExchange(g),
           NEW l, l = task[g].login, NEW u, u = task[g].user, NEW i, i = task[g].install
    PROVE  /\ l \in Logins /\ u \in Users /\ i \in Installs /\ task[g].limit \in Nat
           /\ <<"login", l>> \in locks[g] /\ <<"subscription", u>> \in locks[g]
           /\ <<"device", i>> \in locks[g]
           /\ login[l].status = "approved" /\ ~login[l].exchanged
           /\ limit[u] = task[g].limit \/ (limit[u] = None /\ task[g].limit = 1)
           /\ device[i].status = "none" => Cardinality(ActiveDevices(u)) < task[g].limit
           /\ device[i].status # "none" => device[i].user = u
<1>1. task[g].pc = "commit" BY DEF CommitExchange
<1>2. task[g].pc \in Exchanging /\ task[g].pc \in Limited BY <1>1 DEF Exchanging, Limited
<1>3. /\ l \in Logins /\ u \in Users /\ i \in Installs /\ task[g].limit \in Nat
  BY <1>2, Known
<1>4. ExchangeInv(g) BY DEF MobileInv, RequestInv
<1> QED BY <1>1, <1>2, <1>3, <1>4 DEF ExchangeInv

\* What the commit writes.
LEMMA CommitWrites ==
    ASSUME MobileInv, NEW g \in Requests, CommitExchange(g),
           NEW l, l = task[g].login, NEW u, u = task[g].user, NEW i, i = task[g].install
    PROVE  /\ login' \in [Logins -> Login] /\ login'[l].exchanged
           /\ login'[l].status = login[l].status
           /\ \A k \in Logins \ {l} : login'[k] = login[k]
           /\ limit' \in [Users -> Nat \cup {None}]
           /\ limit'[u] = IF limit[u] = None THEN 1 ELSE limit[u]
           /\ \A v \in Users \ {u} : limit'[v] = limit[v]
           /\ device' \in [Installs -> Device]
           /\ IF device[i].status = "none"
                THEN device'[i].status = "active" /\ device'[i].user = u
                ELSE device'[i] = device[i]
           /\ \A j \in Installs \ {i} : device'[j] = device[j]
<1>0. /\ login \in [Logins -> Login] /\ limit \in [Users -> Nat \cup {None}]
      /\ device \in [Installs -> Device]
      /\ l \in Logins /\ u \in Users /\ i \in Installs
  BY AtCommit DEF MobileInv, TypeOK
<1>1. /\ login' \in [Logins -> Login] /\ login'[l].exchanged
      /\ login'[l].status = login[l].status
      /\ \A k \in Logins \ {l} : login'[k] = login[k]
  <2> DEFINE r == [login[l] EXCEPT !.exchanged = TRUE]
  <2>1. r \in Login /\ r.exchanged /\ r.status = login[l].status BY <1>0 DEF Login
  <2>2. login' = [login EXCEPT ![l] = r] BY <1>0 DEF CommitExchange
  <2> HIDE DEF r
  <2> QED BY <1>0, <2>1, <2>2
<1>2. /\ limit' \in [Users -> Nat \cup {None}]
      /\ limit'[u] = IF limit[u] = None THEN 1 ELSE limit[u]
      /\ \A v \in Users \ {u} : limit'[v] = limit[v]
  BY <1>0 DEF CommitExchange
<1>3. /\ device' \in [Installs -> Device]
      /\ IF device[i].status = "none"
           THEN device'[i].status = "active" /\ device'[i].user = u
           ELSE device'[i] = device[i]
      /\ \A j \in Installs \ {i} : device'[j] = device[j]
  <2> DEFINE r == [status |-> "active", user |-> u]
  <2>1. r \in Device /\ r.status = "active" /\ r.user = u BY <1>0 DEF Device
  <2>2. device' = IF device[i].status = "none" THEN [device EXCEPT ![i] = r] ELSE device
    BY DEF CommitExchange
  <2> HIDE DEF r
  <2> QED BY <1>0, <2>1, <2>2
<1> QED BY <1>1, <1>2, <1>3

\* Only the commit of an exchange of u adds a device of u.
LEMMA OtherDevices ==
    ASSUME MobileInv, NEW g \in Requests, CommitExchange(g), NEW v \in Users,
           v # task[g].user
    PROVE  ActiveDevices(v)' \subseteq ActiveDevices(v)
BY CommitWrites DEF ActiveDevices

LEMMA CommitExchangeStep ==
    ASSUME MobileInv, NEW g \in Requests, CommitExchange(g)
    PROVE  MobileInv'
<1> DEFINE l == task[g].login
           u == task[g].user
           i == task[g].install
<1>0. /\ TypeOK /\ session \in [Sessions -> Session]
      /\ l \in Logins /\ u \in Users /\ i \in Installs
      /\ <<"login", l>> \in locks[g] /\ <<"subscription", u>> \in locks[g]
      /\ <<"device", i>> \in locks[g]
      /\ login[l].status = "approved" /\ ~login[l].exchanged
      /\ device[i].status # "none" => device[i].user = u
  BY AtCommit DEF MobileInv, TypeOK
<1>1. PICK s \in Sessions :
          /\ session[s].status = "none"
          /\ session' = [session EXCEPT ![s] =
                [NoSession EXCEPT !.status = "live", !.user = u, !.install = i, !.from = l]]
  BY DEF CommitExchange
<1> DEFINE r == [NoSession EXCEPT !.status = "live", !.user = u, !.install = i, !.from = l]
<1>2. /\ r \in Session /\ r.status = "live" /\ r.user = u /\ r.install = i /\ r.from = l
  <2>1. l \in Logins \cup {None} /\ u \in Users \cup {None} /\ i \in Installs \cup {None}
    BY <1>0
  <2>2. 0 \in 0..MaxRotations BY MobileAssumption
  <2> HIDE DEF l, u, i
  <2> QED BY <2>1, <2>2 DEF NoSession, Session
<1>3. session' = [session EXCEPT ![s] = r] BY <1>1
<1> HIDE DEF r
<1>4. /\ session' \in [Sessions -> Session] /\ session'[s] = r
      /\ \A t \in Sessions \ {s} : session'[t] = session[t]
  BY <1>0, <1>2, <1>3
<1>5. /\ login' \in [Logins -> Login] /\ login'[l].exchanged
      /\ login'[l].status = login[l].status
      /\ \A k \in Logins \ {l} : login'[k] = login[k]
      /\ limit' \in [Users -> Nat \cup {None}]
      /\ \A v \in Users \ {u} : limit'[v] = limit[v]
      /\ device' \in [Installs -> Device]
      /\ IF device[i].status = "none"
           THEN device'[i].status = "active" /\ device'[i].user = u
           ELSE device'[i] = device[i]
      /\ \A j \in Installs \ {i} : device'[j] = device[j]
  BY CommitWrites
<1>6. End(g) /\ UNCHANGED <<used, clock>> BY DEF CommitExchange
<1>7. \A v \in Users \ {u} : ActiveDevices(v)' \subseteq ActiveDevices(v) BY OtherDevices
<1> HIDE DEF l, u, i
<1>8. Growth
  <2>1. \A j \in Installs : device[j].status # "none" => device'[j] = device[j]
    BY <1>5
  <2>2. \A t \in Sessions : session[t].status # "none" => session'[t] = session[t]
    BY <1>1, <1>4
  <2> QED BY <2>1, <2>2 DEF Growth
<1>9. LoginsKept BY <1>5 DEF LoginsKept
<1>10. SessionInv'
  <2>1. \A t \in Sessions \ {s} : Rooted(t)' BY <1>4, <1>8, <1>9, RootKept
  <2>2. Rooted(s)'
    <3>1. device'[i].status # "none" /\ device'[i].user = u BY <1>0, <1>5
    <3>2. login'[l].status # "none" /\ login'[l].exchanged BY <1>0, <1>5
    <3> QED BY <1>0, <1>2, <1>4, <3>1, <3>2 DEF Rooted
  <2>3. \A t \in Sessions : session[t].from # l
    <3>1. SUFFICES ASSUME NEW t \in Sessions, session[t].from = l PROVE FALSE
      OBVIOUS
    <3>2. Rooted(t) BY DEF MobileInv, SessionInv
    <3>3. l # None BY <1>0, MobileAssumption
    <3> QED BY <1>0, <3>1, <3>2, <3>3 DEF Rooted
  <2>4. OneSessionPerLogin'
    <3>1. SUFFICES ASSUME NEW a \in Sessions, NEW b \in Sessions,
                          session'[a].from = session'[b].from
                   PROVE  a = b \/ session'[a].from = None
      BY DEF OneSessionPerLogin
    <3>2. OneSessionPerLogin BY DEF MobileInv, SessionInv
    <3> QED BY <1>2, <1>4, <2>3, <3>1, <3>2 DEF OneSessionPerLogin
  <2> QED BY <2>1, <2>2, <2>4 DEF SessionInv
<1>11. ASSUME NEW h \in Requests \ {g} PROVE Respects(h)
  <2>1. locks[g] \cap locks[h] = {} BY DEF MobileInv, Exclusion
  <2>2. /\ <<"login", l>> \notin locks[h] /\ <<"subscription", u>> \notin locks[h]
        /\ <<"device", i>> \notin locks[h]
    BY <1>0, <2>1
  <2>3. \A k \in Logins : <<"login", k>> \in locks[h] => login'[k] = login[k]
    BY <1>5, <2>2
  <2>4. \A v \in Users : <<"subscription", v>> \in locks[h] =>
            limit'[v] = limit[v] /\ ActiveDevices(v)' \subseteq ActiveDevices(v)
    BY <1>5, <1>7, <2>2
  <2>5. \A j \in Installs : <<"device", j>> \in locks[h] /\ device[j].status = "none" =>
            device'[j].status = "none"
    BY <1>5, <2>2
  <2>6. \A t \in Sessions : <<"session", t>> \in locks[h] /\ session[t].status # "none" =>
            session'[t] = session[t]
    BY <1>1, <1>4
  <2> QED BY <1>6, <2>3, <2>4, <2>5, <2>6 DEF Respects
<1>12. used' \subseteq Tokens BY <1>0, <1>6 DEF TypeOK
<1> QED BY <1>4, <1>5, <1>6, <1>8, <1>10, <1>11, <1>12, WriteEnd

LEMMA CommitRotationStep ==
    ASSUME MobileInv, NEW g \in Requests, CommitRotation(g)
    PROVE  MobileInv'
<1> DEFINE k == task[g].token
           s == k[1]
           r == [session[s] EXCEPT !.current = @ + 1]
           t == [task[g] EXCEPT !.pc = "check", !.session = s]
<1>0. TypeOK /\ session \in [Sessions -> Session] /\ task[g] \in Task
  BY DEF MobileInv, TypeOK
<1>1. task[g].pc = "rotate" /\ task[g].pc \in Refreshing
  BY DEF CommitRotation, Refreshing
<1>2. k \in Tokens /\ s \in Sessions /\ k[2] \in Nat /\ k[2] < MaxRotations
  BY <1>1, TokenParts DEF MobileInv, RequestInv, Equipped
<1>3. /\ <<"session", s>> \in locks[g]
      /\ session[s].status = "live" /\ session[s].current = k[2]
      /\ task[g].dead => ~DeviceIsActive(s)
      /\ ~task[g].spent
  BY <1>1 DEF MobileInv, RequestInv, RefreshInv
<1>4. /\ r \in Session /\ r.status = "live" /\ r.install = session[s].install
      /\ r.user = session[s].user /\ r.from = session[s].from
  <2>1. session[s] \in Session BY <1>0, <1>2
  <2>2. session[s].current + 1 \in 0..MaxRotations BY <1>2, <1>3, MobileAssumption
  <2> QED BY <1>3, <2>1, <2>2 DEF Session
<1>5. /\ session' = [session EXCEPT ![s] = r] /\ used' = used \cup {k}
      /\ task' = [task EXCEPT ![g] = t] /\ locks' = [locks EXCEPT ![g] = {}]
      /\ expired' = expired \ {s} /\ UNCHANGED <<login, limit, device, blocked>>
  BY <1>0 DEF CommitRotation, TypeOK
<1>6. /\ t \in Task /\ t.pc = "check" /\ t.session = s /\ t.dead = task[g].dead
      /\ t.spent = task[g].spent
  BY <1>0, <1>2 DEF Task, PCs
<1> HIDE DEF r, t, s, k
<1>7. /\ session' \in [Sessions -> Session] /\ session'[s] = r
      /\ \A m \in Sessions \ {s} : session'[m] = session[m]
  BY <1>0, <1>2, <1>4, <1>5
<1>8. \A h \in Requests \ {g} : <<"session", s>> \notin locks[h]
  BY <1>3 DEF MobileInv, Exclusion
<1>9. Growth /\ SessionInv' /\ \A h \in Requests \ {g} : Respects(h)
  <2>1. \A h \in Requests \ {g} : task[h].token \in used => task[h].token \in used'
    BY <1>5
  <2> QED BY <1>3, <1>4, <1>5, <1>7, <1>8, <2>1, SessionWrites
<1>10. Becomes(g, t) /\ task'[g] = t BY <1>5, <1>6, Moved DEF Becomes
<1>11. AccessInv(g)'
  BY <1>3, <1>4, <1>5, <1>6, <1>7, <1>10 DEF AccessInv, Entering, DeviceIsActive
<1>12. RequestInv(g)' BY <1>2, <1>3, <1>6, <1>10, <1>11, OnAccess DEF Entering
<1>13. /\ locks' \in [Requests -> SUBSET Rows] /\ Exclusion'
       /\ \A h \in Requests \ {g} : locks'[h] = locks[h]
  BY <1>5, Locked DEF Locking
<1>14. TypeOK' BY <1>0, <1>2, <1>5, <1>7, <1>10, <1>13 DEF TypeOK, Becomes
<1> QED BY <1>9, <1>10, <1>12, <1>13, <1>14, StepOf DEF Becomes

LEMMA CommitRevokeStep ==
    ASSUME MobileInv, NEW g \in Requests, CommitRevoke(g)
    PROVE  MobileInv'
<1> DEFINE i == task[g].install
           r == [device[i] EXCEPT !.status = "revoked"]
<1>0. /\ TypeOK /\ session \in [Sessions -> Session] /\ device \in [Installs -> Device]
      /\ login \in [Logins -> Login] /\ limit \in [Users -> Nat \cup {None}]
      /\ used \subseteq Tokens
  BY DEF MobileInv, TypeOK
<1>1. i \in Installs /\ device[i].status # "none"
  <2>1. task[g].pc = "sessions" BY DEF CommitRevoke
  <2> QED BY <2>1 DEF MobileInv, RequestInv, Equipped, AccessInv
<1>2. /\ \A s \in OfDevice(i) : Free(g, <<"session", s>>)
      /\ device' = [device EXCEPT ![i].status = "revoked"]
      /\ session' = [s \in Sessions |->
                       IF s \in OfDevice(i) THEN [session[s] EXCEPT !.status = "revoked"]
                       ELSE session[s]]
      /\ End(g) /\ UNCHANGED <<login, limit, used, clock>>
  BY DEF CommitRevoke
<1>3. r \in Device /\ r.status = "revoked" /\ r.user = device[i].user
  BY <1>0, <1>1 DEF Device
<1>4. device' = [device EXCEPT ![i] = r] BY <1>0, <1>2
<1>5. \A s \in Sessions : LET q == [session[s] EXCEPT !.status = "revoked"]
                          IN  /\ q \in Session /\ q.status = "revoked"
                              /\ q.install = session[s].install
                              /\ q.user = session[s].user /\ q.from = session[s].from
  BY <1>0 DEF Session
<1> HIDE DEF i, r
<1>6. /\ device' \in [Installs -> Device] /\ device'[i] = r
      /\ \A j \in Installs \ {i} : device'[j] = device[j]
  BY <1>0, <1>1, <1>3, <1>4
<1>7. session' \in [Sessions -> Session]
  <2> DEFINE f(s) == [session[s] EXCEPT !.status = "revoked"]
  <2>1. \A s \in Sessions : f(s) \in Session BY <1>5
  <2>2. session' = [s \in Sessions |-> IF s \in OfDevice(i) THEN f(s) ELSE session[s]]
    BY <1>2
  <2> HIDE DEF f
  <2> QED BY <1>0, <2>1, <2>2
<1>8. \A s \in Sessions :
         \/ session'[s] = session[s]
         \/ /\ session[s].status = "live" /\ session'[s].status = "revoked"
            /\ session'[s].install = session[s].install
            /\ session'[s].user = session[s].user /\ session'[s].from = session[s].from
            /\ \A h \in Requests \ {g} : <<"session", s>> \notin locks[h]
  <2> SUFFICES ASSUME NEW s \in Sessions, session'[s] # session[s]
               PROVE  /\ session[s].status = "live" /\ session'[s].status = "revoked"
                      /\ session'[s].install = session[s].install
                      /\ session'[s].user = session[s].user
                      /\ session'[s].from = session[s].from
                      /\ \A h \in Requests \ {g} : <<"session", s>> \notin locks[h]
    OBVIOUS
  <2>1. s \in OfDevice(i) /\ session'[s] = [session[s] EXCEPT !.status = "revoked"]
    BY <1>2
  <2>2. session[s].status = "live" /\ Free(g, <<"session", s>>)
    BY <1>2, <2>1 DEF OfDevice
  <2> QED BY <1>5, <2>1, <2>2 DEF Free
<1>9. Growth BY <1>1, <1>3, <1>6, <1>8 DEF Growth
<1>10. LoginsKept BY <1>2 DEF LoginsKept
<1>11. SessionInv'
  <2>1. \A s \in Sessions : session[s].status = "none" => session'[s] = session[s]
    BY <1>8
  <2> QED BY <1>9, <1>10, <2>1, SessionsKept
<1>12. ASSUME NEW h \in Requests \ {g} PROVE Respects(h)
  <2>1. \A u : ActiveDevices(u)' \subseteq ActiveDevices(u)
    BY <1>3, <1>6 DEF ActiveDevices
  <2>2. \A j \in Installs : device[j].status = "none" => device'[j].status = "none"
    BY <1>1, <1>6
  <2>3. \A s \in Sessions : <<"session", s>> \in locks[h] => session'[s] = session[s]
    BY <1>8
  <2> QED BY <1>2, <2>1, <2>2, <2>3 DEF Respects
<1> QED BY <1>0, <1>2, <1>6, <1>7, <1>9, <1>11, <1>12, WriteEnd

-----------------------------------------------------------------------------
(***************************************************************************)
(* Administrators, clean-up and time                                       *)
(***************************************************************************)

LEMMA Around ==
    ASSUME MobileInv, UNCHANGED <<locks, task>>, Growth, SessionInv',
           \A h \in Requests : Respects(h),
           login' \in [Logins -> Login], limit' \in [Users -> Nat \cup {None}],
           device' \in [Installs -> Device], session' \in [Sessions -> Session],
           used' \subseteq Tokens, blocked' \subseteq Users,
           expired' \subseteq Logins \cup Sessions
    PROVE  MobileInv'
<1>1. TypeOK' BY DEF MobileInv, TypeOK
<1>2. Exclusion' BY DEF MobileInv, Exclusion
<1>3. \A h \in Requests : RequestInv(h)' BY Undisturbed
<1> QED BY <1>1, <1>2, <1>3 DEF MobileInv

LEMMA StartStep ==
    ASSUME MobileInv, NEW l \in Logins, NEW i \in Installs, StartTelegramLogin(l, i)
    PROVE  MobileInv'
<1>0. TypeOK /\ login \in [Logins -> Login] BY DEF MobileInv, TypeOK
<1> DEFINE r == [NoLogin EXCEPT !.status = "pending", !.install = i]
<1>1. r \in Login BY DEF NoLogin, Login
<1>2. /\ login[l].status = "none" /\ login' = [login EXCEPT ![l] = r]
      /\ UNCHANGED <<limit, device, session, used, blocked, expired, locks, task>>
  BY DEF StartTelegramLogin, clock
<1> HIDE DEF r
<1>3. /\ login' \in [Logins -> Login]
      /\ \A k \in Logins \ {l} : login'[k] = login[k]
  BY <1>0, <1>1, <1>2
<1>4. Growth /\ LoginsKept BY <1>2, <1>3 DEF Growth, LoginsKept
<1>5. SessionInv' BY <1>2, <1>4, SessionsKept
<1>6. \A h \in Requests : Respects(h) BY <1>2, <1>3 DEF Respects, ActiveDevices
<1> QED BY <1>0, <1>2, <1>3, <1>4, <1>5, <1>6, Around DEF TypeOK

LEMMA LimitSteps ==
    ASSUME MobileInv, NEW u \in Users,
           \/ \E n \in Limits : UpdateSubscription(u, n)
           \/ GetOrCreateSubscription(u)
    PROVE  MobileInv'
<1>0. TypeOK /\ limit \in [Users -> Nat \cup {None}] BY DEF MobileInv, TypeOK
<1>1. PICK n \in Nat : StoreLimit(u, n)
  <2>1. ASSUME NEW n \in ValidLimits PROVE n \in Nat
    <3>1. n \in Int /\ n >= 0 BY MobileAssumption DEF ValidLimits
    <3> QED BY <3>1
  <2> QED BY <2>1 DEF UpdateSubscription, GetOrCreateSubscription
<1>2. /\ \A h \in Requests : <<"subscription", u>> \notin locks[h]
      /\ limit' = [limit EXCEPT ![u] = n]
      /\ UNCHANGED <<login, device, session, used, blocked, expired, locks, task>>
  BY <1>1 DEF StoreLimit, clock
<1>3. /\ limit' \in [Users -> Nat \cup {None}]
      /\ \A v \in Users \ {u} : limit'[v] = limit[v]
  BY <1>0, <1>2
<1>4. Growth /\ LoginsKept BY <1>2 DEF Growth, LoginsKept
<1>5. SessionInv' BY <1>2, <1>4, SessionsKept
<1>6. \A h \in Requests : Respects(h) BY <1>2, <1>3 DEF Respects, ActiveDevices
<1> QED BY <1>0, <1>2, <1>3, <1>4, <1>5, <1>6, Around DEF TypeOK

LEMMA ClockSteps ==
    ASSUME MobileInv,
           \/ \E u \in Blockable : SetBlocked(u)
           \/ \E x \in Expiring : Expire(x)
    PROVE  MobileInv'
<1>0. TypeOK BY DEF MobileInv
<1>1. /\ UNCHANGED database /\ UNCHANGED <<locks, task>>
      /\ blocked' \subseteq Users /\ expired' \subseteq Logins \cup Sessions
  BY <1>0, MobileAssumption DEF SetBlocked, Expire, TypeOK
<1>2. Growth /\ SessionInv' /\ \A h \in Requests : Respects(h) BY <1>1, DatabaseStays
<1>3. UNCHANGED <<login, limit, device, session, used>> BY <1>1 DEF database
<1> QED BY <1>0, <1>1, <1>2, <1>3, Around DEF TypeOK

LEMMA CleanupStep ==
    ASSUME MobileInv, NEW old \in SUBSET Sessions, NEW tokens \in SUBSET used,
           Cleanup(old, tokens)
    PROVE  MobileInv'
<1> DEFINE doomed == {l \in Logins \cap expired : login[l].status # "deleted"}
           ended(s) == [session[s] EXCEPT !.status = "deleted"]
           gone(l)  == [login[l] EXCEPT !.status = "deleted"]
<1>0. TypeOK /\ session \in [Sessions -> Session] /\ login \in [Logins -> Login]
  BY DEF MobileInv, TypeOK
<1>1. /\ \A s \in old : session[s].status # "none"
      /\ tokens \subseteq used \ {task[g].token : g \in Requests}
      /\ \A g \in Requests :
            /\ \A l \in doomed : <<"login", l>> \notin locks[g]
            /\ \A s \in old : <<"session", s>> \notin locks[g]
      /\ login' = [l \in Logins |-> IF l \in doomed THEN gone(l) ELSE login[l]]
      /\ session' = [s \in Sessions |-> IF s \in old THEN ended(s) ELSE session[s]]
      /\ used' = used \ tokens
      /\ UNCHANGED <<limit, device, blocked, expired, locks, task>>
  BY DEF Cleanup, clock, Stored
<1>2. \A s \in Sessions : /\ ended(s) \in Session /\ ended(s).status = "deleted"
                          /\ ended(s).install = session[s].install
                          /\ ended(s).user = session[s].user
                          /\ ended(s).from = session[s].from
  BY <1>0 DEF Session
<1>3. \A l \in Logins : /\ gone(l) \in Login /\ gone(l).status = "deleted"
                        /\ gone(l).exchanged = login[l].exchanged
  BY <1>0 DEF Login
<1> HIDE DEF doomed, ended, gone
<1>4. login' \in [Logins -> Login] /\ session' \in [Sessions -> Session]
  BY <1>0, <1>1, <1>2, <1>3
<1>5. \A l \in Logins : login'[l] = login[l] \/ (l \in doomed /\ login'[l] = gone(l))
  BY <1>1
<1>6. \A s \in Sessions : session'[s] = session[s] \/ (s \in old /\ session'[s] = ended(s))
  BY <1>1
<1>7. Growth /\ LoginsKept BY <1>1, <1>2, <1>3, <1>5, <1>6 DEF Growth, LoginsKept
<1>8. SessionInv' BY <1>1, <1>6, <1>7, SessionsKept
<1>9. ASSUME NEW h \in Requests PROVE Respects(h)
  <2>1. task[h].token \in used => task[h].token \in used' BY <1>1
  <2>2. \A l \in Logins : <<"login", l>> \in locks[h] => login'[l] = login[l]
    BY <1>1, <1>5
  <2>3. \A s \in Sessions : <<"session", s>> \in locks[h] => session'[s] = session[s]
    BY <1>1, <1>6
  <2> QED BY <1>1, <2>1, <2>2, <2>3 DEF Respects, ActiveDevices
<1>10. used' \subseteq Tokens BY <1>0, <1>1 DEF TypeOK
<1> QED BY <1>0, <1>1, <1>4, <1>7, <1>8, <1>9, <1>10, Around DEF TypeOK

-----------------------------------------------------------------------------
(***************************************************************************)
(* The invariant holds                                                     *)
(***************************************************************************)

LEMMA MobileInit == Init => MobileInv
<1> SUFFICES ASSUME Init PROVE MobileInv
  OBVIOUS
<1>1. TypeOK
  <2>1. NoLogin \in Login BY DEF NoLogin, Login
  <2>2. NoDevice \in Device BY DEF NoDevice, Device
  <2>3. NoSession \in Session BY MobileAssumption DEF NoSession, Session
  <2> QED BY <2>1, <2>2, <2>3, IdleType DEF Init, TypeOK
<1>2. Exclusion BY DEF Init, Exclusion
<1>3. ASSUME NEW g \in Requests PROVE RequestInv(g)
  <2>1. task[g].pc = "idle" /\ ~task[g].spent BY IdleType DEF Init
  <2>2. Equipped(task[g]) BY <2>1 DEF Equipped, Exchanging, Refreshing, Entering
  <2>3. ExchangeInv(g) BY <2>1 DEF ExchangeInv, Exchanging, Limited
  <2>4. RefreshInv(g) BY <2>1 DEF RefreshInv, Refreshing
  <2>5. AccessInv(g) BY <2>1 DEF AccessInv, Entering
  <2> QED BY <2>2, <2>3, <2>4, <2>5 DEF RequestInv
<1>4. SessionInv
  <2>1. \A s \in Sessions : session[s].status = "none" /\ session[s].from = None
    BY DEF Init, NoSession
  <2> QED BY <2>1 DEF SessionInv, Rooted, OneSessionPerLogin
<1> QED BY <1>1, <1>2, <1>3, <1>4 DEF MobileInv

LEMMA RequestSteps ==
    ASSUME MobileInv, NEW g \in Requests, RequestStep(g)
    PROVE  MobileInv'
BY BeginLoginSteps, BeginSessionSteps, FailureSteps, LockLoginStep, SubscriptionSteps,
   DeviceSteps, RefreshReads, AccessReads, ApproveStep, RevokeSteps, CommitExchangeStep,
   CommitRotationStep, CommitRevokeStep
DEF RequestStep, Progress

LEMMA MobileStep == MobileInv /\ [Next]_vars => MobileInv'
<1> SUFFICES ASSUME MobileInv, [Next]_vars PROVE MobileInv'
  OBVIOUS
<1>1. CASE UNCHANGED vars
  <2>1. UNCHANGED database /\ UNCHANGED <<blocked, expired, locks, task>>
    BY <1>1 DEF vars, database
  <2>2. Growth /\ SessionInv' /\ \A h \in Requests : Respects(h) BY <2>1, DatabaseStays
  <2>3. UNCHANGED <<login, limit, device, session, used>> BY <2>1 DEF database
  <2> QED BY <2>1, <2>2, <2>3, Around DEF MobileInv, TypeOK
<1>2. CASE \E g \in Requests : RequestStep(g) BY <1>2, RequestSteps
<1>3. CASE Surroundings
  BY <1>3, StartStep, LimitSteps, ClockSteps, CleanupStep DEF Surroundings
<1> QED BY <1>1, <1>2, <1>3 DEF Next

\* The steps that write a table MobileAccess has.
Writes ==
    \/ \E g \in Requests :
          \/ ApproveLogin(g) \/ CommitExchange(g) \/ CommitRotation(g)
          \/ RevokeReused(g) \/ RevokeSession(g) \/ CommitRevoke(g)
    \/ \E l \in Logins, i \in Installs : StartTelegramLogin(l, i)
    \/ \E u \in Users, n \in Limits : UpdateSubscription(u, n)
    \/ \E u \in Users : GetOrCreateSubscription(u)
    \/ \E old \in SUBSET Sessions, tokens \in SUBSET used : Cleanup(old, tokens)

LEMMA OthersOnlyRead ==
    ASSUME [Next]_vars, ~Writes
    PROVE  /\ UNCHANGED <<login, limit, device, session>>
           /\ expired' = expired \/ \E x \in Expiring : Expire(x)
<1>1. ASSUME NEW g \in Requests, RequestStep(g)
      PROVE  UNCHANGED <<login, limit, device, session, expired>>
  <2>1. CASE \/ \E l \in Logins, v \in Users : BeginApprove(g, l, v)
             \/ \E l \in Logins, i \in Installs : BeginExchange(g, l, i)
             \/ \E t \in Tokens, i \in Installs : BeginRefresh(g, t, i)
             \/ \E s \in Sessions : BeginAccess(g, s)
             \/ \E t \in Tokens : BeginLogout(g, t)
             \/ \E i \in Installs : LockDevice(g, i)
             \/ Abort(g) \/ Fail(g) \/ Answer(g)
    BY <2>1 DEF BeginApprove, BeginExchange, BeginRefresh, BeginAccess, BeginLogout,
                LockDevice, Abort, Fail, Answer, database, clock
  <2>2. CASE \/ LockLogin(g) \/ ReadUser(g) \/ LockSubscription(g) \/ InsertSubscription(g)
             \/ ReadDevice(g) \/ CountDevices(g) \/ TakeDevice(g) \/ CreateDevice(g)
             \/ TouchDevice(g)
    BY <2>2 DEF LockLogin, ReadUser, LockSubscription, InsertSubscription, ReadDevice,
                CountDevices, TakeDevice, CreateDevice, TouchDevice, database, clock
  <2>3. CASE \/ ReadUsed(g) \/ LockSession(g) \/ ReadSession(g) \/ CheckDevice(g)
             \/ ReadAccount(g)
    BY <2>3 DEF ReadUsed, LockSession, ReadSession, CheckDevice, ReadAccount, database, clock
  <2> QED BY <1>1, <2>1, <2>2, <2>3 DEF RequestStep, Progress, Writes
<1>2. CASE Surroundings
  <2>1. \/ \E u \in Blockable : SetBlocked(u)
        \/ \E x \in Expiring : Expire(x)
    BY <1>2 DEF Surroundings, Writes
  <2> QED BY <2>1 DEF SetBlocked, Expire, database
<1>3. CASE UNCHANGED vars BY <1>3 DEF vars
<1> QED BY <1>1, <1>2, <1>3 DEF Next

-----------------------------------------------------------------------------
(***************************************************************************)
(* The theorems                                                            *)
(***************************************************************************)

\* The invariant holds in every state.
THEOREM MobileInvariant == Spec => []MobileInv
BY MobileInit, MobileStep, PTL DEF Spec

\* Type correctness; a session is never rotated past its last refresh token.
THEOREM MobileTypeCorrect == Spec => []TypeOK
<1>1. MobileInv => TypeOK BY DEF MobileInv
<1> QED BY <1>1, MobileInvariant, PTL

\* A login is exchanged once, however many requests present it at once.
THEOREM LoginsExchangedOnce == Spec => []OneSessionPerLogin
<1>1. MobileInv => OneSessionPerLogin BY DEF MobileInv, SessionInv
<1> QED BY <1>1, MobileInvariant, PTL

\* A session is one of the owner of its device, whoever logs in from there at once.
THEOREM OwnersKeepTheirSessions == Spec => []SessionsOfTheOwner
<1>1. MobileInv => SessionsOfTheOwner BY DEF MobileInv, SessionInv, Rooted, SessionsOfTheOwner
<1> QED BY <1>1, MobileInvariant, PTL

\* No request gets in with a session that had ended, or whose device had been
\* revoked, when it began.
THEOREM RevokedStaysOut == Spec => []NoAccessOnceRevoked
<1>1. MobileInv => NoAccessOnceRevoked
  <2> SUFFICES ASSUME MobileInv, NEW g \in Requests, task[g].pc = "granted"
               PROVE  ~task[g].dead
    BY DEF NoAccessOnceRevoked
  <2>1. AccessInv(g) BY DEF MobileInv, RequestInv
  <2> QED BY <2>1 DEF AccessInv, Entering
<1> QED BY <1>1, MobileInvariant, PTL

\* Only the commit of an exchange adds a device to those of a user.
LEMMA OnlyCommitAdds ==
    ASSUME MobileInv, [Next]_vars, NEW u \in Users,
           ~(ActiveDevices(u)' \subseteq ActiveDevices(u))
    PROVE  \E g \in Requests : CommitExchange(g) /\ task[g].user = u
<1>0. ~(UNCHANGED device) BY DEF ActiveDevices
<1>1. CASE \E g \in Requests : CommitExchange(g)
  BY <1>1, OtherDevices
<1>2. ASSUME NEW g \in Requests, CommitRevoke(g) PROVE FALSE
  <2>1. device \in [Installs -> Device] BY DEF MobileInv, TypeOK
  <2>2. device' = [device EXCEPT ![task[g].install].status = "revoked"]
    BY <1>2 DEF CommitRevoke
  <2>3. \A i \in Installs : device'[i].status = "active" => device'[i] = device[i]
    BY <2>1, <2>2 DEF Device
  <2> QED BY <2>3 DEF ActiveDevices
<1>3. CASE ~(\E g \in Requests : CommitExchange(g) \/ CommitRevoke(g))
  <2>1. Writes BY <1>0, OthersOnlyRead
  <2>2. UNCHANGED device
    BY <1>3, <2>1 DEF Writes, ApproveLogin, CommitRotation, RevokeReused, RevokeSession,
       StartTelegramLogin, UpdateSubscription, GetOrCreateSubscription, StoreLimit, Cleanup
  <2> QED BY <1>0, <2>2
<1> QED BY <1>1, <1>2, <1>3

\* Whenever a device is added to those of a user, they are not more than the limit
\* in force: exchanges of one user count one after the other.
THEOREM DeviceLimit == Spec => DeviceLimitHolds
<1>1. MobileInv /\ [Next]_vars =>
        [\A u \in Users :
            ~(ActiveDevices(u)' \subseteq ActiveDevices(u))
                => Cardinality(ActiveDevices(u)') <= limit'[u]]_vars
  <2> SUFFICES ASSUME MobileInv, [Next]_vars, NEW u \in Users,
                      ~(ActiveDevices(u)' \subseteq ActiveDevices(u))
               PROVE  Cardinality(ActiveDevices(u)') <= limit'[u]
    OBVIOUS
  <2>1. PICK g \in Requests : CommitExchange(g) /\ task[g].user = u BY OnlyCommitAdds
  <2> DEFINE i == task[g].install
             n == task[g].limit
             A == ActiveDevices(u)
             B == ActiveDevices(u)'
  <2>2. /\ i \in Installs /\ n \in Nat
        /\ limit[u] = n \/ (limit[u] = None /\ n = 1)
        /\ device[i].status = "none" => Cardinality(A) < n
    <3> DEFINE l == task[g].login
    <3>1. /\ l \in Logins /\ u \in Users /\ i \in Installs /\ n \in Nat
          /\ <<"login", l>> \in locks[g] /\ <<"subscription", u>> \in locks[g]
          /\ <<"device", i>> \in locks[g]
          /\ login[l].status = "approved" /\ ~login[l].exchanged
          /\ limit[u] = n \/ (limit[u] = None /\ n = 1)
          /\ device[i].status = "none" => Cardinality(A) < n
          /\ device[i].status # "none" => device[i].user = u
      BY <2>1, AtCommit
    <3> QED BY <3>1
  <2>3. /\ limit'[u] = IF limit[u] = None THEN 1 ELSE limit[u]
        /\ device[i].status # "none" => device'[i] = device[i]
        /\ \A j \in Installs \ {i} : device'[j] = device[j]
    BY <2>1, CommitWrites
  <2>4. limit'[u] = n BY <2>2, <2>3, MobileAssumption
  <2>5. B \subseteq A \cup {i} BY <2>3 DEF ActiveDevices
  <2>6. device[i].status = "none"
    <3>1. SUFFICES ASSUME device[i].status # "none" PROVE FALSE
      OBVIOUS
    <3>2. \A j \in Installs : device'[j] = device[j] BY <2>2, <2>3, <3>1
    <3> QED BY <3>2 DEF ActiveDevices
  <2>7. IsFiniteSet(A) /\ Cardinality(A) \in Nat BY ActiveFinite
  <2> HIDE DEF A, B, i, n
  <2>8. IsFiniteSet(A \cup {i}) /\ Cardinality(A \cup {i}) <= Cardinality(A) + 1
    <3>1. /\ IsFiniteSet(A \cup {i})
          /\ Cardinality(A \cup {i}) = IF i \in A THEN Cardinality(A) ELSE Cardinality(A) + 1
      BY <2>7, FS_AddElement
    <3> QED BY <2>7, <3>1
  <2>9. /\ Cardinality(B) <= Cardinality(A \cup {i})
        /\ Cardinality(B) \in Nat /\ Cardinality(A \cup {i}) \in Nat
    BY <2>5, <2>8, FS_Subset, FS_CardinalityType
  <2>10. Cardinality(B) <= n BY <2>2, <2>6, <2>7, <2>8, <2>9
  <2> QED BY <2>4, <2>10 DEF B
<1> QED BY <1>1, MobileInvariant, PTL DEF Spec, DeviceLimitHolds

\* How a request that presents a used token can end.
LEMMA ReuseSteps ==
    ASSUME MobileInv, [Next]_vars, NEW g \in Requests, task[g].pc \in {"used", "reuse"},
           task'[g].pc = "idle"
    PROVE  RevokeReused(g)
<1>0. task \in [Requests -> Task] BY DEF MobileInv, TypeOK
<1>1. ASSUME NEW h \in Requests, RequestStep(h), h # g PROVE FALSE
  <2>1. \E t : task' = [task EXCEPT ![h] = t]
    <3>1. CASE \/ \E l \in Logins, v \in Users : BeginApprove(h, l, v)
               \/ \E l \in Logins, i \in Installs : BeginExchange(h, l, i)
               \/ \E t \in Tokens, i \in Installs : BeginRefresh(h, t, i)
               \/ \E s \in Sessions : BeginAccess(h, s)
               \/ \E t \in Tokens : BeginLogout(h, t)
               \/ \E i \in Installs : LockDevice(h, i)
               \/ Abort(h) \/ Fail(h) \/ Answer(h)
      BY <3>1 DEF BeginApprove, BeginExchange, BeginRefresh, BeginAccess, Begin, BeginLogout,
                  LockDevice, Abort, Fail, Answer, End, Goto
    <3>2. CASE \/ LockLogin(h) \/ ReadUser(h) \/ LockSubscription(h) \/ InsertSubscription(h)
               \/ ReadDevice(h) \/ CountDevices(h) \/ CreateDevice(h)
               \/ TouchDevice(h) \/ CommitExchange(h)
      BY <3>2 DEF LockLogin, ReadUser, LockSubscription, InsertSubscription, ReadDevice,
                  CountDevices, CreateDevice, TouchDevice, CommitExchange, End, Goto
    <3>3. CASE \/ ApproveLogin(h) \/ ReadUsed(h) \/ RevokeReused(h) \/ LockSession(h)
               \/ CommitRotation(h) \/ ReadSession(h) \/ CheckDevice(h) \/ ReadAccount(h)
               \/ RevokeSession(h) \/ CommitRevoke(h)
      BY <3>3 DEF ApproveLogin, ReadUsed, RevokeReused, LockSession, CommitRotation,
                  ReadSession, CheckDevice, ReadAccount, RevokeSession, CommitRevoke, End, Goto
    <3>4. CASE TakeDevice(h)
      <4>1. End(h) \/ Goto(h, "create") \/ Goto(h, "touch") BY <3>4 DEF TakeDevice
      <4> QED BY <4>1 DEF End, Goto
    <3> QED BY <1>1, <3>1, <3>2, <3>3, <3>4 DEF RequestStep, Progress
  <2>2. task'[g] = task[g] BY <1>0, <1>1, <2>1
  <2> QED BY <2>2
<1>2. CASE RequestStep(g)
  <2>1. CASE \/ \E l \in Logins, v \in Users : BeginApprove(g, l, v)
             \/ \E l \in Logins, i \in Installs : BeginExchange(g, l, i)
             \/ \E t \in Tokens, i \in Installs : BeginRefresh(g, t, i)
             \/ \E s \in Sessions : BeginAccess(g, s)
             \/ \E t \in Tokens : BeginLogout(g, t)
             \/ \E i \in Installs : LockDevice(g, i)
             \/ Fail(g) \/ Answer(g)
    BY <2>1 DEF BeginApprove, BeginExchange, BeginRefresh, BeginAccess, Begin, BeginLogout,
                LockDevice, Fail, Answer
  <2>2. CASE \/ LockLogin(g) \/ ReadUser(g) \/ LockSubscription(g) \/ InsertSubscription(g)
             \/ ReadDevice(g) \/ CountDevices(g) \/ TakeDevice(g) \/ CreateDevice(g)
             \/ TouchDevice(g) \/ CommitExchange(g)
    BY <2>2 DEF LockLogin, ReadUser, LockSubscription, InsertSubscription, ReadDevice,
                CountDevices, TakeDevice, CreateDevice, TouchDevice, CommitExchange
  <2>3. CASE \/ ApproveLogin(g) \/ LockSession(g) \/ CommitRotation(g) \/ ReadSession(g)
             \/ CheckDevice(g) \/ ReadAccount(g) \/ RevokeSession(g) \/ CommitRevoke(g)
    BY <2>3 DEF ApproveLogin, LockSession, CommitRotation, ReadSession, CheckDevice,
                ReadAccount, RevokeSession, CommitRevoke
  <2>4. CASE ReadUsed(g)
    <3>1. Goto(g, "reuse") \/ Goto(g, "match") BY <2>4 DEF ReadUsed
    <3>2. "reuse" \in PCs /\ "match" \in PCs BY DEF PCs
    <3> QED BY <3>1, <3>2, Went
  <2>5. CASE Abort(g)
    <3>1. task'[g].pc = "aborted" BY <1>0, <2>5 DEF Abort, IdleTask
    <3> QED BY <3>1
  <2> QED BY <1>2, <2>1, <2>2, <2>3, <2>4, <2>5 DEF RequestStep, Progress
<1>3. CASE Surroundings \/ UNCHANGED vars
  <2>1. task' = task
    BY <1>3 DEF Surroundings, StartTelegramLogin, UpdateSubscription,
       GetOrCreateSubscription, StoreLimit, SetBlocked, Expire, Cleanup, vars
  <2> QED BY <2>1
<1> QED BY <1>1, <1>2, <1>3 DEF Next

\* A refresh token that is presented after its use ends its session: unless it is
\* aborted, such a request leaves no live session behind.
THEOREM ReuseIsPunished == Spec => ReuseEndsSession
<1>1. MobileInv /\ [Next]_vars =>
        [\A g \in Requests :
            task[g].spent /\ task[g].pc # "idle" /\ task'[g].pc = "idle"
                => session'[task[g].token[1]].status # "live"]_vars
  <2> SUFFICES ASSUME MobileInv, [Next]_vars, NEW g \in Requests, task[g].spent,
                      task'[g].pc = "idle"
               PROVE  session'[task[g].token[1]].status # "live"
    OBVIOUS
  <2>1. task[g].pc \in {"used", "reuse"} BY DEF MobileInv, RequestInv, RefreshInv
  <2>2. RevokeReused(g) BY <2>1, ReuseSteps
  <2>3. task[g].token[1] \in Sessions
    BY <2>1, TokenParts DEF MobileInv, RequestInv, Equipped, Refreshing
  <2>4. session \in [Sessions -> Session] BY DEF MobileInv, TypeOK
  <2>5. CASE Stored(task[g].token[1])
    <3>1. session' = [session EXCEPT ![task[g].token[1]].status = "revoked"]
      BY <2>2, <2>5 DEF RevokeReused
    <3> QED BY <2>3, <2>4, <3>1 DEF Session
  <2>6. CASE ~Stored(task[g].token[1])
    BY <2>2, <2>6 DEF RevokeReused, Stored
  <2> QED BY <2>5, <2>6
<1> QED BY <1>1, MobileInvariant, PTL DEF Spec, ReuseEndsSession

-----------------------------------------------------------------------------
(***************************************************************************)
(* MobileAuth implements MobileAccess                                      *)
(***************************************************************************)

\* What MobileAccess sees of the sessions.
VisibleSessions == [s \in Sessions |-> Visible(session[s])]

AccessStep == [Access!AccessNext]_(Access!accessVars)

LEMMA AccessStutters ==
    ASSUME UNCHANGED <<login, limit, device, session>>
    PROVE  AccessStep
BY DEF AccessStep, Access!accessVars

\* Of a row with one field changed that field is what MobileAccess sees changed.
LEMMA VisibleChange ==
    ASSUME NEW r \in Session
    PROVE  /\ \A st : Visible([r EXCEPT !.status = st]) = [Visible(r) EXCEPT !.status = st]
           /\ \A n : Visible([r EXCEPT !.current = n]) = [Visible(r) EXCEPT !.current = n]
           /\ Visible(r).status = r.status /\ Visible(r).user = r.user
           /\ Visible(r).install = r.install /\ Visible(r).current = r.current
BY DEF Visible, Session

\* MobileAccess counts with the same operator.
LEMMA SameCount == ASSUME NEW S PROVE Access!Cardinality(S) = Cardinality(S)
BY DEF Cardinality, Access!Cardinality

LEMMA StartsLogin ==
    ASSUME NEW l \in Logins, NEW i \in Installs, StartTelegramLogin(l, i)
    PROVE  AccessStep
<1>1. [NoLogin EXCEPT !.status = "pending", !.install = i]
         = [status |-> "pending", install |-> i, user |-> None, exchanged |-> FALSE]
  <2> DEFINE r == [NoLogin EXCEPT !.status = "pending", !.install = i]
             q == [status |-> "pending", install |-> i, user |-> None, exchanged |-> FALSE]
  <2>1. /\ r \in Login /\ r.status = "pending" /\ r.install = i /\ r.user = None
        /\ r.exchanged = FALSE
    BY DEF NoLogin, Login
  <2>2. q \in Login BY DEF Login
  <2>3. q.status = "pending" /\ q.install = i /\ q.user = None /\ q.exchanged = FALSE
    OBVIOUS
  <2> HIDE DEF r, q
  <2>4. r = q BY <2>1, <2>2, <2>3 DEF Login
  <2> QED BY <2>4 DEF r, q
<1>2. Access!StartLogin(l, i) BY <1>1 DEF StartTelegramLogin, Access!StartLogin
<1> QED BY <1>2 DEF AccessStep, Access!AccessNext

LEMMA ApprovesLogin ==
    ASSUME MobileInv, NEW g \in Requests, ApproveLogin(g)
    PROVE  AccessStep
<1> DEFINE l == task[g].login
           u == task[g].user
<1>1. l \in Logins /\ u \in Users
  BY DEF ApproveLogin, MobileInv, RequestInv, Equipped
<1>2. CASE login' = login
  <2>1. UNCHANGED <<login, limit, device, session>> BY <1>2 DEF ApproveLogin
  <2> QED BY <2>1, AccessStutters
<1>3. CASE login' # login
  <2>1. Access!Approve(l, u) BY <1>3 DEF ApproveLogin, Access!Approve
  <2> QED BY <1>1, <2>1 DEF AccessStep, Access!AccessNext
<1> QED BY <1>2, <1>3

\* The commit of an exchange is the exchange: until it, nothing was to be seen, and
\* what the transaction read before still holds.
LEMMA ExchangesLogin ==
    ASSUME MobileInv, NEW g \in Requests, CommitExchange(g)
    PROVE  AccessStep
<1> DEFINE l == task[g].login
           u == task[g].user
           i == task[g].install
           n == task[g].limit
<1>1. /\ l \in Logins /\ u \in Users /\ i \in Installs /\ n \in Nat
      /\ <<"login", l>> \in locks[g] /\ <<"subscription", u>> \in locks[g]
      /\ <<"device", i>> \in locks[g]
      /\ login[l].status = "approved" /\ ~login[l].exchanged
      /\ limit[u] = n \/ (limit[u] = None /\ n = 1)
      /\ device[i].status = "none" => Cardinality(ActiveDevices(u)) < n
      /\ device[i].status # "none" => device[i].user = u
  BY AtCommit
<1>2. login[l].install = i /\ login[l].user = u
  <2>1. task[g].pc \in Exchanging BY DEF CommitExchange, Exchanging
  <2> QED BY <2>1 DEF MobileInv, RequestInv, ExchangeInv
<1>3. PICK s \in Sessions :
          /\ session[s].status = "none"
          /\ session' = [session EXCEPT ![s] =
                [NoSession EXCEPT !.status = "live", !.user = u, !.install = i, !.from = l]]
  BY DEF CommitExchange
<1>4. /\ login' = [login EXCEPT ![l].exchanged = TRUE]
      /\ limit' = IF limit[u] = None THEN [limit EXCEPT ![u] = 1] ELSE limit
      /\ device' = IF device[i].status = "none"
                   THEN [device EXCEPT ![i] = [status |-> "active", user |-> u]]
                   ELSE device
  BY DEF CommitExchange
<1> HIDE DEF l, u, i, n
<1>5. Access!LimitOf(u) = n BY <1>1, MobileAssumption DEF Access!LimitOf
<1>6. /\ Access!DevicesOf(u) = ActiveDevices(u)
      /\ Access!Cardinality(ActiveDevices(u)) = Cardinality(ActiveDevices(u))
  BY SameCount DEF Access!DevicesOf, ActiveDevices
<1>7. Access!AddDevice(i, u) \/ Access!KeepDevice(i, u)
  <2>1. CASE device[i].status = "none"
    <3>1. Access!Cardinality(Access!DevicesOf(u)) < Access!LimitOf(u) BY <1>1, <1>5, <1>6, <2>1
    <3>2. device' = [device EXCEPT ![i] = [status |-> "active", user |-> u]]
      BY <1>4, <2>1
    <3> QED BY <2>1, <3>1, <3>2 DEF Access!AddDevice
  <2>2. CASE device[i].status # "none"
    <3>1. device' = device /\ device[i].user = u BY <1>1, <1>4, <2>2
    <3> QED BY <2>2, <3>1 DEF Access!KeepDevice
  <2> QED BY <2>1, <2>2
<1>8. limit' = [limit EXCEPT ![u] = Access!LimitOf(u)]
  BY <1>1, <1>4 DEF MobileInv, TypeOK, Access!LimitOf
<1>9. session \in [Sessions -> Session] BY DEF MobileInv, TypeOK
<1>10. VisibleSessions' =
         [VisibleSessions EXCEPT ![s] = [status |-> "live", user |-> u, install |-> i,
                                         current |-> 0]]
  <2> DEFINE r == [NoSession EXCEPT !.status = "live", !.user = u, !.install = i, !.from = l]
  <2>1. Visible(r) = [status |-> "live", user |-> u, install |-> i, current |-> 0]
    BY DEF Visible, NoSession
  <2>2. session' = [session EXCEPT ![s] = r] BY <1>3
  <2> HIDE DEF r
  <2>3. \A t \in Sessions : session'[t] = IF t = s THEN r ELSE session[t] BY <1>9, <2>2
  <2> QED BY <2>1, <2>3 DEF VisibleSessions
<1>11. VisibleSessions[s].status = "none"
  BY <1>3, <1>9, VisibleChange DEF VisibleSessions
<1>12. Access!Exchange(l, s)
  BY <1>1, <1>2, <1>4, <1>7, <1>8, <1>10, <1>11 DEF Access!Exchange, VisibleSessions
<1> QED BY <1>1, <1>12 DEF AccessStep, Access!AccessNext

\* One session changes, in its status or its token.
LEMMA OneSession ==
    ASSUME MobileInv, NEW s \in Sessions, NEW r, session' = [session EXCEPT ![s] = r]
    PROVE  VisibleSessions' = [VisibleSessions EXCEPT ![s] = Visible(r)]
<1>1. session \in [Sessions -> Session] BY DEF MobileInv, TypeOK
<1>2. \A t \in Sessions : session'[t] = IF t = s THEN r ELSE session[t] BY <1>1
<1>3. \A t \in Sessions :
         Visible(session'[t]) = IF t = s THEN Visible(r) ELSE VisibleSessions[t]
  BY <1>2 DEF VisibleSessions
<1> QED BY <1>3 DEF VisibleSessions

LEMMA RotatesToken ==
    ASSUME MobileInv, NEW g \in Requests, CommitRotation(g)
    PROVE  AccessStep
<1> DEFINE s == task[g].token[1]
           r == [session[s] EXCEPT !.current = session[s].current + 1]
<1>0. session \in [Sessions -> Session] BY DEF MobileInv, TypeOK
<1>1. s \in Sessions /\ session[s].status = "live"
  <2>1. task[g].pc = "rotate" /\ task[g].pc \in Refreshing
    BY DEF CommitRotation, Refreshing
  <2> QED BY <2>1, TokenParts DEF MobileInv, RequestInv, Equipped, RefreshInv
<1>2. session' = [session EXCEPT ![s] = r] /\ UNCHANGED <<login, limit, device>>
  BY <1>0, <1>1 DEF CommitRotation
<1>3. VisibleSessions' = [VisibleSessions EXCEPT ![s] = Visible(r)]
  BY <1>1, <1>2, OneSession
<1>4. session[s] \in Session BY <1>0, <1>1
<1>5. /\ Visible(r) = [Visible(session[s]) EXCEPT !.current = session[s].current + 1]
      /\ Visible(session[s]).status = "live"
      /\ Visible(session[s]).current = session[s].current
  BY <1>1, <1>4, VisibleChange
<1>6. VisibleSessions[s] = Visible(session[s]) BY <1>1 DEF VisibleSessions
<1> HIDE DEF s, r
<1>7. VisibleSessions' = [VisibleSessions EXCEPT ![s].current = @ + 1]
  BY <1>3, <1>5, <1>6
<1>8. Access!Rotate(s) BY <1>2, <1>5, <1>6, <1>7 DEF Access!Rotate, VisibleSessions
<1> QED BY <1>1, <1>8 DEF AccessStep, Access!AccessNext

\* A session that is live is revoked; to revoke one that has ended is no change.
LEMMA RevokesOne ==
    ASSUME MobileInv, NEW s \in Sessions, UNCHANGED <<login, limit, device>>,
           session' = [session EXCEPT ![s].status = "revoked"],
           session[s].status \in {"live", "revoked"}
    PROVE  AccessStep
<1> DEFINE r == [session[s] EXCEPT !.status = "revoked"]
<1>0. session \in [Sessions -> Session] /\ session[s] \in Session BY DEF MobileInv, TypeOK
<1>1. CASE session[s].status = "revoked"
  <2>1. r = session[s] BY <1>0, <1>1 DEF Session
  <2>2. session' = session BY <1>0, <2>1
  <2> QED BY <2>2, AccessStutters
<1>2. CASE session[s].status = "live"
  <2>1. session' = [session EXCEPT ![s] = r] BY <1>0
  <2>2. VisibleSessions' = [VisibleSessions EXCEPT ![s] = Visible(r)] BY <2>1, OneSession
  <2>3. /\ Visible(r) = [Visible(session[s]) EXCEPT !.status = "revoked"]
        /\ Visible(session[s]).status = "live"
    BY <1>0, <1>2, VisibleChange
  <2>4. VisibleSessions[s] = Visible(session[s]) BY DEF VisibleSessions
  <2> HIDE DEF r
  <2>5. VisibleSessions' = [VisibleSessions EXCEPT ![s].status = "revoked"]
    BY <2>2, <2>3, <2>4
  <2>6. Access!Revoke(s) BY <2>3, <2>4, <2>5 DEF Access!Revoke, VisibleSessions
  <2> QED BY <2>6 DEF AccessStep, Access!AccessNext
<1> QED BY <1>1, <1>2

LEMMA RevokesSession ==
    ASSUME MobileInv, NEW g \in Requests, RevokeReused(g) \/ RevokeSession(g)
    PROVE  AccessStep
<1>1. UNCHANGED <<login, limit, device>> BY DEF RevokeReused, RevokeSession
<1>2. CASE session' = session BY <1>1, <1>2, AccessStutters
<1>3. CASE RevokeReused(g) /\ session' # session
  <2>1. task[g].pc \in Refreshing BY <1>3 DEF RevokeReused, Refreshing
  <2>2. task[g].token[1] \in Sessions
    BY <2>1, TokenParts DEF MobileInv, RequestInv, Equipped
  <2>3. /\ session' = [session EXCEPT ![task[g].token[1]].status = "revoked"]
        /\ session[task[g].token[1]].status \in {"live", "revoked"}
    BY <1>3 DEF RevokeReused, Stored
  <2> QED BY <1>1, <2>2, <2>3, RevokesOne
<1>4. CASE RevokeSession(g) /\ session' # session
  <2>1. task[g].pc \in Entering BY <1>4 DEF RevokeSession, Entering
  <2>2. task[g].session \in Sessions BY <2>1 DEF MobileInv, RequestInv, Equipped
  <2>3. /\ session' = [session EXCEPT ![task[g].session].status = "revoked"]
        /\ session[task[g].session].status \in {"live", "revoked"}
    BY <1>4 DEF RevokeSession
  <2> QED BY <1>1, <2>2, <2>3, RevokesOne
<1> QED BY <1>2, <1>3, <1>4

\* Some sessions get another status.
LEMMA SomeSessions ==
    ASSUME MobileInv, NEW S, NEW st,
           \A s \in Sessions :
              session'[s] = IF s \in S THEN [session[s] EXCEPT !.status = st] ELSE session[s]
    PROVE  \A s \in Sessions :
              Visible(session'[s]) = IF s \in S THEN [VisibleSessions[s] EXCEPT !.status = st]
                                     ELSE VisibleSessions[s]
<1>1. session \in [Sessions -> Session] BY DEF MobileInv, TypeOK
<1>2. \A s \in Sessions :
         Visible([session[s] EXCEPT !.status = st]) = [Visible(session[s]) EXCEPT !.status = st]
  BY <1>1, VisibleChange
<1>3. \A s \in Sessions : VisibleSessions[s] = Visible(session[s]) BY DEF VisibleSessions
<1> QED BY <1>2, <1>3

LEMMA RevokesDevice ==
    ASSUME MobileInv, NEW g \in Requests, CommitRevoke(g)
    PROVE  AccessStep
<1> DEFINE i == task[g].install
<1>1. i \in Installs /\ device[i].status # "none"
  <2>1. task[g].pc = "sessions" BY DEF CommitRevoke
  <2> QED BY <2>1 DEF MobileInv, RequestInv, Equipped, AccessInv
<1>2. /\ device' = [device EXCEPT ![i].status = "revoked"]
      /\ session' = [s \in Sessions |->
                       IF s \in OfDevice(i) THEN [session[s] EXCEPT !.status = "revoked"]
                       ELSE session[s]]
      /\ UNCHANGED <<login, limit>>
  BY DEF CommitRevoke
<1> HIDE DEF i
<1>3. VisibleSessions' = [s \in Sessions |->
                       IF s \in OfDevice(i) THEN [VisibleSessions[s] EXCEPT !.status = "revoked"]
                       ELSE VisibleSessions[s]]
  <2>1. \A s \in Sessions :
           session'[s] = IF s \in OfDevice(i) THEN [session[s] EXCEPT !.status = "revoked"]
                         ELSE session[s]
    BY <1>2
  <2>2. \A s \in Sessions :
           Visible(session'[s]) =
             IF s \in OfDevice(i) THEN [VisibleSessions[s] EXCEPT !.status = "revoked"]
             ELSE VisibleSessions[s]
    BY <2>1, SomeSessions
  <2> QED BY <2>2 DEF VisibleSessions
<1>4. \A s \in Sessions : /\ VisibleSessions[s].status = session[s].status
                          /\ VisibleSessions[s].install = session[s].install
  BY DEF VisibleSessions, Visible
<1>5. Access!LiveOn(i) = OfDevice(i)
  BY <1>4 DEF Access!LiveOn, OfDevice, VisibleSessions
<1>6. Access!RevokeDevice(i)
  BY <1>1, <1>2, <1>3, <1>5 DEF Access!RevokeDevice, VisibleSessions
<1> QED BY <1>1, <1>6 DEF AccessStep, Access!AccessNext

LEMMA SetsLimit ==
    ASSUME NEW u \in Users,
           \/ \E n \in Limits : UpdateSubscription(u, n)
           \/ GetOrCreateSubscription(u)
    PROVE  AccessStep
<1>1. CASE GetOrCreateSubscription(u)
  <2>1. Access!Subscribe(u)
    BY <1>1 DEF GetOrCreateSubscription, StoreLimit, Access!Subscribe
  <2> QED BY <2>1 DEF AccessStep, Access!AccessNext
<1>2. ASSUME NEW n \in Limits, UpdateSubscription(u, n) PROVE AccessStep
  <2>1. n \in ValidLimits /\ Access!SetLimit(u, n)
    BY <1>2 DEF UpdateSubscription, StoreLimit, Access!SetLimit
  <2> QED BY <2>1 DEF AccessStep, Access!AccessNext
<1> QED BY <1>1, <1>2

\* Only a login that was started expires.
ExpiredInv == \A l \in Logins \cap expired : login[l].status # "none"

LEMMA Forgets ==
    ASSUME MobileInv, ExpiredInv, NEW old \in SUBSET Sessions, NEW tokens \in SUBSET used,
           Cleanup(old, tokens)
    PROVE  AccessStep
<1> DEFINE doomed == {l \in Logins \cap expired : login[l].status # "deleted"}
<1>1. /\ \A s \in old : session[s].status \in {"live", "revoked"}
      /\ login' = [l \in Logins |-> IF l \in doomed THEN [login[l] EXCEPT !.status = "deleted"]
                                    ELSE login[l]]
      /\ session' = [s \in Sessions |-> IF s \in old THEN [session[s] EXCEPT !.status = "deleted"]
                                        ELSE session[s]]
      /\ UNCHANGED <<limit, device>>
  BY DEF Cleanup, Stored
<1>2. \A l \in doomed : login[l].status # "none" BY DEF ExpiredInv
<1>3. doomed \in SUBSET Logins OBVIOUS
<1> HIDE DEF doomed
<1>4. VisibleSessions' = [s \in Sessions |->
                       IF s \in old THEN [VisibleSessions[s] EXCEPT !.status = "deleted"]
                       ELSE VisibleSessions[s]]
  <2>1. \A s \in Sessions :
           session'[s] = IF s \in old THEN [session[s] EXCEPT !.status = "deleted"]
                         ELSE session[s]
    BY <1>1
  <2>2. \A s \in Sessions :
           Visible(session'[s]) =
             IF s \in old THEN [VisibleSessions[s] EXCEPT !.status = "deleted"]
             ELSE VisibleSessions[s]
    BY <2>1, SomeSessions
  <2> QED BY <2>2 DEF VisibleSessions
<1>5. \A s \in Sessions : VisibleSessions[s].status = session[s].status
  BY DEF VisibleSessions, Visible
<1>6. Access!Forget(doomed, old)
  BY <1>1, <1>2, <1>4, <1>5 DEF Access!Forget, VisibleSessions
<1> QED BY <1>3, <1>6 DEF AccessStep, Access!AccessNext

LEMMA EveryStepAccess ==
    ASSUME MobileInv, ExpiredInv, [Next]_vars
    PROVE  AccessStep
<1>1. CASE ~Writes BY <1>1, OthersOnlyRead, AccessStutters
<1>2. CASE Writes
  BY <1>2, StartsLogin, ApprovesLogin, ExchangesLogin, RotatesToken, RevokesSession,
     RevokesDevice, SetsLimit, Forgets
  DEF Writes
<1> QED BY <1>1, <1>2

\* A login that was started is never missing again.
LEMMA LoginsRemain ==
    ASSUME MobileInv, [Next]_vars, NEW l \in Logins, login[l].status # "none"
    PROVE  login'[l].status # "none"
<1>0. login \in [Logins -> Login] BY DEF MobileInv, TypeOK
<1>1. CASE ~Writes BY <1>1, OthersOnlyRead
<1>2. CASE Writes
  <2>1. CASE UNCHANGED login BY <2>1
  <2>2. ASSUME NEW g \in Requests, ApproveLogin(g) PROVE login'[l].status # "none"
    BY <1>0, <2>2 DEF ApproveLogin, Login
  <2>3. ASSUME NEW g \in Requests, CommitExchange(g) PROVE login'[l].status # "none"
    <3>1. login' = [login EXCEPT ![task[g].login].exchanged = TRUE]
      BY <2>3 DEF CommitExchange
    <3> QED BY <1>0, <3>1 DEF Login
  <2>4. ASSUME NEW k \in Logins, NEW i \in Installs, StartTelegramLogin(k, i)
        PROVE  login'[l].status # "none"
    <3>1. k # l /\ login'[l] = login[l] BY <1>0, <2>4 DEF StartTelegramLogin
    <3> QED BY <3>1
  <2>5. ASSUME NEW old, NEW tokens, Cleanup(old, tokens) PROVE login'[l].status # "none"
    <3>1. login'[l] = login[l] \/ login'[l] = [login[l] EXCEPT !.status = "deleted"]
      BY <2>5 DEF Cleanup
    <3>2. [login[l] EXCEPT !.status = "deleted"].status = "deleted" BY <1>0 DEF Login
    <3> QED BY <3>1, <3>2
  <2>6. CASE \/ \E g \in Requests : \/ CommitRotation(g) \/ RevokeReused(g)
                                    \/ RevokeSession(g) \/ CommitRevoke(g)
             \/ \E u \in Users, n \in Limits : UpdateSubscription(u, n)
             \/ \E u \in Users : GetOrCreateSubscription(u)
    BY <2>1, <2>6 DEF CommitRotation, RevokeReused, RevokeSession, CommitRevoke,
                      UpdateSubscription, GetOrCreateSubscription, StoreLimit
  <2> QED BY <1>2, <2>2, <2>3, <2>4, <2>5, <2>6 DEF Writes
<1> QED BY <1>1, <1>2

LEMMA ExpiredStep == MobileInv /\ ExpiredInv /\ [Next]_vars => ExpiredInv'
<1> SUFFICES ASSUME MobileInv, ExpiredInv, [Next]_vars, NEW l \in Logins, l \in expired'
             PROVE  login'[l].status # "none"
  BY DEF ExpiredInv
<1>1. CASE l \in expired BY <1>1, LoginsRemain DEF ExpiredInv
<1>2. CASE l \notin expired
  <2>1. PICK x \in Expiring : Expire(x)
    <3>1. ASSUME Writes PROVE expired' \subseteq expired
      BY <3>1 DEF Writes, ApproveLogin, CommitExchange, CommitRotation, RevokeReused,
         RevokeSession, CommitRevoke, StartTelegramLogin, UpdateSubscription,
         GetOrCreateSubscription, StoreLimit, Cleanup, clock
    <3> QED BY <1>2, <3>1, OthersOnlyRead
  <2>2. x = l BY <1>2, <2>1 DEF Expire
  <2>3. login[l].status \in {"pending", "approved"} /\ login' = login
    BY <2>1, <2>2 DEF Expire, database
  <2> QED BY <2>3
<1> QED BY <1>1, <1>2

LEMMA AccessStarts == Init => Access!AccessInit
<1> SUFFICES ASSUME Init PROVE Access!AccessInit
  OBVIOUS
<1>1. login = [l \in Logins |-> [status |-> "none", install |-> None, user |-> None,
                                 exchanged |-> FALSE]]
  BY DEF Init, NoLogin
<1>2. device = [i \in Installs |-> [status |-> "none", user |-> None]]
  BY DEF Init, NoDevice
<1>3. \A s \in Sessions : Visible(session[s]) =
         [status |-> "none", user |-> None, install |-> None, current |-> 0]
  BY DEF Init, NoSession, Visible
<1>4. limit = [u \in Users |-> None] BY DEF Init
<1> QED BY <1>1, <1>2, <1>3, <1>4 DEF Access!AccessInit

\* With all their transactions, requests at once are the single steps of module
\* MobileAccess: an exchange happens at its commit, the revocation of a device and of
\* its sessions at once, and whatever a failed request did was never to be seen.
THEOREM RefinesAccess == Spec => ImplementsAccess
<1>1. Init => ExpiredInv BY DEF Init, ExpiredInv
<1>2. Spec => []ExpiredInv BY <1>1, ExpiredStep, MobileInvariant, PTL DEF Spec
<1>3. MobileInv /\ ExpiredInv /\ [Next]_vars => [Access!AccessNext]_(Access!accessVars)
  BY EveryStepAccess DEF AccessStep
<1> QED BY <1>2, <1>3, AccessStarts, MobileInvariant, PTL
           DEF Spec, ImplementsAccess, Access!AccessSpec

-----------------------------------------------------------------------------
(***************************************************************************)
(* Nobody waits in a circle                                                *)
(***************************************************************************)

\* The order of the tables in which rows are locked.
Rank(row) == CASE row[1] = "login" -> 1 [] row[1] = "subscription" -> 2
               [] row[1] = "device" -> 3 [] OTHER -> 4

\* How far in that order a request has come.
Reach(pc) == CASE pc \in {"user", "subscription", "insert"} -> 1
               [] pc \in {"device", "count", "take", "create", "touch"} -> 2
               [] pc \in {"commit", "sessions"} -> 3
               [] pc = "rotate" -> 4
               [] OTHER -> 0

\* A request holds no lock beyond where it has come.
OrderInv == \A g \in Requests : \A r \in locks[g] : Rank(r) <= Reach(task[g].pc)

LEMMA Ranks ==
    /\ \A x : /\ Rank(<<"login", x>>) = 1 /\ Rank(<<"subscription", x>>) = 2
              /\ Rank(<<"device", x>>) = 3 /\ Rank(<<"session", x>>) = 4
    /\ \A r : Rank(r) \in 1..4
    /\ \A pc : Reach(pc) \in 0..4
BY DEF Rank, Reach

\* What a request waits for is beyond what it holds.
LEMMA AwaitedBeyond ==
    ASSUME NEW g \in Requests, NEW r \in Awaited(g)
    PROVE  Reach(task[g].pc) < Rank(r)
<1> DEFINE t == task[g]
<1>1. CASE t.pc \in {"approve", "login"}
  <2>1. r = <<"login", t.login>> BY <1>1 DEF Awaited
  <2>2. Reach(t.pc) = 0 BY <1>1 DEF Reach
  <2> QED BY <2>1, <2>2, Ranks
<1>2. CASE t.pc \in {"insert", "subscription"}
  <2>1. r = <<"subscription", t.user>> BY <1>2 DEF Awaited
  <2>2. Reach(t.pc) = 1 BY <1>2 DEF Reach
  <2> QED BY <2>1, <2>2, Ranks
<1>3. CASE t.pc \in {"create", "touch"}
  <2>1. r = <<"device", t.install>> BY <1>3 DEF Awaited
  <2>2. Reach(t.pc) = 2 BY <1>3 DEF Reach
  <2> QED BY <2>1, <2>2, Ranks
<1>4. CASE t.pc \in {"reuse", "match", "logout", "sessions"}
  <2>1. \E s : r = <<"session", s>> BY <1>4 DEF Awaited
  <2>2. Reach(t.pc) \in {0, 3} BY <1>4 DEF Reach
  <2> QED BY <2>1, <2>2, Ranks
<1>5. CASE t.pc \notin {"approve", "login", "insert", "subscription", "create", "touch",
                        "reuse", "match", "logout", "sessions"}
  BY <1>5 DEF Awaited
<1> QED BY <1>1, <1>2, <1>3, <1>4, <1>5

\* What a step does to a request's locks and place.
Climbs(g) ==
    \/ locks'[g] = {}
    \/ locks'[g] = locks[g] /\ Reach(task[g].pc) <= Reach(task'[g].pc)
    \/ \E r : /\ locks'[g] = locks[g] \cup {r} /\ Reach(task[g].pc) <= Reach(task'[g].pc)
              /\ Rank(r) <= Reach(task'[g].pc)

\* Another request keeps both.
Others(g) == \A h \in Requests \ {g} : locks'[h] = locks[h] /\ task'[h] = task[h]

LEMMA StepsClimb ==
    ASSUME MobileInv, NEW g \in Requests, RequestStep(g)
    PROVE  Climbs(g) /\ Others(g)
<1> DEFINE t == task[g]
<1>0. /\ locks \in [Requests -> SUBSET Rows] /\ task \in [Requests -> Task]
      /\ t \in Task
  BY DEF MobileInv, TypeOK
<1>1. ASSUME NEW u, task' = [task EXCEPT ![g] = u], locks' = [locks EXCEPT ![g] = {}]
      PROVE  Climbs(g) /\ Others(g)
  BY <1>0, <1>1 DEF Climbs, Others
<1>2. CASE End(g) BY <1>1, <1>2 DEF End
<1>3. ASSUME NEW u, task' = [task EXCEPT ![g] = u], Reach(t.pc) <= Reach(u.pc),
             \/ UNCHANGED locks
             \/ \E r : Lock(g, r) /\ Rank(r) <= Reach(u.pc)
      PROVE  Climbs(g) /\ Others(g)
  BY <1>0, <1>3 DEF Lock, Climbs, Others
<1>4. ASSUME NEW pc, Goto(g, pc), Reach(t.pc) <= Reach(pc),
             \/ UNCHANGED locks
             \/ \E r : Lock(g, r) /\ Rank(r) <= Reach(pc)
      PROVE  Climbs(g) /\ Others(g)
  <2> DEFINE u == [t EXCEPT !.pc = pc]
  <2>1. task' = [task EXCEPT ![g] = u] BY <1>0, <1>4 DEF Goto
  <2>2. u.pc = pc BY <1>0 DEF Task
  <2> HIDE DEF u
  <2>3. /\ Reach(t.pc) <= Reach(u.pc)
        /\ UNCHANGED locks \/ \E r : Lock(g, r) /\ Rank(r) <= Reach(u.pc)
    BY <1>4, <2>2
  <2> QED BY <1>3, <2>1, <2>3
<1>5. CASE \/ \E l \in Logins, v \in Users : BeginApprove(g, l, v)
           \/ \E l \in Logins, i \in Installs : BeginExchange(g, l, i)
           \/ \E k \in Tokens, i \in Installs : BeginRefresh(g, k, i)
           \/ \E s \in Sessions : BeginAccess(g, s)
  <2>1. PICK u : t.pc = "idle" /\ task' = [task EXCEPT ![g] = u] /\ UNCHANGED locks
    BY <1>5 DEF BeginApprove, BeginExchange, BeginRefresh, BeginAccess, Begin
  <2>2. Reach(t.pc) <= Reach(u.pc)
    <3>1. Reach(t.pc) = 0 /\ Reach(u.pc) \in 0..4 BY <2>1, Ranks DEF Reach
    <3> QED BY <3>1
  <2> QED BY <1>3, <2>1, <2>2
<1>6. CASE Abort(g) BY <1>1, <1>6 DEF Abort
<1>7. CASE \/ Fail(g) \/ Answer(g) \/ ApproveLogin(g) \/ CommitExchange(g)
           \/ RevokeReused(g) \/ RevokeSession(g) \/ CommitRevoke(g)
  BY <1>2, <1>7 DEF Fail, Answer, ApproveLogin, CommitExchange, RevokeReused, RevokeSession,
                    CommitRevoke
<1>8. CASE LockLogin(g) /\ ~End(g)
  <2> DEFINE u == [t EXCEPT !.pc = "user", !.user = login[t.login].user]
  <2>1. /\ t.pc = "login" /\ task' = [task EXCEPT ![g] = u]
        /\ Lock(g, <<"login", t.login>>)
    BY <1>0, <1>8 DEF LockLogin
  <2>2. u.pc = "user" BY <1>0 DEF Task
  <2> HIDE DEF u
  <2>3. Reach(t.pc) = 0 /\ Reach(u.pc) = 1 BY <2>1, <2>2 DEF Reach
  <2>4. Reach(t.pc) <= Reach(u.pc) /\ Rank(<<"login", t.login>>) <= Reach(u.pc)
    BY <2>3, Ranks
  <2>5. \E r : Lock(g, r) /\ Rank(r) <= Reach(u.pc) BY <2>1, <2>4
  <2> QED BY <1>3, <2>1, <2>4, <2>5
<1>9. CASE (LockSubscription(g) \/ InsertSubscription(g)) /\ ~End(g)
  <2>1. t.pc \in {"subscription", "insert"} BY <1>9 DEF LockSubscription, InsertSubscription
  <2>2. CASE Goto(g, "insert") /\ UNCHANGED locks
    <3>1. Reach(t.pc) = 1 /\ Reach("insert") = 1 BY <2>1 DEF Reach
    <3> QED BY <1>4, <2>2, <3>1
  <2>3. ASSUME NEW n, task' = [task EXCEPT ![g].pc = "device", ![g].limit = n],
               Lock(g, <<"subscription", t.user>>)
        PROVE  Climbs(g) /\ Others(g)
    <3> DEFINE u == [t EXCEPT !.pc = "device", !.limit = n]
    <3>1. task' = [task EXCEPT ![g] = u] BY <1>0, <2>3
    <3>2. u.pc = "device" BY <1>0 DEF Task
    <3> HIDE DEF u
    <3>3. Reach(t.pc) = 1 /\ Reach(u.pc) = 2 BY <2>1, <3>2 DEF Reach
    <3>4. Reach(t.pc) <= Reach(u.pc) /\ Rank(<<"subscription", t.user>>) <= Reach(u.pc)
      BY <3>3, Ranks
    <3>5. \E r : Lock(g, r) /\ Rank(r) <= Reach(u.pc) BY <2>3, <3>4
    <3> QED BY <1>3, <3>1, <3>4, <3>5
  <2> QED BY <1>9, <2>2, <2>3 DEF LockSubscription, LockOfSubscription, InsertSubscription
<1>10. CASE (ReadUser(g) \/ ReadDevice(g) \/ CountDevices(g) \/ TakeDevice(g)) /\ ~End(g)
  <2>1. \/ t.pc = "user" /\ Goto(g, "subscription")
        \/ t.pc \in {"device", "count", "take"}
           /\ \E pc \in {"count", "take", "create", "touch"} : Goto(g, pc)
    BY <1>10 DEF ReadUser, ReadDevice, CountDevices, TakeDevice
  <2>2. UNCHANGED locks BY <1>10 DEF ReadUser, ReadDevice, CountDevices, TakeDevice
  <2>3. /\ Reach("user") = 1 /\ Reach("subscription") = 1
        /\ \A pc \in {"device", "count", "take", "create", "touch"} : Reach(pc) = 2
    BY DEF Reach
  <2> QED BY <1>4, <2>1, <2>2, <2>3
<1>11. CASE (CreateDevice(g) \/ TouchDevice(g)) /\ ~End(g)
  <2>1. /\ t.pc \in {"create", "touch"} /\ Goto(g, "commit")
        /\ Lock(g, <<"device", t.install>>)
    BY <1>11 DEF CreateDevice, TouchDevice
  <2>2. Reach(t.pc) = 2 /\ Reach("commit") = 3 BY <2>1 DEF Reach
  <2> QED BY <1>4, <2>1, <2>2, Ranks
<1>12. CASE (ReadUsed(g) \/ LockSession(g)) /\ ~End(g)
  <2>1. /\ t.pc \in {"used", "match"}
        /\ \/ UNCHANGED locks /\ \E pc \in {"reuse", "match"} : Goto(g, pc)
           \/ Goto(g, "rotate") /\ Lock(g, <<"session", t.token[1]>>)
    BY <1>12 DEF ReadUsed, LockSession
  <2>2. /\ \A pc \in {"used", "reuse", "match"} : Reach(pc) = 0
        /\ Reach("rotate") = 4
    BY DEF Reach
  <2> QED BY <1>4, <2>1, <2>2, Ranks
<1>13. CASE CommitRotation(g)
  <2> DEFINE u == [t EXCEPT !.pc = "check", !.session = t.token[1]]
  <2>1. task' = [task EXCEPT ![g] = u] /\ locks' = [locks EXCEPT ![g] = {}]
    BY <1>0, <1>13 DEF CommitRotation
  <2> QED BY <1>1, <2>1
<1>14. CASE (ReadSession(g) \/ CheckDevice(g) \/ ReadAccount(g)
               \/ \E k \in Tokens : BeginLogout(g, k)) /\ ~End(g)
  <2>1. /\ t.pc \in {"session", "check", "account", "granted"} /\ UNCHANGED locks
        /\ \E pc \in {"check", "account", "granted", "logout"} : Goto(g, pc)
    BY <1>14 DEF ReadSession, CheckDevice, ReadAccount, BeginLogout
  <2>2. \A pc \in {"session", "check", "account", "granted", "logout"} : Reach(pc) = 0
    BY DEF Reach
  <2> QED BY <1>4, <2>1, <2>2
<1>15. ASSUME NEW i \in Installs, LockDevice(g, i), ~End(g) PROVE Climbs(g) /\ Others(g)
  <2> DEFINE u == [t EXCEPT !.pc = "sessions", !.install = i]
  <2>1. /\ t.pc = "granted" /\ task' = [task EXCEPT ![g] = u] /\ Lock(g, <<"device", i>>)
    BY <1>0, <1>15 DEF LockDevice
  <2>2. u.pc = "sessions" BY <1>0 DEF Task
  <2> HIDE DEF u
  <2>3. Reach(t.pc) = 0 /\ Reach(u.pc) = 3 BY <2>1, <2>2 DEF Reach
  <2>4. Reach(t.pc) <= Reach(u.pc) /\ Rank(<<"device", i>>) <= Reach(u.pc)
    BY <2>3, Ranks
  <2>5. \E r : Lock(g, r) /\ Rank(r) <= Reach(u.pc) BY <2>1, <2>4
  <2> QED BY <1>3, <2>1, <2>4, <2>5
<1> QED
  BY <1>2, <1>5, <1>6, <1>7, <1>8, <1>9, <1>10, <1>11, <1>12, <1>13, <1>14, <1>15
  DEF RequestStep, Progress

LEMMA OrderStep == MobileInv /\ OrderInv /\ [Next]_vars => OrderInv'
<1> SUFFICES ASSUME MobileInv, OrderInv, [Next]_vars, NEW h \in Requests, NEW r \in locks'[h]
             PROVE  Rank(r) <= Reach(task'[h].pc)
  BY DEF OrderInv, Rank, Reach
<1>1. ASSUME r \in locks[h], Reach(task[h].pc) <= Reach(task'[h].pc)
      PROVE  Rank(r) <= Reach(task'[h].pc)
  <2>1. Rank(r) <= Reach(task[h].pc) BY <1>1 DEF OrderInv
  <2>2. Rank(r) \in Int /\ Reach(task[h].pc) \in Int /\ Reach(task'[h].pc) \in Int BY Ranks
  <2> QED BY <1>1, <2>1, <2>2
<1>2. CASE locks'[h] = locks[h] /\ task'[h] = task[h]
  BY <1>2 DEF OrderInv
<1>3. CASE Climbs(h) BY <1>1, <1>3 DEF Climbs
<1>4. CASE Surroundings \/ UNCHANGED vars
  <2>1. UNCHANGED <<locks, task>>
    BY <1>4 DEF Surroundings, StartTelegramLogin, UpdateSubscription,
       GetOrCreateSubscription, StoreLimit, SetBlocked, Expire, Cleanup, vars
  <2> QED BY <1>2, <2>1
<1>5. ASSUME NEW g \in Requests, RequestStep(g) PROVE Rank(r) <= Reach(task'[h].pc)
  BY <1>2, <1>3, <1>5, StepsClimb DEF Others
<1> QED BY <1>4, <1>5 DEF Next

\* Of some requests one has come furthest.
LEMMA Furthest ==
    ASSUME NEW W \in SUBSET Requests, W # {}
    PROVE  \E g \in W : \A h \in W : Reach(task[h].pc) <= Reach(task[g].pc)
<1> DEFINE R(g) == Reach(task[g].pc)
<1>0. \A g : R(g) \in 0..4 BY Ranks
<1> HIDE DEF R
<1>1. CASE \E g \in W : R(g) = 4 BY <1>0, <1>1 DEF R
<1>2. CASE (\E g \in W : R(g) = 3) /\ ~\E g \in W : R(g) > 3 BY <1>0, <1>2 DEF R
<1>3. CASE (\E g \in W : R(g) = 2) /\ ~\E g \in W : R(g) > 2 BY <1>0, <1>3 DEF R
<1>4. CASE (\E g \in W : R(g) = 1) /\ ~\E g \in W : R(g) > 1 BY <1>0, <1>4 DEF R
<1>5. CASE ~\E g \in W : R(g) > 0 BY <1>0, <1>5 DEF R
<1> QED BY <1>0, <1>1, <1>2, <1>3, <1>4, <1>5

\* Requests take their locks in one order of tables - login, subscription, device,
\* sessions - and wait for rows of later tables than they hold: however many there
\* are, no set of them waits in a circle.
THEOREM NoCircularWait == Spec => []NobodyWaitsInACircle
<1>1. Init => OrderInv BY DEF Init, OrderInv
<1>2. OrderInv => NobodyWaitsInACircle
  <2> SUFFICES ASSUME OrderInv, NEW W \in SUBSET Requests, W # {}
               PROVE  \E g \in W : \A h \in W : ~WaitsFor(g, h)
    BY DEF NobodyWaitsInACircle
  <2>1. PICK g \in W : \A h \in W : Reach(task[h].pc) <= Reach(task[g].pc) BY Furthest
  <2>2. ASSUME NEW h \in W, WaitsFor(g, h) PROVE FALSE
    <3>1. PICK r : r \in Awaited(g) /\ r \in locks[h] BY <2>2 DEF WaitsFor
    <3>2. Reach(task[g].pc) < Rank(r) BY <3>1, AwaitedBeyond
    <3>3. Rank(r) <= Reach(task[h].pc) BY <3>1 DEF OrderInv
    <3>4. /\ Reach(task[g].pc) \in Int /\ Reach(task[h].pc) \in Int /\ Rank(r) \in Int
          /\ Reach(task[h].pc) <= Reach(task[g].pc)
      BY <2>1, Ranks
    <3> QED BY <3>2, <3>3, <3>4
  <2> QED BY <2>2
<1>3. Spec => []OrderInv BY <1>1, OrderStep, MobileInvariant, PTL DEF Spec
<1> QED BY <1>2, <1>3, PTL
=============================================================================
