------------------------------ MODULE MobileAuth ------------------------------
(***************************************************************************)
(* Mobile authentication: Telegram logins, devices, sessions and refresh   *)
(* tokens (service/mobile.go over repository/mobile.go).                   *)
(*                                                                         *)
(* Requests run as goroutines against PostgreSQL at READ COMMITTED.  One   *)
(* statement is one action; a transaction keeps its writes to itself until *)
(* its commit action, and its row locks (FOR UPDATE, UPDATE, and the entry *)
(* of a unique index it inserted) until then.  A statement that needs a    *)
(* locked row waits and then sees the row as it was committed.             *)
(***************************************************************************)
EXTENDS Integers, FiniteSets

CONSTANTS
    Users,
    Installs,      \* install ids; a device is the row of its install
    Logins,        \* ids of mobile_login_sessions
    Sessions,      \* ids of mobile_sessions
    Requests,      \* goroutines
    Kinds,         \* kinds of request that are served
    Limits,        \* device limits an administrator enters
    Blockable,     \* users an administrator blocks and unblocks
    Expiring,      \* logins and sessions that may expire
    Cleaning,      \* does the hourly clean-up run?
    MaxRotations,  \* bound: refreshes of one session
    None           \* the missing value

RequestKinds == {"approve", "exchange", "refresh", "access", "logout", "revoke"}

ASSUME MobileAssumption ==
    /\ Kinds \subseteq RequestKinds
    /\ Limits \subseteq Int
    /\ Blockable \subseteq Users
    /\ Expiring \subseteq Logins \cup Sessions
    /\ Cleaning \in BOOLEAN
    /\ MaxRotations \in Nat
    /\ None \notin Users \cup Installs \cup Logins \cup Sessions \cup Nat
    /\ IsFiniteSet(Installs)

VARIABLES
    login,    \* mobile_login_sessions
    limit,    \* user_subscriptions: user -> device limit, None: no row
    device,   \* mobile_devices: install -> row
    session,  \* mobile_sessions
    used,     \* mobile_used_refresh_tokens
    blocked,  \* users whose status is false
    expired,  \* logins and sessions whose expires_at has passed
    locks,    \* rows (and unique keys) a goroutine's transaction has locked
    task      \* program state of the goroutines

vars == <<login, limit, device, session, used, blocked, expired, locks, task>>

-----------------------------------------------------------------------------

\* The n-th refresh token of session s, counted from 0.
Tokens == Sessions \X (0..MaxRotations)

Login == [status: {"none", "pending", "approved", "deleted"},
          install: Installs \cup {None}, user: Users \cup {None}, exchanged: BOOLEAN]

NoLogin == [status |-> "none", install |-> None, user |-> None, exchanged |-> FALSE]

Device == [status: {"none", "active", "revoked"}, user: Users \cup {None}]

NoDevice == [status |-> "none", user |-> None]

\* current is the token whose hash the row holds; from is the login it came from
\* (history: the table has no such column).
Session == [status: {"none", "live", "revoked", "deleted"},
            user: Users \cup {None}, install: Installs \cup {None},
            current: 0..MaxRotations, from: Logins \cup {None}]

NoSession == [status |-> "none", user |-> None, install |-> None,
              current |-> 0, from |-> None]

Rows == ({"login"} \X Logins) \cup ({"subscription"} \X Users)
            \cup ({"device"} \X Installs) \cup ({"session"} \X Sessions)

PCs == {"idle", "approve", "login", "user", "subscription", "insert", "device",
        "count", "take", "create", "touch", "commit", "used", "reuse", "match",
        "rotate", "check", "session", "account", "granted", "logout", "sessions",
        "aborted"}

\* late holds what had expired when the request read the clock; dead and spent
\* are history: was the session (or its device) revoked, was the token already
\* used, when the request began?
Task == [pc: PCs, kind: RequestKinds \cup {None},
         login: Logins \cup {None}, user: Users \cup {None},
         install: Installs \cup {None}, limit: Nat, token: Tokens \cup {None},
         session: Sessions \cup {None}, late: SUBSET (Logins \cup Sessions),
         dead: BOOLEAN, spent: BOOLEAN]

IdleTask == [pc |-> "idle", kind |-> None, login |-> None, user |-> None,
             install |-> None, limit |-> 0, token |-> None, session |-> None,
             late |-> {}, dead |-> FALSE, spent |-> FALSE]

Init ==
    /\ login = [l \in Logins |-> NoLogin]
    /\ limit = [u \in Users |-> None]
    /\ device = [i \in Installs |-> NoDevice]
    /\ session = [s \in Sessions |-> NoSession]
    /\ used = {}
    /\ blocked = {}
    /\ expired = {}
    /\ locks = [g \in Requests |-> {}]
    /\ task = [g \in Requests |-> IdleTask]

-----------------------------------------------------------------------------
(***************************************************************************)
(* Transactions                                                            *)
(***************************************************************************)

Free(g, r) == \A h \in Requests \ {g} : r \notin locks[h]

Lock(g, r) == locks' = [locks EXCEPT ![g] = @ \cup {r}]

Goto(g, pc) == task' = [task EXCEPT ![g].pc = pc]

\* Faulty variant: an early return without a rollback.
EndWithoutRollback(g) == task' = [task EXCEPT ![g] = IdleTask] /\ UNCHANGED locks

\* The request ends, its transaction with it (a commit or a rollback).
End(g) == /\ task' = [task EXCEPT ![g] = IdleTask]
          /\ locks' = [locks EXCEPT ![g] = {}]

Begin(g, t) == /\ task[g].pc = "idle"
               /\ t.kind \in Kinds
               /\ task' = [task EXCEPT ![g] = t]

database == <<login, limit, device, session, used>>
clock    == <<blocked, expired>>

Stored(s) == session[s].status \in {"live", "revoked"}

\* Revoked, or of a revoked device: from now on nobody should get in with it.
IsDead(s) == \/ session[s].status # "live"
             \/ device[session[s].install].status # "active"

ActiveDevices(u) == {i \in Installs : device[i].status = "active" /\ device[i].user = u}

-----------------------------------------------------------------------------
(***************************************************************************)
(* Login: start, approve in Telegram                                       *)
(***************************************************************************)

\* StartTelegramLogin: one INSERT.
StartTelegramLogin(l, i) ==
    /\ login[l].status = "none"
    /\ login' = [login EXCEPT ![l] = [NoLogin EXCEPT !.status = "pending", !.install = i]]
    /\ UNCHANGED <<limit, device, session, used, clock, locks, task>>

\* ApproveTelegramLogin: the user is read, then ApproveLogin is one UPDATE.
BeginApprove(g, l, u) ==
    /\ login[l].status # "none"
    /\ u \notin blocked
    /\ Begin(g, [IdleTask EXCEPT !.pc = "approve", !.kind = "approve", !.login = l,
                                 !.user = u, !.late = expired \cap {l}])
    /\ UNCHANGED <<database, clock, locks>>

ApproveLogin(g) ==
    LET l == task[g].login
    IN  /\ task[g].pc = "approve"
        /\ Free(g, <<"login", l>>)
        /\ login' = IF login[l].status = "pending" /\ l \notin task[g].late
                    THEN [login EXCEPT ![l].status = "approved", ![l].user = task[g].user]
                    ELSE login
        /\ End(g)
        /\ UNCHANGED <<limit, device, session, used, clock>>

-----------------------------------------------------------------------------
(***************************************************************************)
(* ExchangeTelegramLogin: one transaction                                  *)
(***************************************************************************)

BeginExchange(g, l, i) ==
    /\ login[l].status # "none"
    /\ Cardinality({h \in Requests : task[h].kind = "exchange"})
          < Cardinality({s \in Sessions : session[s].status = "none"})
    /\ Begin(g, [IdleTask EXCEPT !.pc = "login", !.kind = "exchange", !.login = l,
                                 !.install = i, !.late = expired \cap {l}])
    /\ UNCHANGED <<database, clock, locks>>

\* Faulty variant: a login can be exchanged until it expires.
ExchangeableTwice(g) ==
    LET l == task[g].login
    IN  /\ login[l].status = "approved" /\ login[l].user # None
        /\ l \notin task[g].late
        /\ login[l].install = task[g].install

\* The guards of ExchangeLogin, and the comparison of the install.
Exchangeable(g) ==
    LET l == task[g].login
    IN  /\ login[l].status = "approved" /\ login[l].user # None
        /\ ~login[l].exchanged
        /\ l \notin task[g].late
        /\ login[l].install = task[g].install

\* SELECT ... FOR UPDATE of the login.
LockLogin(g) ==
    LET l == task[g].login
    IN  /\ task[g].pc = "login"
        /\ Free(g, <<"login", l>>)
        /\ IF Exchangeable(g)
             THEN /\ task' = [task EXCEPT ![g].pc = "user", ![g].user = login[l].user]
                  /\ Lock(g, <<"login", l>>)
             ELSE End(g)
        /\ UNCHANGED <<database, clock>>

ReadUser(g) ==
    /\ task[g].pc = "user"
    /\ IF task[g].user \in blocked
         THEN End(g)
         ELSE Goto(g, "subscription") /\ UNCHANGED locks
    /\ UNCHANGED <<database, clock>>

\* Faulty variant: a plain SELECT.
NoLock(g, u) == UNCHANGED locks

\* SELECT ... FOR UPDATE of the subscription.
LockOfSubscription(g, u) == Lock(g, <<"subscription", u>>)

LockSubscription(g) ==
    LET u == task[g].user
    IN  /\ task[g].pc = "subscription"
        /\ IF limit[u] = None
             THEN Goto(g, "insert") /\ UNCHANGED locks
             ELSE /\ Free(g, <<"subscription", u>>)
                  /\ task' = [task EXCEPT ![g].pc = "device", ![g].limit = limit[u]]
                  /\ LockOfSubscription(g, u)
        /\ UNCHANGED <<database, clock>>

\* No subscription: one with the limit 1 is inserted.  A row inserted meanwhile
\* violates the unique index on user_id.
InsertSubscription(g) ==
    LET u == task[g].user
    IN  /\ task[g].pc = "insert"
        /\ Free(g, <<"subscription", u>>)
        /\ IF limit[u] = None
             THEN /\ task' = [task EXCEPT ![g].pc = "device", ![g].limit = 1]
                  /\ Lock(g, <<"subscription", u>>)
             ELSE End(g)
        /\ UNCHANGED <<database, clock>>

\* A known install is not counted against the limit.
ReadDevice(g) ==
    /\ task[g].pc = "device"
    /\ Goto(g, IF device[task[g].install].status = "none" THEN "count" ELSE "take")
    /\ UNCHANGED <<database, clock, locks>>

CountDevices(g) ==
    /\ task[g].pc = "count"
    /\ IF Cardinality(ActiveDevices(task[g].user)) >= task[g].limit
         THEN End(g)
         ELSE Goto(g, "take") /\ UNCHANGED locks
    /\ UNCHANGED <<database, clock>>

\* Faulty variant: whoever holds the install holds the device.
AcceptsAnyOwner(g, i) == device[i].status = "active"

\* A known install is accepted of its owner, until it is revoked.
Accepts(g, i) == device[i].status = "active" /\ device[i].user = task[g].user

\* CreateDeviceAndSession takes the row once more.
TakeDevice(g) ==
    LET i == task[g].install
    IN  /\ task[g].pc = "take"
        /\ CASE device[i].status = "none" -> Goto(g, "create") /\ UNCHANGED locks
             [] Accepts(g, i)             -> Goto(g, "touch") /\ UNCHANGED locks
             [] OTHER                     -> End(g)
        /\ UNCHANGED <<database, clock>>

\* INSERT of the device; install_id is unique.
CreateDevice(g) ==
    LET i == task[g].install
    IN  /\ task[g].pc = "create"
        /\ Free(g, <<"device", i>>)
        /\ IF device[i].status = "none"
             THEN Goto(g, "commit") /\ Lock(g, <<"device", i>>)
             ELSE End(g)
        /\ UNCHANGED <<database, clock>>

\* UPDATE of name and last_seen_at by primary key, whatever the status is now.
TouchDevice(g) ==
    /\ task[g].pc = "touch"
    /\ Free(g, <<"device", task[g].install>>)
    /\ Goto(g, "commit") /\ Lock(g, <<"device", task[g].install>>)
    /\ UNCHANGED <<database, clock>>

\* INSERT of the session, UPDATE of exchanged_at, COMMIT.
CommitExchange(g) ==
    LET l == task[g].login
        u == task[g].user
        i == task[g].install
    IN  /\ task[g].pc = "commit"
        /\ \E s \in Sessions :
              /\ session[s].status = "none"
              /\ session' = [session EXCEPT ![s] =
                    [NoSession EXCEPT !.status = "live", !.user = u, !.install = i,
                                      !.from = l]]
        /\ login' = [login EXCEPT ![l].exchanged = TRUE]
        /\ limit' = IF limit[u] = None THEN [limit EXCEPT ![u] = 1] ELSE limit
        /\ device' = IF device[i].status = "none"
                     THEN [device EXCEPT ![i] = [status |-> "active", user |-> u]]
                     ELSE device
        /\ End(g)
        /\ UNCHANGED <<used, clock>>

-----------------------------------------------------------------------------
(***************************************************************************)
(* Refresh: RotateRefresh is a transaction, GetDevice comes after it       *)
(***************************************************************************)

\* A client presents some refresh token that was issued.
BeginRefresh(g, t, i) ==
    /\ session[t[1]].status # "none" /\ t[2] <= session[t[1]].current
    /\ t[2] < MaxRotations
    /\ Begin(g, [IdleTask EXCEPT !.pc = "used", !.kind = "refresh", !.token = t,
                                 !.install = i, !.late = expired \cap {t[1]},
                                 !.dead = IsDead(t[1]), !.spent = t \in used])
    /\ UNCHANGED <<database, clock, locks>>

\* Faulty variant: only the last token but one counts as used.
IsOlderToken(t) == t \in used /\ session[t[1]].current > t[2] + 1

\* The token is found among the used ones.
IsReuse(t) == t \in used

ReadUsed(g) ==
    /\ task[g].pc = "used"
    /\ Goto(g, IF IsReuse(task[g].token) THEN "reuse" ELSE "match")
    /\ UNCHANGED <<database, clock, locks>>

\* Reuse: the session is revoked, the answer is TOKEN_REUSED.
RevokeReused(g) ==
    LET s == task[g].token[1]
    IN  /\ task[g].pc = "reuse"
        /\ Free(g, <<"session", s>>)
        /\ session' = IF Stored(s) THEN [session EXCEPT ![s].status = "revoked"] ELSE session
        /\ End(g)
        /\ UNCHANGED <<login, limit, device, used, clock>>

\* The guards of RotateRefresh on the locked row.
Refreshable(g, s) ==
    /\ session[s].status = "live"
    /\ s \notin task[g].late
    /\ session[s].install = task[g].install

\* SELECT ... FOR UPDATE of the session by token hash: no row, or a row that no
\* longer has this hash once its lock is free, is "not found".
LockSession(g) ==
    LET t == task[g].token
        s == t[1]
    IN  /\ task[g].pc = "match"
        /\ IF Stored(s) /\ session[s].current = t[2]
             THEN /\ Free(g, <<"session", s>>)
                  /\ IF Refreshable(g, s)
                       THEN Goto(g, "rotate") /\ Lock(g, <<"session", s>>)
                       ELSE End(g)
             ELSE End(g)
        /\ UNCHANGED <<database, clock>>

\* The old hash becomes a used one, the row gets a new hash and expires_at.
CommitRotation(g) ==
    LET s == task[g].token[1]
    IN  /\ task[g].pc = "rotate"
        /\ used' = used \cup {task[g].token}
        /\ session' = [session EXCEPT ![s].current = @ + 1]
        /\ expired' = expired \ {s}
        /\ task' = [task EXCEPT ![g].pc = "check", ![g].session = s]
        /\ locks' = [locks EXCEPT ![g] = {}]
        /\ UNCHANGED <<login, limit, device, blocked>>

-----------------------------------------------------------------------------
(***************************************************************************)
(* Authenticate, and what an authenticated request may do                  *)
(***************************************************************************)

\* A client presents an access token of some session.
BeginAccess(g, s) ==
    /\ session[s].status # "none"
    /\ Begin(g, [IdleTask EXCEPT !.pc = "session", !.kind = "access", !.session = s,
                                 !.dead = IsDead(s)])
    /\ UNCHANGED <<database, clock, locks>>

ReadSession(g) ==
    LET s == task[g].session
    IN  /\ task[g].pc = "session"
        /\ IF session[s].status = "live" /\ s \notin expired
             THEN Goto(g, "check") /\ UNCHANGED locks
             ELSE End(g)
        /\ UNCHANGED <<database, clock>>

\* Faulty variant: the session alone decides.
TrustsSession(s) == TRUE

DeviceIsActive(s) == device[session[s].install].status = "active"

\* GetDevice, in Refresh and in Authenticate.  A refresh is then answered.
CheckDevice(g) ==
    /\ task[g].pc = "check"
    /\ IF DeviceIsActive(task[g].session)
         THEN /\ Goto(g, IF task[g].kind = "refresh" THEN "granted" ELSE "account")
              /\ UNCHANGED locks
         ELSE End(g)
    /\ UNCHANGED <<database, clock>>

ReadAccount(g) ==
    /\ task[g].pc = "account"
    /\ IF session[task[g].session].user \in blocked
         THEN End(g)
         ELSE Goto(g, "granted") /\ UNCHANGED locks
    /\ UNCHANGED <<database, clock>>

\* The tokens are sent, or the handler of an endpoint that changes nothing here.
Answer(g) ==
    /\ task[g].pc = "granted"
    /\ End(g)
    /\ UNCHANGED <<database, clock>>

\* Logout: the refresh token t has to be the current one of the same session.
BeginLogout(g, t) ==
    /\ task[g].pc = "granted" /\ task[g].kind = "access" /\ "logout" \in Kinds
    /\ IF t[1] = task[g].session /\ Stored(t[1]) /\ session[t[1]].current = t[2]
         THEN Goto(g, "logout") /\ UNCHANGED locks
         ELSE End(g)
    /\ UNCHANGED <<database, clock>>

RevokeSession(g) ==
    LET s == task[g].session
    IN  /\ task[g].pc = "logout"
        /\ Free(g, <<"session", s>>)
        /\ session' = IF session[s].status = "live"
                      THEN [session EXCEPT ![s].status = "revoked"] ELSE session
        /\ End(g)
        /\ UNCHANGED <<login, limit, device, used, clock>>

\* RevokeDevice, the UPDATE of a device of the same user.
LockDevice(g, i) ==
    /\ task[g].pc = "granted" /\ task[g].kind = "access" /\ "revoke" \in Kinds
    /\ Free(g, <<"device", i>>)
    /\ IF device[i].status # "none" /\ device[i].user = session[task[g].session].user
         THEN /\ task' = [task EXCEPT ![g].pc = "sessions", ![g].install = i]
              /\ Lock(g, <<"device", i>>)
         ELSE End(g)
    /\ UNCHANGED <<database, clock>>

\* Faulty variant: a session that has expired is left as it is.
UnexpiredOfDevice(i) ==
    {s \in Sessions \ expired : session[s].status = "live" /\ session[s].install = i}

OfDevice(i) == {s \in Sessions : session[s].status = "live" /\ session[s].install = i}

\* RevokeDevice, the UPDATE of its sessions, and COMMIT.
CommitRevoke(g) ==
    LET i == task[g].install
    IN  /\ task[g].pc = "sessions"
        /\ \A s \in OfDevice(i) : Free(g, <<"session", s>>)
        /\ device' = [device EXCEPT ![i].status = "revoked"]
        /\ session' = [s \in Sessions |->
                         IF s \in OfDevice(i) THEN [session[s] EXCEPT !.status = "revoked"]
                         ELSE session[s]]
        /\ End(g)
        /\ UNCHANGED <<login, limit, used, clock>>

-----------------------------------------------------------------------------
(***************************************************************************)
(* Administrators, clean-up, time, failures                                *)
(***************************************************************************)

StoreLimit(u, n) ==
    /\ \A g \in Requests : <<"subscription", u>> \notin locks[g]
    /\ limit' = [limit EXCEPT ![u] = n]
    /\ UNCHANGED <<login, device, session, used, clock, locks, task>>

\* GetOrCreateSubscription, wherever a page needs a subscription.
GetOrCreateSubscription(u) == limit[u] = None /\ StoreLimit(u, 1)

\* Faulty variant: the form is trusted.
AnyLimits == Limits

\* The limits that UpdateUserSubscription accepts.
ValidLimits == {n \in Limits : n >= 0 /\ n <= 1000}

\* UpdateUserSubscription, after GetOrCreateSubscription: one UPDATE.
UpdateSubscription(u, n) == limit[u] # None /\ n \in ValidLimits /\ StoreLimit(u, n)

SetBlocked(u) ==
    /\ blocked' = IF u \in blocked THEN blocked \ {u} ELSE blocked \cup {u}
    /\ UNCHANGED <<database, expired, locks, task>>

Expire(x) ==
    /\ x \notin expired
    /\ x \in Logins => login[x].status \in {"pending", "approved"}
    /\ x \in Sessions => Stored(x)
    /\ expired' = expired \cup {x}
    /\ UNCHANGED <<database, blocked, locks, task>>

\* Cleanup: expired logins, and what is old among expired or revoked sessions and
\* among used tokens (30 days; no request takes that long).
Cleanup(oldSessions, oldTokens) ==
    LET doomed == {l \in Logins \cap expired : login[l].status # "deleted"}
    IN  /\ doomed \cup oldSessions # {} \/ oldTokens # {}
        /\ \A s \in oldSessions : session[s].status = "revoked" \/ (Stored(s) /\ s \in expired)
        /\ oldTokens \subseteq used \ {task[g].token : g \in Requests}
        /\ \A g \in Requests :
              /\ \A l \in doomed : <<"login", l>> \notin locks[g]
              /\ \A s \in oldSessions : <<"session", s>> \notin locks[g]
        /\ login' = [l \in Logins |-> IF l \in doomed
                                      THEN [login[l] EXCEPT !.status = "deleted"] ELSE login[l]]
        /\ session' = [s \in Sessions |-> IF s \in oldSessions
                                          THEN [session[s] EXCEPT !.status = "deleted"]
                                          ELSE session[s]]
        /\ used' = used \ oldTokens
        /\ UNCHANGED <<limit, device, clock, locks, task>>

\* A statement fails or the panel dies: rollback.
Abort(g) ==
    /\ task[g].pc \notin {"idle", "aborted"}
    /\ task' = [task EXCEPT ![g] = [IdleTask EXCEPT !.pc = "aborted"]]
    /\ locks' = [locks EXCEPT ![g] = {}]
    /\ UNCHANGED <<database, clock>>

Fail(g) ==
    /\ task[g].pc = "aborted"
    /\ End(g)
    /\ UNCHANGED <<database, clock>>

-----------------------------------------------------------------------------

\* One more step of a request that has begun.
Progress(g) ==
    \/ ApproveLogin(g)
    \/ LockLogin(g) \/ ReadUser(g) \/ LockSubscription(g) \/ InsertSubscription(g)
    \/ ReadDevice(g) \/ CountDevices(g) \/ TakeDevice(g) \/ CreateDevice(g)
    \/ TouchDevice(g) \/ CommitExchange(g)
    \/ ReadUsed(g) \/ RevokeReused(g) \/ LockSession(g) \/ CommitRotation(g)
    \/ ReadSession(g) \/ CheckDevice(g) \/ ReadAccount(g) \/ Answer(g)
    \/ RevokeSession(g) \/ CommitRevoke(g)
    \/ Fail(g)

RequestStep(g) ==
    \/ \E l \in Logins, u \in Users : BeginApprove(g, l, u)
    \/ \E l \in Logins, i \in Installs : BeginExchange(g, l, i)
    \/ \E t \in Tokens, i \in Installs : BeginRefresh(g, t, i)
    \/ \E s \in Sessions : BeginAccess(g, s)
    \/ \E t \in Tokens : BeginLogout(g, t)
    \/ \E i \in Installs : LockDevice(g, i)
    \/ Progress(g)
    \/ Abort(g)

Surroundings ==
    \/ \E l \in Logins, i \in Installs : StartTelegramLogin(l, i)
    \/ \E u \in Users, n \in Limits : UpdateSubscription(u, n)
    \/ \E u \in Users : GetOrCreateSubscription(u)
    \/ \E u \in Blockable : SetBlocked(u)
    \/ \E x \in Expiring : Expire(x)
    \/ Cleaning /\ \E old \in SUBSET Sessions, tokens \in SUBSET used : Cleanup(old, tokens)

Next == (\E g \in Requests : RequestStep(g)) \/ Surroundings

Spec == Init /\ [][Next]_vars

-----------------------------------------------------------------------------
(***************************************************************************)
(* Properties                                                              *)
(***************************************************************************)

\* Every variable stays in its domain.
TypeOK ==
    /\ login \in [Logins -> Login]
    /\ limit \in [Users -> Nat \cup {None}]
    /\ device \in [Installs -> Device]
    /\ session \in [Sessions -> Session]
    /\ used \subseteq Tokens
    /\ blocked \subseteq Users
    /\ expired \subseteq Logins \cup Sessions
    /\ locks \in [Requests -> SUBSET Rows]
    /\ task \in [Requests -> Task]

\* Exchanges of one user that run at once, on several devices and while an
\* administrator changes the limit, never leave more active devices than the
\* limit in force when a device is added.
DeviceLimitHolds ==
    [][\A u \in Users :
          ~(ActiveDevices(u)' \subseteq ActiveDevices(u))
              => Cardinality(ActiveDevices(u)') <= limit'[u]]_vars

\* A login is exchanged once, however many requests present it at once: no two
\* sessions come from the same login.
OneSessionPerLogin ==
    \A s, t \in Sessions : session[s].from = session[t].from => s = t \/ session[s].from = None

\* Two users who log in from one install at once do not end up with a session of
\* the one on a device of the other.
SessionsOfTheOwner ==
    \A s \in Sessions :
        session[s].status # "none" => device[session[s].install].user = session[s].user

\* No request that begins after its session or its device was revoked gets
\* tokens or access, though sessions are still created and rotated while the
\* device is being revoked.
NoAccessOnceRevoked ==
    \A g \in Requests : task[g].pc = "granted" => ~task[g].dead

\* A refresh token that is presented after it was used ends the session: unless
\* it is aborted, such a request leaves no live session behind.
ReuseEndsSession ==
    [][\A g \in Requests :
          task[g].spent /\ task[g].pc # "idle" /\ task'[g].pc = "idle"
              => session'[task[g].token[1]].status # "live"]_vars

\* Row locks are taken in an order, and given back at every end of a request, so
\* that requests never all wait for each other: one of those under way goes on.
RequestsGoOn ==
    (\E g \in Requests : task[g].pc # "idle")
        => \E g \in Requests : task[g].pc # "idle" /\ ENABLED Progress(g)

\* A session row, without the login it came from.
Visible(r) == [status |-> r.status, user |-> r.user, install |-> r.install,
               current |-> r.current]

\* Mobile authentication, as the rest of the panel sees it: with all its requests
\* at once every change of logins, limits, devices and sessions is one that module
\* MobileAccess makes in a single step.
Access == INSTANCE MobileAccess WITH
    Limits <- ValidLimits, session <- [s \in Sessions |-> Visible(session[s])]

ImplementsAccess == Access!AccessSpec

\* The rows and keys that the next statement of g waits for while another
\* transaction has them.
Awaited(g) ==
    LET t == task[g]
    IN  CASE t.pc \in {"approve", "login"} -> {<<"login", t.login>>}
          [] t.pc = "insert" \/ (t.pc = "subscription" /\ limit[t.user] # None) ->
                {<<"subscription", t.user>>}
          [] t.pc \in {"create", "touch"} -> {<<"device", t.install>>}
          [] t.pc \in {"reuse", "match"} -> {<<"session", t.token[1]>>}
          [] t.pc = "logout" -> {<<"session", t.session>>}
          [] t.pc = "sessions" -> {"session"} \X OfDevice(t.install)
          [] OTHER -> {}

WaitsFor(g, h) == g # h /\ Awaited(g) \cap locks[h] # {}

\* PostgreSQL never has to break a deadlock among these requests: in any set of
\* them there is one that waits for no other.
NobodyWaitsInACircle ==
    \A waiting \in SUBSET Requests :
        waiting # {} => \E g \in waiting : \A h \in waiting : ~WaitsFor(g, h)
=============================================================================
