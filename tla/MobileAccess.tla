---------------------------- MODULE MobileAccess ----------------------------
(***************************************************************************)
(* What mobile authentication promises to the rest of the panel, without   *)
(* requests, transactions and locks: every login, exchange, rotation and   *)
(* revocation happens in one step.                                         *)
(*                                                                         *)
(* The promises are the guards: a session comes from an approved login,    *)
(* once, for the user who approved it and on the install that asked for    *)
(* it; a device is added below its user's limit and never changes hands;   *)
(* only a live session is rotated; and a device is revoked together with   *)
(* every session it has.                                                   *)
(*                                                                         *)
(* MobileAuth implements this module.                                      *)
(***************************************************************************)
EXTENDS Integers, FiniteSets

CONSTANTS
    Users,
    Installs,
    Logins,
    Sessions,
    Limits,    \* device limits an administrator can set
    None       \* the missing value

VARIABLES
    login,     \* login -> status, install, user, exchanged
    limit,     \* user -> device limit, None until there is a subscription
    device,    \* install -> status, user
    session    \* session -> status, user, install, number of its current token

accessVars == <<login, limit, device, session>>

AccessInit ==
    /\ login = [l \in Logins |-> [status |-> "none", install |-> None, user |-> None,
                                  exchanged |-> FALSE]]
    /\ limit = [u \in Users |-> None]
    /\ device = [i \in Installs |-> [status |-> "none", user |-> None]]
    /\ session = [s \in Sessions |-> [status |-> "none", user |-> None, install |-> None,
                                      current |-> 0]]

DevicesOf(u) == {i \in Installs : device[i].status = "active" /\ device[i].user = u}

LiveOn(i) == {s \in Sessions : session[s].status = "live" /\ session[s].install = i}

\* Who has no subscription may have one device.
LimitOf(u) == IF limit[u] = None THEN 1 ELSE limit[u]

-----------------------------------------------------------------------------

\* The app on install i asks for a login.
StartLogin(l, i) ==
    /\ login[l].status = "none"
    /\ login' = [login EXCEPT ![l] = [status |-> "pending", install |-> i, user |-> None,
                                      exchanged |-> FALSE]]
    /\ UNCHANGED <<limit, device, session>>

\* The user u approves it in Telegram.
Approve(l, u) ==
    /\ login[l].status = "pending"
    /\ login' = [login EXCEPT ![l].status = "approved", ![l].user = u]
    /\ UNCHANGED <<limit, device, session>>

\* A device is added as long as its user's limit is not reached.
AddDevice(i, u) ==
    /\ device[i].status = "none"
    /\ Cardinality(DevicesOf(u)) < LimitOf(u)
    /\ device' = [device EXCEPT ![i] = [status |-> "active", user |-> u]]

\* A device that is known stays what it is: of its user, and revoked if it is.
KeepDevice(i, u) ==
    /\ device[i].status # "none"
    /\ device[i].user = u
    /\ UNCHANGED device

\* The approved login l becomes the session s, and cannot become another one.
Exchange(l, s) ==
    LET i == login[l].install
        u == login[l].user
    IN  /\ login[l].status = "approved"
        /\ ~login[l].exchanged
        /\ session[s].status = "none"
        /\ AddDevice(i, u) \/ KeepDevice(i, u)
        /\ login' = [login EXCEPT ![l].exchanged = TRUE]
        /\ limit' = [limit EXCEPT ![u] = LimitOf(u)]
        /\ session' = [session EXCEPT ![s] = [status |-> "live", user |-> u, install |-> i,
                                              current |-> 0]]

\* The refresh token of s is replaced by the next one.
Rotate(s) ==
    /\ session[s].status = "live"
    /\ session' = [session EXCEPT ![s].current = @ + 1]
    /\ UNCHANGED <<login, limit, device>>

\* Logout, or a refresh token that is used again.
Revoke(s) ==
    /\ session[s].status = "live"
    /\ session' = [session EXCEPT ![s].status = "revoked"]
    /\ UNCHANGED <<login, limit, device>>

\* No session of a device outlives its revocation.
RevokeDevice(i) ==
    /\ device[i].status # "none"
    /\ device' = [device EXCEPT ![i].status = "revoked"]
    /\ session' = [s \in Sessions |-> IF s \in LiveOn(i)
                                      THEN [session[s] EXCEPT !.status = "revoked"]
                                      ELSE session[s]]
    /\ UNCHANGED <<login, limit>>

\* A subscription is created, with the limit 1.
Subscribe(u) ==
    /\ limit[u] = None
    /\ limit' = [limit EXCEPT ![u] = 1]
    /\ UNCHANGED <<login, device, session>>

SetLimit(u, n) ==
    /\ limit[u] # None
    /\ limit' = [limit EXCEPT ![u] = n]
    /\ UNCHANGED <<login, device, session>>

\* The clean-up deletes logins L and sessions S.
Forget(L, S) ==
    /\ \A l \in L : login[l].status # "none"
    /\ \A s \in S : session[s].status \in {"live", "revoked"}
    /\ login' = [l \in Logins |-> IF l \in L THEN [login[l] EXCEPT !.status = "deleted"]
                                  ELSE login[l]]
    /\ session' = [s \in Sessions |-> IF s \in S THEN [session[s] EXCEPT !.status = "deleted"]
                                      ELSE session[s]]
    /\ UNCHANGED <<limit, device>>

AccessNext ==
    \/ \E l \in Logins, i \in Installs : StartLogin(l, i)
    \/ \E l \in Logins, u \in Users : Approve(l, u)
    \/ \E l \in Logins, s \in Sessions : Exchange(l, s)
    \/ \E s \in Sessions : Rotate(s) \/ Revoke(s)
    \/ \E i \in Installs : RevokeDevice(i)
    \/ \E u \in Users : Subscribe(u)
    \/ \E u \in Users, n \in Limits : SetLimit(u, n)
    \/ \E L \in SUBSET Logins, S \in SUBSET Sessions : Forget(L, S)

AccessSpec == AccessInit /\ [][AccessNext]_accessVars
=============================================================================
