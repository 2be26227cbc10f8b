# A formal model of corvin-ui

corvin-ui is the control panel of a VPN service: a Go web application (panel,
mobile API, Telegram bot) over PostgreSQL that provisions VPN clients on remote
servers.  The servers run agents; the panel talks to them through RabbitMQ.
This directory holds TLA+ models of the parts of the panel in which several
processes share state, the TLC configurations that check them, and proofs for
TLAPS.  Paths are relative to `src/`.

## 1. Inventory

| Component | State | Operations | Interacts with |
|---|---|---|---|
| VPN provisioning: `internal/service/vpn.go`, `internal/repository/vpn.go` | `vpn_profiles` (status, notified_at), `vpn_profile_nodes` (status, desired_state, pending_action, attempts, next_attempt_at) | create request (`ensureVPNProfile`), administrative action (`RequestConnectionState`), reconciler (`ReconcilePending`), result handler (`ApplyCommandResult`) | broker, node registry, users, subscriptions |
| Broker adapter: `internal/broker` | RabbitMQ queues | `PublishJob`, result consumer, snapshot consumer | agents |
| Node registry: `internal/service/nodes.go`, `internal/repository/nodes.go` | `server_registry`, `node_states`, `server_inbounds`, `node_state_snapshots` | apply snapshot, enable, disable, archive, restore, archive stale | provisioning reads it as "is this server eligible" |
| Mobile authentication: `internal/service/mobile.go`, `internal/repository/mobile.go` | logins, devices, sessions, used refresh tokens | start, approve, exchange, refresh, logout, revoke device, clean-up | Telegram bot approves, revoking a device deletes its VPN clients |
| Mobile connect: `internal/service/mobile.go` | operations, idempotency records | connect, read operation, revoke device | provisioning, mobile authentication |
| Automatic server: `internal/service/vpn.go` | routing settings | pin, unpin, resolve the server_id `auto` | node registry, provisioning |
| Legacy jobs: `internal/jobsvc`, `internal/repository/jobs.go` | jobs, batches, old servers' health | apply result, recalculate batch, store link | broker, links |
| Links and overview: `internal/service/vpn.go`, `internal/repository/vpn.go` | `vpns` (old links) | "my VPN", upsert of a link | provisioning, legacy jobs, bot |
| Subscriptions and grants | `user_subscriptions`, `server_grants` | CRUD; guards of create requests | provisioning, mobile |
| Users and Telegram accounts | `users`, `telegrams` | CRUD, get-or-create | everything |
| Telegram bot, support, broadcast: `internal/telegrambot` | per-user dialog state behind a mutex | commands and dialogs | users, provisioning |
| Legacy 3x-ui servers and statistics: `internal/jobs`, `internal/handlers/servers.go` | servers, daily statistics | answers 410 Gone; a cron counts | |
| HTTP layer: `internal/handlers`, `internal/middleware`, `internal/app/routes.go` | rate limiter | decode, authorise, call a service | all services |
| Configuration, database set-up, storage, audit, logging | none of a protocol | start-up, I/O | |

What is hard in it:

* **No locks around the rows.** A create request, the reconciler and the result
  consumer read a row, compute, and write later; the default isolation level is
  READ COMMITTED.  Stale copies are written back (GORM's `Save` writes every
  column) and commands are published from them.
* **At-least-once everything.** The reconciler repeats a command whose answer is
  late, RabbitMQ redelivers commands and results, the publish is neither
  mandatory nor confirmed.  Results carry the row's id but no generation.
* **Crashes** between a commit and the message that belongs to it (publish after
  commit, notify after `notified_at`, acknowledge after everything).
* **Progress** rests on one cron loop.
* In the mobile part: check-then-insert limits, rotation of refresh tokens,
  idempotency keys, clean-up that runs beside all of them.

What makes each component correct:

* provisioning: a row reports only what its own agent acknowledged; a success is
  durable; the user is told once; agents do only what somebody asked for; a
  pending row is eventually settled; the profile's status agrees with its rows.
* node registry: the state is that of the newest snapshot whatever the order; an
  administrator's decision is not undone by a message that was on its way.
* mobile authentication: never more active devices than the subscription allows;
  one session per login; refresh rotation is linear and reuse ends the session;
  a revoked device never gets in again.
* mobile connect: one operation per idempotency key; an operation says success
  only of a deployed server.
* automatic server: the choice does not depend on the order of the rows, and a pin
  names a server.
* legacy jobs: the batch's status agrees with its jobs once all have answered; a job
  that succeeded has left its link.
* links: old links are never taken away, and the bot does not deny a link that it had to show.
* bot: one user per account, a reply reaches the author it was written for, a
  complaint, its reply and its photo do not undo each other, a broadcast is heard once.

`PROJECT.json` lists the hazards with their lines and the properties that cover
them; those without a property say why.

## 2. Modules

| Module | Models |
|---|---|
| `Deployment.tla` | abstract: what provisioning promises about the servers of one profile |
| `Provisioning.tla` | one VPN profile on its servers: all processes that touch `vpn_profile_nodes`; implements `Deployment` |
| `MCProvisioning.tla` | finite instances and the symmetry set for TLC |
| `ProvisioningProofs.tla`, `DeploymentProofs.tla` | the theorems about it, and the refinement |
| `MobileAccess.tla` | abstract: what mobile authentication promises about logins, devices and sessions |
| `MobileAuth.tla`, `MCMobileAuth.tla`, `MobileAuthProofs.tla` | mobile logins, devices, sessions, refresh tokens: all transactions that touch them; implements `MobileAccess`; the theorems about them, and the refinement |
| `ServerRecords.tla` | abstract: what the registry of VPN servers promises to its readers |
| `NodeRegistry.tla`, `MCNodeRegistry.tla`, `NodeRegistryProofs.tla` | the registry and state of VPN servers: snapshots on two queues, administrators, stale discovery, the app's catalogue; implements `ServerRecords`; the theorems about them, and the refinement |
| `MobileConnect.tla`, `MCMobileConnect.tla`, `MobileConnectProofs.tla` | connect operations of a device, idempotency keys and the revocation of the device; extends `Deployment`; the theorems about it |
| `AutoServer.tla`, `AutoServerProofs.tla` | routing settings and the choice of a server, as operators, and theorems about them |
| `VPNLinks.tla`, `MCVPNLinks.tla`, `VPNLinksProofs.tla` | results of legacy jobs, batches, old links, and "my VPN"; the theorems about them |
| `TelegramBot.tla`, `MCTelegramBot.tla`, `TelegramBotProofs.tla` | accounts, support dialogs, replies and broadcasts of the bot, with the panel's requests on the same complaints; the theorems about them |

`Provisioning` implements `Deployment` and `MobileConnect` is built on `Deployment`,
so what `MobileConnect` shows holds over the detailed provisioning.  `NodeRegistry`
defines what `Provisioning` and `MobileConnect` see as eligibility, `VPNLinks` leaves
results that name a profile to `Provisioning`, and the revocation in `MobileAuth`
(device and sessions) and in `MobileConnect` (connections) are two halves of one request.

### Deployment

`status[s]` is the status of the profile's row of server `s`, `reported[s]` what its
agent reported done, `requested[s]` what administrators asked for.  The guards are the
promises: `Report` (agents only do what was asked, or deploy), `Supports` in `Settle`
(an outcome other than failure rests on a report of that very action; success turns
into failure only if an administrator asked for something), and that no action makes a
row `none` again.  `Provisioning` maps `status` to the status column of its rows and
`reported` to `acked`; `NamesAction` is false for agents that leave command_type out.

### Provisioning

State and code:

* `row[s]` is the `vpn_profile_nodes` row of server `s` (status `"none"`: there is
  no row), with `desired` = desired_state and `action` = pending_action;
  `profile` is the `vpn_profiles` row; `eligible` is what
  `EnabledNodesByGroup` and `IsServerEligible` answer.
* `cmds` and `results` are the queues, as sets: messages may overtake each other.
  Duplicates come from an agent that executes a command and leaves it in the
  queue (`AgentExecutes` with `kept`) and from a consumer that does not
  acknowledge (`HandlerError`, `Crash`).
* `task[w]` is the local state of goroutine `w`, one goroutine of a request or one
  run of the reconciler.  `consumer` is the local state of the result handler,
  which runs with concurrency 1.
* `acked` and `requested` are history variables; `stable` is used by the liveness
  run only.

One SQL statement or transaction, and one publish, is one action.

| Code | Actions |
|---|---|
| `ensureVPNProfile` (service/vpn.go:669) | `RequestCreateAll` / `RequestCreateOn`, then `RejectCreate`, or `EnsureTake`, `EnsureCommit` (or `EnsureConflict`: unique index), `Plan`, the publish loop, `FinishCreate` |
| `RequestConnectionState` (:306) | `RequestConnectionState` (the UPDATE of `PrepareProfileNodeAction`), `RereadNode`, the publish loop |
| `ReconcilePending` (:891) | `StartReconcile`, `SkipRow`, the publish loop |
| `publishProfileNodes` (:799) | `Publish` or `PublishFails`, `Mark`, `EndLoop` |
| `ApplyCommandResult` (:1030), `ApplyJobResult` (:1076) | `AckIgnored` or `TakeResult`; then `ApplyProfileNodeActionResult`, or `TakeRow` and `SaveRow`; `Recalculate`, `UpdateProfileResult`, `Notify` |
| an error from the database | `Abandon`, `SkipRow`, `Mark(w, FALSE)`, `HandlerError` |
| outside the panel | `AgentExecutes`, `LoseCommand`, `ToggleEligible`, `Crash` |

Abstractions:

* Time is left out, and with it `attempts` and `next_attempt_at`: any pending row
  may be due at any moment, which includes every schedule of the code.  `Limit` is the
  LIMIT of `PendingProfileNodes`; which rows come first is left to chance, and to the
  fairness assumed (below).
* `EnsureProfileNodes` reads and writes its rows one by one in a transaction;
  here it reads all of them, then commits all of them.  Every window between a
  row's read and its write is kept, and so is the visibility of the writes at
  the commit only.
* The target lookup (subscription, grants, endpoint group) is the choice of
  targets: all eligible servers, or one.
* `last_error`, `final_link` and the payload of commands are left out.  A result
  whose status is neither success nor failure is ignored by the code and left out.
* `ApplyProfileNodeResult` creates a row it does not find; `ApplyCommandResult`
  ends before it when there is none, so the branch is unreachable here.
* One profile.  Profiles share nothing but the consumer and the reconciler; of the places
  in a run of the reconciler, `Elsewhere` are taken by rows of other profiles that it can
  only skip.
* A result that names both a profile and a batch of the older version is applied without
  the guards of `ApplyCommandResult` (app/server.go:164); no such result is modelled, here
  or in `VPNLinks`.

The `Faulty variant` definitions are not part of the model: each is a plausible
bug, used to see that the property it belongs to would notice.

### MobileAccess

The same tables without requests, transactions and locks: each login, exchange,
rotation and revocation is one step.  The guards are the promises: `Exchange` turns an
approved login, once, into a session of the user who approved it, on the install that
asked for it; `AddDevice` stays below the limit in force; `KeepDevice` lets no device
change hands; `RevokeDevice` ends every live session of the device in the same
step.  The abstract state has no clock: that an expired login is not exchanged is a guard
of `MobileAuth` only.  `MobileAuth` maps its sessions without the login they came from
(`Visible`), everything else to itself.

### MobileAuth

State and code:

* `login`, `device`, `session`, `used` are the tables `mobile_login_sessions`,
  `mobile_devices`, `mobile_sessions`, `mobile_used_refresh_tokens`; `limit` is
  `user_subscriptions.device_limit`; `blocked` is `users.status`.
* A device is the row of its install, since `install_id` is unique.  A refresh
  token is the pair of its session and a number; `current` is the number whose
  hash the session row holds.
* `task[g]` is the local state of goroutine `g`, `locks[g]` the rows and unique
  keys its transaction holds.  A transaction's writes become visible in its commit
  action, and then its locks are released; a statement that needs a locked row
  waits, then sees the row as committed (READ COMMITTED).
* `expired` holds the logins and sessions whose expires_at has passed.  A request
  reads the clock once, before its transaction; what it saw is `late`.
* `from`, `dead` and `spent` are history.

| Code | Actions |
|---|---|
| `StartTelegramLogin` (service/mobile.go:99) | `StartTelegramLogin` |
| `ApproveTelegramLogin` (:145) | `BeginApprove`, `ApproveLogin` (one UPDATE) |
| `ExchangeTelegramLogin` (:160), one transaction | `BeginExchange`; `LockLogin` (SELECT FOR UPDATE and the guards); `ReadUser`; `LockSubscription` or `InsertSubscription`; `ReadDevice`; `CountDevices`; `TakeDevice`; `CreateDevice` or `TouchDevice`; `CommitExchange` |
| `Refresh` (:232) | `BeginRefresh`; `RotateRefresh`: `ReadUsed`, then `RevokeReused`, or `LockSession` and `CommitRotation`; after the transaction `CheckDevice`, `Answer` |
| `Authenticate` (:256) | `BeginAccess`, `ReadSession`, `CheckDevice`, `ReadAccount` |
| what an authenticated request does | `Answer`; `Logout` (:277): `BeginLogout`, `RevokeSession`; `RevokeDevice` (:311): `LockDevice`, `CommitRevoke` |
| `Cleanup` (repository/mobile.go:214) | `Cleanup` |
| subscription page, user page | `GetOrCreateSubscription`, `UpdateSubscription`, `SetBlocked` |
| an error from the database, a crash of the panel | `Abort`, `Fail` |

Abstractions:

* PKCE and the comparison of the install are one guard: a client that has the
  verifier is the client that started the login.  A client may present any install,
  any login, and any refresh token that was ever issued.
* `last_seen_at` (`TouchDevice` in `Authenticate`), names and platforms are left
  out; so is the signature of access tokens: a client presents the access token
  of any session that exists.
* An UPDATE of several rows waits until all of them are free and is one step.
  `Cleanup` is one step too; it spares the used tokens that a running request
  presents, which are 30 days younger than those it deletes.
* Deleting the VPN clients of a revoked device is in `MobileConnect`.

### ServerRecords

One record per server and its last report, without queues, consumers, transactions and
`history`.  The guards are the promises: `Report` replaces no report by an older one and
dates none before it was sent or after now, keeps the inbounds it does not mention,
brings an archived server back and leaves enabled alone; `Administer` is one of four
switches of a known server; `ArchiveSilent` takes only discovered servers of which
nothing was received, and nothing was sent, for longer than `StaleAfter` at that moment.
`NodeRegistry` maps `Record` and `LastReport` of its tables to the two variables.

### NodeRegistry

State and code:

* `registry`, `state`, `inbound` are the rows of `server_registry`, `node_states`
  and `server_inbounds` of each server; `archived` is archived_at IS NOT NULL,
  `seen` is last_seen_at, `sent` is last_snapshot_at.  `fit` says whether the row has
  the protocol a profile asks for, and whether with the endpoint group (`both`) or with
  another or an unknown one (`protocol`).
* `queue` holds the snapshots that wait in the events queue and, as some agents
  send them there, in the results queue.  The two consumers run beside each other.
* `task[c]` is the local state of consumer `c`; `lock[s]` is the transaction that
  holds the registry row of `s`.  `stale` is the UPDATE of the stale discovery
  while it waits for rows.
* `history[s]` are the rows of `node_state_snapshots` with the latest sent_at.

| Code | Actions |
|---|---|
| `handleAgentEventQueueMessage` (broker/producer.go:394), `handleResultQueueNodeSnapshot` (:285) | `Take`; `Ack` or `Reject`.  After an error the first requeues, the second acknowledges (`AfterFailure`) |
| `ApplySnapshot` (repository/nodes.go:174), one transaction | `LockRegistry`; `CreateRegistry` (the INSERT waits for a transaction that inserts the same server, and then fails on the unique index); `ApplySnapshot` (the rest, up to commit or rollback) |
| `DisableServer`, `EnableServer`, `ArchiveServer`, `RestoreServer` (:366), handlers/nodes.go | the same names, together `AdministratorStep` |
| `ArchiveStaleDiscovered` (:389), one UPDATE | `FindStale` (its snapshot of the tables), `ArchiveStaleDiscovered` (once the rows are free: PostgreSQL matches a row that was locked again, but does not repeat the subquery) |
| the migration (db/init.go:126) | `Init` |
| an error from the database | `FailStatement` |
| outside the panel | `AnySnapshot`, `HealthySnapshot`, `Tick`, `Crash` |

`IsServerEligible` is what `Provisioning` sees as `eligible`.

Abstractions:

* Once a transaction has the registry row, no other one touches the rows of that
  server, so the rest of it is one step; the lock on `node_states` is implied.
* A clock that ticks stamps snapshots when they are sent and again when they are
  taken.  Agents' clocks do not run ahead.  A snapshot without sent_at is stamped
  when it is taken, like one that is sent at that moment.
* A message is in its queue until it is acknowledged; queues are sets, so any
  order of delivery is possible.
* `Available` is what `MobileService.Servers` offers: it reads `server_registry`, and asks
  for the protocol only.  `IsServerEligible` reads `node_states` too and asks for the
  endpoint group.  `Misleading` is a server that reports both and on which the two
  nevertheless differ.
* Names, counters and connection settings are left out, and with them
  `UpdateConnectionSettings`.  The source `registered`, which the code tests, is
  stored nowhere.
* `RequestSnapshot` publishes a command and changes no row; agents may send at
  any moment.

### MobileConnect

State and code:

* `op[o]` is the row of `mobile_operations`, `record[k]` the operation that the row of
  `mobile_idempotency_records` for key `k` names; `active` is the device's status,
  `client` says that its `vpn_clients` and `vpn_profiles` rows exist.
* `status`, `reported`, `requested` are those of `Deployment`.
* Time is a phase per operation: it lives 30 minutes, its record 24 hours, and
  `Cleanup` deletes it 24 hours after it expired.
* `task[c]` is the local state of a goroutine; `provisioned` and `answered` are history.

| Code | Actions |
|---|---|
| `Connect` (service/mobile.go:455) | `BeginConnect`; `LookUpKey`; `CreateOperation` or `CreateFails` and `LookUpAgain`; `RequestCreateVPN`; `StoreFailure`, or `StoreProcessing` and what `Operation` does |
| `RequestCreateVPN` (service/vpn.go:473) | `Provision`, `InsertClient`, `EnsureNodes`, `PublishCommand`; `ProvisionFails` |
| `Operation` (:527) | `BeginPoll`; `View`, `FindConfig`, `StoreSuccess` |
| `RevokeDevice` (:311) | `BeginRevoke` (the connections are read first), `RevokeDevice`, `DeleteConnection`, `EndRevoke` |
| `Cleanup` (repository/mobile.go:214) | `Cleanup` |
| the rest of the panel and the agents | `Deploy`: the actions of `Deployment` |
| outside | `Age`, `Login`, `Crash`, `StatementFails` |

Abstractions: the hash of the request body is a choice (a record that is found matches
or does not); entitlement, grants and the routing choice may be anything at every
read (`Flapping`); the client's and profile's rows are one flag; the text of configs is
left out.  A request lasts less than a day, so its own rows are not cleaned up under it.

### AutoServer

Operators, not a state machine: the code is sequential.  `UpdatedSettings` is
`UpdateAutoRoutingSettings`, `ResolveAutoServer` is `resolveAutoServer` over the rows
that `EnabledNodesByGroupForUser` returns, `HealthierNode` its comparison.  A server_id
is its rank in the order of strings and a time a number.  `MobileConnect` takes the
result as a choice, because health reports may make any eligible server the best.

### VPNLinks

State and code: `job`, `batch` are the statuses of `jobs` and `job_batches`, `row` the
columns of a job that never change, `server` the status of the one old server, `vpn` the
row of `vpns` as the set of protocols with a link.  `profile[c]` says of a client of the
user, the one without a device (`own`) or the oldest one of a device (`device`), whether
there is one and whether one of its profiles has a link to show.
`consumer` is the local state of the result handler, one statement per action:

| Code | Actions |
|---|---|
| result handler (app/server.go:160), `ApplyResult` (jobsvc/service.go:396) | `Take`, `GetJob`, `MarkJob`; `ApplyProbeResult`, or `FindServer` and `ApplyNodeStats`; `ReadJobs`, `StoreBatch`; `ReadLink`, `SaveLink`, `FindAccount`; `Ack` |
| an error or a crash | `Interrupted`: the message stays queued |
| `GetLinkOverview` (service/vpn.go:1334) | `BeginRequest`, `ReadClient` (`GetVPNClientByUserID`: one client, `own` before `device`), `ReadProfiles`, `EndRequest` |
| agents, `Provisioning` | `Publish`, `ChangeProfile` |

Results are an outcome instead of a payload: `bare` stands for a success without a link
or without a component that works.  Jobs exist from the start: nothing calls the
functions that create batches any more.  Two results of one job may carry different
outcomes.  A request for the links fails in any statement.

### TelegramBot

State and code: `account[t]` counts the rows of `users` and `telegrams` an account has
(`tg_id` is unique, so there is at most one of the second), `complaint[c]` is the row,
`mode` and `draft` are what `StateStore` keeps in memory, `worker[w]` is the goroutine
of an update or of a panel request.  The rest is history.

| Code | Actions |
|---|---|
| middleware, `EnsureTelegramUser` (service/users.go:44) | `Receive` or `PressReply`; `FindAccount`, `CreateAccount`, `FindAgain` |
| dialogs (telegrambot/support.go, state_handlers.go) | `OpenMode`, `RouteMessage`, `Cancel`, `Forget` |
| `CreateComplaint` (service/support.go:58), from chat or panel | `InsertComplaint`, `Upload`, `SetPhoto`, `Created`, `CloseDialog`, `Confirm`, `NotifyAdmins` |
| `ReplyToComplaint` (:125), `UpdateComplaint`, panel reply | `ReadState`, `LookUp`, `StoreReply`, `CheckReply`, `ReadRecipient`, `CloseReply`, `Deliver` |
| broadcast (telegrambot/admin.go:101) | `WriteDraft`, `TakeDraft`, `ListUsers`, `SendBroadcast`, `FinishBroadcast`, `Discard` |
| panel, process | `CreateInPanel`, `DeleteComplaint`, `Crash` |

`MaxUpdates` bounds the updates, requests and crashes of a behaviour.  Every statement
and every message may fail.  The author of a complaint stands for its user id and
Telegram id.  The panel stores and publishes the reply and the status that a request
brings, an empty reply too; `new` is every status but `resolved`.  The second read of
`ComplaintsController.reply` may fail with the complaint in place, and then the reply is
published without account and complaint (`ReadRecipient`, `Reply`).  Wording, keyboards
and the instruction pager are left out.

### Runs of Provisioning

All runs keep at most one command and one result waiting (`MaxCommands`,
`MaxResults`); this bounds what is in the queues at once, not how many are sent.
Older messages still race with newer ones: the copies that tasks and the consumer
hold are further messages under way, and a redelivered one stays in its queue
while the row moves on.

| Run | Instance | Shows |
|---|---|---|
| `provisioning_create` | two servers, two create requests at once, failing publishes, agents may report a foreign job_id | `TypeOK`; a row (`StatusIsAcknowledged`) and the profile and its notification (`ReadyIsAcknowledged`) never claim more than agents acknowledged; `NotifiedAtMostOnce`; `LateFailureKeepsSuccess` |
| `provisioning_admin` | one server that comes and goes, a request goroutine that deploys or disables, the reconciler, crashes, redelivery, failing handler, failing statements | `OnlyRequestedActions`; `PendingActionMatchesDesired`; `ImplementsDeployment`: every step is one that `Deployment` allows |
| `provisioning_settles` | one server, deploy and disable, the reconciler, lost commands and markings, one of two places of a run taken by a row that can only be skipped, under `FairSpec` | liveness: `PendingRowsSettle` |
| `provisioning_removed` | one server, deploy and delete, the reconciler | refutes `RemovedStaysRemoved` (section 4) |
| `provisioning_planned` | one server, a create request and its repetition, no reconciler, no fault | refutes `PlanningKeepsSuccess` (section 4) |

Two servers are enough for the claims about one row, since actions on different
rows meet only in `profile` and in the identity guard, and two rows exercise
both.  One request goroutine serves any number of requests one after the other;
races of a request with another one need two, races with the consumer or the
reconciler need one.  Each kind of fault occurs in one of the passing runs, beside the
processes it disturbs most; what all kinds together could do is left to the proofs, which
assume nothing about `Faults`.  Histories are recorded for `Audited` servers only, to keep
the state spaces of the other runs small; the refinement is stated of runs where all
servers are audited.  Deadlock is checked everywhere but in
`provisioning_settles`: with `stable` set and everything settled the system
rightly has nothing to do.

### Runs of MobileAuth

| Run | Instance | Shows |
|---|---|---|
| `mobile_login` | two users, two installs, two logins, two requests that approve or exchange, limits -1, 1, 2 entered at any time, logins expire and are cleaned up | `TypeOK`; `OneSessionPerLogin`; `SessionsOfTheOwner`; `DeviceLimitHolds`; `RequestsGoOn` |
| `mobile_sessions` | one user who is blocked and unblocked, one install, two sessions, two requests of every kind; sessions expire and are cleaned up | `NoAccessOnceRevoked`; `ReuseEndsSession`; `NobodyWaitsInACircle`; `ImplementsAccess` |

Two requests are what each race needs (two exchanges of one login, of one
user's two installs, of one install by two users; a refresh beside a revocation or
beside another refresh of the same token), and they serve any number of requests
one after the other.  `MaxRotations` bounds how often one session is refreshed.
With one rotation a session has a used and a current token, which is what reuse
needs; the current token of the last rotation is not presented to `Refresh`.  A
transaction that has ended leaves nothing behind but rows, so three requests at
once add no state that a row does not show.  Administrators
and clients always have something to do, so a circle of lock waits would not be a
deadlock of the model; `RequestsGoOn` says directly that one of the requests under way
can go on, and `NobodyWaitsInACircle` says it of any set of them, in terms of the locks
that the next statement of each needs (`Awaited`).

In `mobile_sessions` nobody comes near a limit: of `ImplementsAccess` it shows the part
about limits by the theorem `RefinesAccess` only.

### Runs of NodeRegistry

`node_registry` runs one server that is either migrated or unknown at first, two
reports (`Up` has protocol and group and two managed inbounds; `Down` has another group
and a plain inbound, and leaves the other one out; a migrated row fits in nothing until
its first snapshot), both queues, a clock with one tick, and one
snapshot of the server plus one malformed message waiting per queue. Servers share
no row, so one server shows every race; the two queues and what the consumers hold
make up to four snapshots under way, of two times and two contents. `StaleAfter` is
zero ticks, so that one tick makes a server stale. It shows

* `ImplementsRecords`: every change of a server is one step of `ServerRecords`.  An older
  snapshot, which is rejected only after the registry row was updated, leaves no trace;
  one that is as old as the state is applied, a redelivered one too, and brings back a
  server that was archived meanwhile;
* `StateIsNewest`: state and inbounds are those of the newest snapshot applied;
* `NoSnapshotLost`: a snapshot leaves the events queue only when it, or a newer
  one, is stored.  It would not hold of the results queue, whose consumer
  acknowledges what failed;
* `SparedOnceSeen`: a server that reports while the stale discovery waits for its
  row is not archived;
* `CatalogueFollowsSnapshots`: the app's catalogue and provisioning disagree about a
  server whose report fits only after an administrator enabled or restored it, until its
  next snapshot;
* `ServersBecomeEligible` (liveness): a server that reports and is not disabled
  ends eligible, whatever administrators did before.

Deadlock is not checked: with the clock at its bound and the queues full of what
is waiting, the model may stop where the program would go on ticking.

### Runs of MobileConnect

| Run | Instance | Shows |
|---|---|---|
| `mobile_connect` | one server asked for by name or as `auto`, one key, two operations, two requests that connect, poll or revoke, every fault, grants and routing that change, expiry, clean-up, a new login | `TypeOK`; `ProvisionedOncePerKey`; `RecordHasOperation`; `AnswersAgree`; `SuccessIsReported` |
| `mobile_connect_deployed` | one server that is always eligible, two keys, one request goroutine, no fault | refutes `ConnectFindsDeployment` (section 4) |

Two requests are what a race for one key needs, and the second operation is what the
loser, or a connect after the record expired, would create.  Servers share nothing but
the choice of `auto`.  With one server the part of `SuccessIsReported` that says which
server's config is handed out cannot fail in the run (a second server puts the revocation
out of TLC's reach); it rests on the theorem `ConfigIsDeployed`.  `MCMobileConnect` also states as an assumption, which TLC evaluates, that
`Healthiest` finds the best of three rows of any health in any order (`LoopFindsTheBest`);
three rows give every position of the best one, including the inner turn of the loop.
Deadlock is not checked: without free operations and with everything done a behaviour
may end.

### Run of VPNLinks

`vpn_links`: a create job for a VLESS link beside one for a Trojan link of the same
batch, or a statistics job beside a probe of the one old server; each job may be missing, a
create job superseded, too; two results queued, one failure or crash, one request for the links.  It shows `TypeOK`;
`BatchFollowsJobs` (a batch agrees with its jobs once their results are acknowledged,
failures in between or not); `SuccessHasLink`; `LinksOnlyGrow`; `NeverDeniesALink`.  The
last is about the links the bot has to show, those of the first client and the old ones; a
user may well have a link on a device's client and be told there is none (section 4).  Two
jobs give a batch every status it can have; a third would only repeat them.  One failure
is enough to leave any prefix of the handler's steps done.  `BatchFollowsJobs` excepts
statistics of a server that was deleted: `FindServer` takes the missing server for
a missing job, and the message is acknowledged without a recalculation.  Deadlock is not
checked: with the queue full and the consumer idle nothing may be left to do.

### Run of TelegramBot

`telegram_bot`: an administrator and a user, known or new, two complaints that exist or do
not, one reply text and the empty reply, one broadcast draft, two goroutines, three updates.  It shows
`TypeOK`; `OneUserPerAccount`; `RepliesReachTheAuthor`; `HeardOnce`;
`NothingStoredIsUndone`.  Two goroutines make every race of two handlers.  The first
complaints may be there, and announced, from the start, so the longest conversations that
the properties need take three updates: a reply dialog opened, the reply, and another dialog
opened beside it; a complaint with a photo posted, the dialog for it, and the reply; a draft written and
confirmed twice.  The theorems have no such bound.  Deadlock is not checked: after
`MaxUpdates` the model stops.

### Fairness

`FairSpec` of `Provisioning` assumes of the environment that it may calm down for good
(`Stabilise`: from then on no request, no fault, no change of eligibility), and of
the code

* weak fairness for the steps of each goroutine and of the consumer: the Go
  scheduler runs them and every loop of theirs is finite;
* strong fairness for the start of a reconciliation that includes a given
  pending row: cron fires every 30 s (`app/server.go:227`), the retry delay is at
  most five minutes (`provisioningRetryDelay`), and `PendingProfileNodes` takes the
  100 rows that are due longest.  A row that is published moves to the end; a row that
  is skipped, because its server is not eligible or a lookup fails
  (service/vpn.go:914-922), stays at the head.  So every row has its turn only while
  those that can only be skipped leave room in a run, which is `RoomInRun`: the ineligible
  pending rows of this profile (`Skipped`) and those of other profiles (`Elsewhere`) are
  fewer than `Limit`.  The code does not see to that: a hundred pending rows of disabled
  or archived servers starve all others.  `PendingRowsSettle` has `<>[]RoomInRun` as its
  assumption.  The fairness is strong, not weak, because a row is due again and again, not
  continuously: the goroutine is busy in between;
* weak fairness for the agents: the protocol document has them consume their
  queue and answer every command.

Nothing obliges a request, a fault, or `Stabilise` to happen.

The other modules state safety only.  In particular `RequestsGoOn` needs no fairness:
it says of every state that some request under way has an enabled step.

`FairSpec` of `NodeRegistry` assumes weak fairness of the consumers' steps, strong
fairness of the delivery of a waiting snapshot of each server (RabbitMQ hands out
ten messages at a time, so a rejected message that comes again and again does not
keep the others away; more malformed messages than the prefetch would), and weak
fairness of `HealthySnapshot`: agents report on a timer.

## 3. Proofs

Every property that a passing run checks is also a theorem, for every value of the
constants, except the three named at the end of this section.  TLC also
checked the inductive invariants, as invariants of these runs' instances.

### Provisioning

`ProvisioningProofs.tla` and `DeploymentProofs.tla` prove, for every set of servers,
requests and reconcilers, every kind of fault and every bound:

| Theorem | Statement |
|---|---|
| `TypeCorrect` | `Spec => []TypeOK` |
| `AcknowledgedStatus` | `Spec => []StatusIsAcknowledged` |
| `SuccessKept` | `Spec => LateFailureKeepsSuccess` |
| `NotifiedOnce` | `Spec => []NotifiedAtMostOnce` |
| `PendingActionMatches` | `Spec => []PendingActionMatchesDesired` |
| `OnlyRequested` | `Spec => []OnlyRequestedActions` |
| `ReadyIsTrue` | `Spec => []ReadyIsAcknowledged` |
| `RefinesDeployment` | `Spec => ImplementsDeployment`, if `Audited = Servers` |

The only other assumption is `ConstantsAssumption` (what the constants are).  `TypeOK`
is inductive.  The others are not:

* `StatusIsAcknowledged` needs that a waiting result is backed by the history of
  the agent that sent it (`ResultsAreBacked`), and that what the consumer checked
  is still true when it writes (`ConsumerGuards`).  The second is the heart of it:
  the row may change under the consumer, but nobody else clears a pending action
  or makes a row successful.  `ResultInv` is the conjunction; `SuccessKept` uses
  the same invariant.
* `NotifiedAtMostOnce` needs that nothing is about to be sent when notified_at is
  already stored, and that it is stored when the message is about to be sent
  (`NotifyInv`).
* `PendingActionMatchesDesired` needs the same of the copy the consumer will
  write back (`PairInv`).
* `OnlyRequestedActions` needs that whatever is on its way to an agent was asked for:
  pending actions in rows, in the copy the consumer will write back, and commands
  in the hands of tasks and in the queue (`RequestedInv`).  Requests only accumulate,
  so staleness does no harm.
* `ReadyIsAcknowledged` needs that a claim is backed before it is made: as soon as
  the consumer holds a usable status or is about to tell the user, some history is
  not empty (`ReadyInv`).  The status it stores may be stale by then, but a
  recalculation that gives a usable status has seen a successful row, which
  `ResultInv` says was acknowledged, and histories only grow.
* The refinement maps each step: planning steps of requests and failed publishes to
  `Plan` of the rows that changed (`PlanStep`), an administrator's UPDATE to `Ask`
  (`AskStep`), an agent's success to `Report` (`ReportStep`), the two writes of the consumer
  to `Settle` (`ActionSettles`, `SaveSettles`), everything else to a stutter.  The guards
  of `Report` and `Settle` are exactly what `RequestedInv` and `ResultInv` provide.

The proofs go through summaries of what steps can do: `RequestEffect`
(requests and the reconciler do one of four things to a row and nothing to
results, histories and notification), `QuietEffect` (unless an administrator asks, they
add no pending action), `TaskEffect`, `ConsumerEffect` and `EnvironmentEffect`.

### MobileAuth

`MobileAuthProofs.tla` proves, for every set of users, devices, logins, sessions and
requests, every number of rotations and every choice of request kinds, from
`MobileAssumption` (what the constants are; the devices are finitely many, since they
are counted):

| Theorem | Statement |
|---|---|
| `MobileInvariant` | `Spec => []MobileInv` |
| `MobileTypeCorrect` | `Spec => []TypeOK` |
| `LoginsExchangedOnce` | `Spec => []OneSessionPerLogin` |
| `OwnersKeepTheirSessions` | `Spec => []SessionsOfTheOwner` |
| `RevokedStaysOut` | `Spec => []NoAccessOnceRevoked` |
| `DeviceLimit` | `Spec => DeviceLimitHolds` |
| `ReuseIsPunished` | `Spec => ReuseEndsSession` |
| `RefinesAccess` | `Spec => ImplementsAccess` |
| `NoCircularWait` | `Spec => []NobodyWaitsInACircle` |

None of the properties is inductive: each is about what a transaction read in an earlier
statement and still believes in a later one.  `MobileInv` therefore says of every request
what it may rely on at each of its statements: that it holds what the statement reads
(`Equipped`), that the login it exchanges is locked and not exchanged and that the limit
it counted against is still in force (`ExchangeInv`), that the session it rotates is
locked and has the token it presented (`RefreshInv`), and how far a request whose session
was dead at its beginning can have come (`AccessInv`).  `Exclusion` says that a row is
locked by one transaction at most, `Rooted` that a session belongs to the owner of its
device and came from an exchanged login.

The argument is rely and guarantee.  Every step makes the tables grow in one direction
only (`Growth`: a device keeps its owner, what was revoked or ended does not return) and
leaves alone what the locks of the others protect (`Respects`); the lemma `Undisturbed`
turns the two into: the invariants of the requests that do not take the step go on
holding.  What is left is the request that does.  `DeviceLimitHolds` shows why the lock
on the subscription is needed: a first login may find no subscription row to lock, and then
it is the unique key of the row it inserts that keeps a second first login waiting.

`RefinesAccess` takes the commit of a transaction for the step of `MobileAccess`: only
commits, the single UPDATEs and the clean-up write the tables (`OthersOnlyRead`), each of
them is an abstract step, and whatever else a request does is a stutter.  The guards of
`Exchange` are judged at the commit, several statements after the code tested them;
that they still hold is what `ExchangeInv` says: the login is locked, approved and not
exchanged, the user and install the request holds are the login's, the count was taken under the
lock that fixes the limit, and the install is free or still the user's.  One step needs
more: the clean-up deletes only rows that exist, since only such rows expire
(`ExpiredInv`).

`NoCircularWait` is about the order of locks: login, subscription, device, session
(`Rank`).  `OrderInv` says of every request that what it holds ranks below what its
next statement waits for (`Reach` is the highest rank it may hold at each statement), so
among requests that all waited for each other the one that waits for the highest rank
would wait for something nobody among them holds.  Every step climbs (`StepsClimb`).

### NodeRegistry

`NodeRegistryProofs.tla` proves, for every set of servers, inbounds and contents and
every bound on time and queues, from `RegistryAssumption`:

| Theorem | Statement |
|---|---|
| `RegistryInvariant` | `Spec => []RegistryInv` |
| `RegistryTypeCorrect` | `Spec => []TypeOK` |
| `StateFollowsTheNewest` | `Spec => []StateIsNewest` |
| `EventsAreKept` | `Spec => NoSnapshotLost` |
| `ReportingServersAreSpared` | `Spec => SparedOnceSeen` |
| `RefinesRecords` | `Spec => ImplementsRecords` |
| `CatalogueAgrees` | `Spec => CatalogueFollowsSnapshots` |

`RegistryInv` says that no row of a server's history is newer than its state (`Bounded`),
that the state and the inbounds are those of one of these rows (`Reflects`), which
is what a snapshot that is stamped like the last one and applied after it could break,
that a consumer at work holds a message, and that a message about to be acknowledged is
applied or a newer one is (`Applied`).  The last part is what `NoSnapshotLost` rests on:
the acknowledgement is a step of its own, after any number of steps of the other consumer.
The steps that change no table are dealt with once (`Quiet`); for the action properties
there is a lemma or step for each action that writes the row in question.

`RefinesRecords` takes the step that commits a snapshot for `Report`, the UPDATEs for
`Administer` and `ArchiveSilent`, and everything else for a stutter (`TableSteps`).  It
needs a second invariant, about times (`OrderInv`): a message was sent before it was
received and not after now, so a report is never from the future; the statement that
waits has a cutoff that has passed; and a server with a row has reported, no later than
its last_seen_at (`RowsInOrder`).  The last part answers for the subquery of
`ArchiveStaleDiscovered`, which is not repeated after the wait: what the row says when it
is matched again, last_seen_at before the cutoff, implies that the last snapshot was sent
before it, too.  It rests on agents' clocks not running ahead.

### TelegramBot

`TelegramBotProofs.tla` proves, for every set of accounts, admins, complaints, texts,
drafts and goroutines, from `TelegramBotAssumption`:

| Theorem | Statement |
|---|---|
| `BotInvariant` | `Spec => []BotInv` |
| `BotTypeCorrect` | `Spec => []TypeOK` |
| `OneUserEach` | `Spec => []OneUserPerAccount` |
| `AuthorsAreAnswered` | `Spec => []RepliesReachTheAuthor` |
| `BroadcastOnce` | `Spec => []HeardOnce` |
| `StoredStays` | `Spec => NothingStoredIsUndone` |

`BotInv` has three parts.  `BotTypes` adds to the types what each goroutine holds at each
of its statements (`Equipped`).  `ReplyInv` says that a reply is recorded as stored before
it is published, and is addressed to the author of its complaint, or to nobody when
the row was deleted in between or could not be read (`Addressed`); it needs that whatever
the row of a complaint holds once something was stored for it, an empty reply too, was
stored (`RowInv`), whoever overwrites it.  `BroadcastInv` says
of a draft that was confirmed only once at a time that one goroutine sends it, that it
has not yet sent to those on its list, and that as long as the draft is still kept only
this goroutine has sent it (`SentInv`); that no two admins keep the same draft
(`DraftInv`) makes it inductive.  The proof follows the groups of actions (`FindSteps`,
`WriteSteps`, `AnswerSteps`, `BroadcastSteps` and the panel's), each with a lemma per part
of the invariant.

### MobileConnect

`MobileConnectProofs.tla` proves, for every set of servers, requests, keys, operations
and targets and every kind of fault, from `MobileConnectAssumption`:

| Theorem | Statement |
|---|---|
| `ConnectTypeCorrect` | `Spec => []TypeOK` |
| `ProvisionedOnce` | `Spec => []ProvisionedOncePerKey` |
| `RecordsHaveOperations` | `Spec => []RecordHasOperation` |
| `NoTwoAnswers` | `Spec => []AnswersAgree` |
| `ConfigIsDeployed` | `Spec => []SuccessIsReported` |

All five follow from one invariant, `ConnectInv`.  Its idea is ownership: the request
that created an operation owns it until it has stored what came of it, no other request
ever provisions under it, and while it is owned it is neither resolved nor failed
(`TaskInv`).  Afterwards nobody changes the resolved server, so an operation that was
answered `failed` has none and one that was answered with a config has the server whose
config it was (`OperationInv`): the unconditional UPDATE of a poll cannot meet a failure,
and no two polls hand out configs of different servers.  A key without a record was
not provisioned (`KeyInv`), and of a deployment only what module `Deployment` promises
is used (`DeploymentInv`): a success rests on a report.  Which command that report was
about is not said: a second success of a `delete_client` makes a row a success, too
(section 4).  That Cleanup deletes records
before operations rests on the order of the phases in `DeletedOperations` and
`DeletedRecords`, and on requests being shorter than a day (`Age`).

### VPNLinks

`VPNLinksProofs.tla` proves, for every set of jobs, batches and requests, from
`VPNLinksAssumption`:

| Theorem | Statement |
|---|---|
| `LinksTypeCorrect` | `Spec => []TypeOK` |
| `LinksAreKept` | `Spec => LinksOnlyGrow` |
| `DenialIsTrue` | `Spec => NeverDeniesALink` |
| `LinkIsNotLost` | `Spec => []SuccessHasLink` |
| `BatchIsNotLost` | `Spec => []BatchFollowsJobs` |

`LinkInv` adds to the types that the row the consumer will write back is still the one
stored, which holds because the queue has one consumer; `LinksOnlyGrow` follows.
`GapInv` says that a request that may find no link has seen a moment without one to show.
What makes it inductive is that a client that comes before the one a request has read is
new, and has no usable profile at that moment (`NewClient`).
`HandledInv` adds how far the consumer has come with the message it holds
(`ProgressInv`): the message is still in the queue, the job is marked, the status of the
batch in hand is the current one, and the link is stored before the acknowledgement.

### AutoServer

`AutoServerProofs.tla` proves, for rows with any integers as counters and times: the
comparison is a strict order that is total on different servers (`HealthierIsAnOrder`),
one turn of the loop keeps the best row seen (`LoopKeepsTheBest`), at most one row is the
best (`BestIsUnique`), and settings name a server exactly when they are pinned
(`PinNamesAServer`, over `PinIsNamed`).  That the fold as a whole finds the best row
would need induction over its definition, which is out of the prover's reach; TLC
checks it (`LoopFindsTheBest`).

### Only model-checked

`PendingRowsSettle` and `ServersBecomeEligible` are liveness under fairness and
`RequestsGoOn` is about ENABLED: both are out of the prover's reach.  What is hard in
`RequestsGoOn`, that locks are never waited for in a circle, is `NoCircularWait`.  Out
of reach, too, is the induction behind `LoopFindsTheBest`.  That the three statements of section 4 fail is shown by TLC's
counterexamples.

## 4. What the models show about the code

Three statements of the repository do not hold of the code; each has a run whose
counterexample is the shortest one TLC finds.

* **A deleted client comes back as deployed** (`provisioning_removed`).  The
  reconciler repeats a `delete_client` whose answer is late.  The first success
  makes the row `deleted` and clears pending_action; the second finds no pending
  action, is taken for the result of a deployment, and makes the row `success`
  and the profile `active`.  The agent protocol (`docs/vpnconsumer-v1-prompt.md`)
  requires the second success.
* **A second connect to a deployed server fails** (`mobile_connect_deployed`).
  `docs/mobile-api.md:17` promises the config or an operation.  A connect with a new
  key to a server that is a success finds nothing to publish; `RequestCreateVPN` answers
  ErrNoCommandsQueued (an active profile is answered at once only when no server is
  named), and `Connect` stores the operation as failed.
* **Planning undoes a success** (`provisioning_planned`).  `EnsureProfileNodes` tests the
  status it read and updates by primary key (repository/vpn.go:407): a success stored in
  between is turned back into pending, against the comment at repository/vpn.go:397.
  The reconciler repeats the command, so the row settles again (`PendingRowsSettle`).

Behaviours the models contain, that a reader of the code may not expect, and that no
property forbids:

* `ensureVPNProfile` sets the profile to pending after it published; when the result was
  faster, the profile stays pending although every row is success, until another
  result recalculates it (service/vpn.go:771).
* A full-row `Save` of the consumer may cover a just prepared administrative action with
  a success; the reconciler looks at pending rows only (repository/vpn.go:586).
* `RevokeDevice` reads the connections before it revokes the device: one that a `Connect`,
  having found the device active, creates in between is not deleted
  (service/mobile.go:313); the app is still kept out (`NoAccessOnceRevoked`).
* Pending rows of ineligible servers are skipped without moving on and, a hundred of them,
  starve every other pending row (repository/vpn.go:473, service/vpn.go:914).
* "My VPN" shows the profiles of one client only: a user with an active profile on a
  device's client is told there is none while the client without a device has none that is
  usable (service/vpn.go:1377).
* The app's catalogue offers a server that reports its protocol with another endpoint
  group, and provisioning refuses it (service/mobile.go:360).
* A snapshot that is redelivered after its server was archived is applied again and brings
  the server back (repository/nodes.go:211, :257).
* A request of the panel that names only a status erases the stored reply and publishes an
  empty one (handlers/telegram.go:348, repository/telegram.go:214).
* When the second read of a complaint fails, its stored reply is published for complaint 0
  and account 0 (handlers/complaints.go:108).
* Statistics of a deleted server leave their batch as it was (jobsvc/service.go:515).
* Two confirmations of a broadcast at once send it twice (telegrambot/admin.go:164);
  `HeardOnce` is about those that did not overlap.
* The failed poll of an operation, or the failed UPDATE of one, is ignored: an operation may
  stay `processing` until it expires (service/mobile.go:503).

## 5. Not modelled, and what is next

Parts that are not modelled, and why:

* HTTP decoding, routing, authorisation middleware and the rate limiter: no state that
  outlives a request but the limiter's counters.  What a handler does beyond one service
  call (`ComplaintsController.reply`, `nodes.go`) is in the module of that service.
* Single-row upserts of users, subscriptions, grants and settings; their effects on others
  are choices that may change at any time (`UpdateSubscription`, `SetBlocked`, `Flapping`,
  `ToggleEligible`).  Validity dates are part of those choices.
* The functions of `jobsvc` that create batches and jobs, which nothing calls, and
  `CollectOnlineJob`, which no scheduler starts.  The pages that edited old servers
  answer 410 Gone.
* The text of links (`genLink.go`), of messages and keyboards; the instruction pager,
  `/senduser`, statistics and the maintenance switch of the bot, which read or write
  one row at a time.
* `UpdateConnectionSettings` and the statuses computed for the panel's lists of servers:
  no other operation reads them.
* Configuration, migrations beyond `NodeRegistry`'s `Init`, storage, audit and logging:
  start-up and I/O.
* Clocks that run ahead, messages that are never valid in numbers that fill the prefetch
  window, the retry delay's arithmetic: see the hazards without a property.

What is next: properties for the hazards that have none yet (`RevokeDevice` and a connection
created in between; a redelivered snapshot and an archived server); and an abstract
specification of the bot's support dialogs that `TelegramBot` implements.
