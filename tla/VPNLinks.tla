------------------------------- MODULE VPNLinks -------------------------------
(***************************************************************************)
(* The VPN links of ONE user: the answers to "my VPN", and the results of  *)
(* jobs that an older version of the panel queued, which still store links *)
(* of the old kind (jobsvc, table vpns).                                   *)
(*                                                                         *)
(* A link is only told from its absence.  Links of the new kind belong to  *)
(* the profiles of VPN clients: the client of the user, which belongs to   *)
(* no device, and those of devices.  Module Provisioning derives the       *)
(* states of profiles; here they change in any way, and only whether a     *)
(* client has a usable one matters.                                        *)
(*                                                                         *)
(* A statement or transaction is one action.  The queue has one consumer,  *)
(* which takes one message at a time.                                      *)
(***************************************************************************)
EXTENDS Integers, FiniteSets

CONSTANTS
    Jobs,       \* job ids that results name
    Batches,
    Rows,       \* what the jobs may be: functions from job to its row
    Requests,   \* goroutines that serve "my VPN"
    MaxQueued,  \* bound: results waiting
    MaxFaults,  \* bound: failures and crashes
    None        \* no message, no row, no client

Protocols == {"vless", "trojan"}
Actions   == {"create_client", "probe_node", "collect_node_stats"}

ASSUME VPNLinksAssumption ==
    /\ Rows \subseteq [Jobs -> [batch : Batches, action : Actions, protocol : Protocols]]
    /\ MaxQueued \in Nat /\ MaxFaults \in Nat
    /\ None \notin Jobs \cup {"own", "device"} /\ \A links \in SUBSET Protocols : links # None

VARIABLES
    row,       \* jobs: the columns that never change
    job,       \* jobs: id -> status, "none" is no row
    batch,     \* job_batches: id -> status
    server,    \* the old servers row that probes and statistics are about
    vpn,       \* vpns: the protocols with a link, None: no row
    profile,   \* vpn_clients and vpn_profiles: client -> what its profiles are good for
    queue,     \* results in the result queue
    consumer,  \* program state of the result handler
    request,   \* program state of the requests
    faults

vars == <<row, job, batch, server, vpn, profile, queue, consumer, request, faults>>

jobTables == <<row, job, batch, server>>

-----------------------------------------------------------------------------
(***************************************************************************)
(* Values                                                                  *)
(***************************************************************************)

JobStatuses   == {"none", "pending", "superseded", "success", "failed"}
BatchStatuses == {"pending", "processing", "success", "partial_success", "failed"}

\* The client without a device, and the oldest one of a device.
Clients == {"own", "device"}

\* absent: there is no such client; pending: no profile of it is usable, which
\* isUsableVPNProfileStatus and a final link decide.
ProfileStatuses == {"absent", "pending", "usable"}

ServerStates  == {"missing", "unknown", "online", "offline", "degraded"}

\* bare: a success of a create command without a link, or of statistics of which a
\* component is not healthy, and the failure of a probe that found a server degraded.
Result == [job: Jobs, outcome: {"success", "bare", "failed"}]

Links == SUBSET Protocols

Consumer == [pc: {"idle", "get", "mark", "probe", "find", "stats", "jobs", "batch",
                  "link", "save", "account", "ack"},
             result: Result \cup {None}, batch: BatchStatuses, vpn: Links \cup {None}]

IdleConsumer == [pc |-> "idle", result |-> None, batch |-> "pending", vpn |-> None]

\* gap: at some moment since the request began the bot had no link to show.
Request == [pc: {"idle", "client", "profiles", "legacy"}, client: Clients \cup {None},
            gap: BOOLEAN]

IdleRequest == [pc |-> "idle", client |-> None, gap |-> FALSE]

\* Creating a job left its batch processing; superseding it, which was done to create
\* jobs only, touched no batch.  Without a job about a server none matters.
Init ==
    /\ row \in Rows
    /\ job \in [Jobs -> {"none", "pending", "superseded"}]
    /\ \A j \in Jobs : job[j] = "superseded" => row[j].action = "create_client"
    /\ batch = [b \in Batches |-> "processing"]
    /\ server \in {"missing", "unknown"}
    /\ (\A j \in Jobs : row[j].action = "create_client") => server = "missing"
    /\ vpn \in {None, {"trojan"}}
    /\ profile = [c \in Clients |-> "absent"]
    /\ queue = {}
    /\ consumer = IdleConsumer
    /\ request = [r \in Requests |-> IdleRequest]
    /\ faults = 0

-----------------------------------------------------------------------------
(***************************************************************************)
(* Results of the older version's jobs                                     *)
(***************************************************************************)

\* Agents still execute old commands, and publish what came of them at least once.
\* Results that name a profile are left to module Provisioning.
Publish(m) ==
    /\ m \notin queue /\ Cardinality(queue) < MaxQueued
    /\ queue' = queue \cup {m}
    /\ UNCHANGED <<jobTables, vpn, profile, consumer, faults>>

Goto(pc) == [consumer EXCEPT !.pc = pc]

Row == row[consumer.result.job]

Outcome == consumer.result.outcome

\* normalizeJobResultStatus: what is not "success" has failed.
ResultStatus ==
    IF Outcome = "success" \/ (Outcome = "bare" /\ Row.action # "probe_node")
      THEN "success" ELSE "failed"

Take(m) ==
    /\ consumer.pc = "idle"
    /\ m \in queue
    /\ consumer' = [IdleConsumer EXCEPT !.pc = "get", !.result = m]
    /\ UNCHANGED <<jobTables, vpn, profile, queue, faults>>

\* gorm.ErrRecordNotFound of ApplyResult, as New's handler takes it: the job is
\* unknown, and the message is acknowledged.
Ignore == consumer' = Goto("ack")

GetJob ==
    /\ consumer.pc = "get"
    /\ IF job[consumer.result.job] = "none" THEN Ignore ELSE consumer' = Goto("mark")
    /\ UNCHANGED <<jobTables, vpn, profile, queue, faults>>

\* MarkJobSuccess, MarkJobFailed, whatever the job's status was.
MarkJob ==
    /\ consumer.pc = "mark"
    /\ job' = [job EXCEPT ![consumer.result.job] = ResultStatus]
    /\ consumer' = Goto(CASE Row.action = "probe_node" -> "probe"
                          [] Row.action = "collect_node_stats" -> "find"
                          [] Row.action = "create_client" -> "jobs")
    /\ UNCHANGED <<row, batch, server, vpn, profile, queue, faults>>

\* Faulty variant: the status of the job is stored as the server's.
JobStateOf == [success |-> "success", bare |-> "success", failed |-> "failed"]

\* nodeStatusFromStats, and the status applyProbeResult takes from the payload.
StateOf == [success |-> "online", bare |-> "degraded", failed |-> "offline"]

SetServer(st) == server' = IF server = "missing" THEN server ELSE st

\* UpdateProbeSuccess, UpdateProbeFailed: an UPDATE that may match no row.
ApplyProbeResult ==
    /\ consumer.pc = "probe"
    /\ SetServer(StateOf[Outcome])
    /\ consumer' = Goto("jobs")
    /\ UNCHANGED <<row, job, batch, vpn, profile, queue, faults>>

\* GetByID: a missing server is a missing record, too.
FindServer ==
    /\ consumer.pc = "find"
    /\ IF server = "missing" THEN Ignore ELSE consumer' = Goto("stats")
    /\ UNCHANGED <<jobTables, vpn, profile, queue, faults>>

ApplyNodeStats ==
    /\ consumer.pc = "stats"
    /\ SetServer(StateOf[Outcome])
    /\ consumer' = Goto("jobs")
    /\ UNCHANGED <<row, job, batch, vpn, profile, queue, faults>>

JobsOf(b) == {j \in Jobs : row[j].batch = b /\ job[j] # "none"}

CalculateBatchStatus(b) ==
    LET success == {j \in JobsOf(b) : job[j] = "success"}
        failed  == {j \in JobsOf(b) : job[j] \in {"failed", "superseded"}}
    IN  CASE JobsOf(b) = {} -> "pending"
          [] JobsOf(b) # success \cup failed -> "processing"
          [] JobsOf(b) # {} /\ JobsOf(b) = success -> "success"
          [] JobsOf(b) # {} /\ JobsOf(b) = failed -> "failed"
          [] OTHER -> "partial_success"

\* JobsByBatch.
ReadJobs ==
    /\ consumer.pc = "jobs"
    /\ consumer' = [consumer EXCEPT !.pc = "batch",
                                    !.batch = CalculateBatchStatus(Row.batch)]
    /\ UNCHANGED <<jobTables, vpn, profile, queue, faults>>

\* UpdateBatchStatus; then ApplyAgentCreateResult, for the job as it was marked.
StoreBatch ==
    /\ consumer.pc = "batch"
    /\ batch' = [batch EXCEPT ![Row.batch] = consumer.batch]
    /\ consumer' = Goto(IF Row.action = "create_client" /\ ResultStatus = "success" THEN "link" ELSE "ack")
    /\ UNCHANGED <<row, job, server, vpn, profile, queue, faults>>

\* Faulty variant: there is no link to store, the result is done with.
AcksWithoutLink == Goto("ack")

\* A success without a link is an error: the message is requeued.
WithoutLink == IdleConsumer

ReadLink ==
    /\ consumer.pc = "link"
    /\ consumer' = IF Outcome = "success"
                     THEN [consumer EXCEPT !.pc = "save", !.vpn = vpn] ELSE WithoutLink
    /\ UNCHANGED <<jobTables, vpn, profile, queue, faults>>

\* Faulty variant: the row is written anew.
ReplacedLinks(links, p) == {p}

\* The full row is saved with the link of one protocol replaced.
UpsertedLinks(links, p) == IF links = None THEN {p} ELSE links \cup {p}

SaveLink ==
    /\ consumer.pc = "save"
    /\ vpn' = UpsertedLinks(consumer.vpn, Row.protocol)
    /\ consumer' = Goto("account")
    /\ UNCHANGED <<jobTables, profile, queue, faults>>

\* GetByUserID; the message to the user follows, and its error is logged.
FindAccount ==
    /\ consumer.pc = "account"
    /\ consumer' = Goto("ack")
    /\ UNCHANGED <<jobTables, vpn, profile, queue, faults>>

Ack ==
    /\ consumer.pc = "ack"
    /\ queue' = queue \ {consumer.result}
    /\ consumer' = IdleConsumer
    /\ UNCHANGED <<jobTables, vpn, profile, faults>>

\* Faulty variant: a message whose handler failed is dropped.
DroppedAfterFailure == queue \ {consumer.result}

AfterFailure == queue

\* A statement fails and the message is requeued, or the panel crashes.
Interrupted ==
    /\ consumer.pc # "idle" /\ faults < MaxFaults
    /\ faults' = faults + 1
    /\ queue' = AfterFailure
    /\ consumer' = IdleConsumer
    /\ UNCHANGED <<jobTables, vpn, profile>>

ConsumerStep ==
    \/ GetJob \/ MarkJob \/ ApplyProbeResult \/ FindServer \/ ApplyNodeStats
    \/ ReadJobs \/ StoreBatch \/ ReadLink \/ SaveLink \/ FindAccount \/ Ack

\* What module Provisioning does: clients are created, and never deleted; the state of
\* a profile may change at any time.
ChangeProfile ==
    /\ \E c \in Clients :
         profile' = [profile EXCEPT ![c] = IF @ = "pending" THEN "usable" ELSE "pending"]
    /\ UNCHANGED <<jobTables, vpn, queue, consumer, faults>>

-----------------------------------------------------------------------------
(***************************************************************************)
(* Answers: GetLinkOverview                                                *)
(***************************************************************************)

LegacyLinks == IF vpn = None THEN {} ELSE vpn

\* Faulty variant: the oldest client, whichever it is, of a device first.
DeviceClient ==
    IF profile["device"] # "absent" THEN "device"
    ELSE IF profile["own"] # "absent" THEN "own" ELSE None

\* GetVPNClientByUserID: the client without a device comes first.
VPNClient ==
    IF profile["own"] # "absent" THEN "own"
    ELSE IF profile["device"] # "absent" THEN "device" ELSE None

\* What the bot has to show now: a link of the client without a device or, only when
\* there is none, of a device's; or one of the old kind.
AnyLink ==
    \/ profile["own"] = "usable"
    \/ profile["own"] = "absent" /\ profile["device"] = "usable"
    \/ LegacyLinks # {}

BeginRequest(r) ==
    /\ request[r].pc = "idle"
    /\ request' = [request EXCEPT ![r] = [pc |-> "client", client |-> None, gap |-> ~AnyLink]]

\* applyCanonicalLinkProfiles: the client, and then both of its profiles.
ReadClient(r) ==
    /\ request[r].pc = "client"
    /\ request' = [request EXCEPT
          ![r].pc = IF VPNClient = None THEN "legacy" ELSE "profiles", ![r].client = VPNClient]

ReadProfiles(r) ==
    /\ request[r].pc = "profiles"
    /\ request' = [request EXCEPT ![r] =
          IF profile[request[r].client] = "usable" THEN IdleRequest
          ELSE [@ EXCEPT !.pc = "legacy", !.client = None]]

\* applyLegacyLinkFallback.  The request ends, in an error if a statement fails.
EndRequest(r) ==
    /\ request[r].pc # "idle"
    /\ request' = [request EXCEPT ![r] = IdleRequest]

RequestStep(r) ==
    BeginRequest(r) \/ ReadClient(r) \/ ReadProfiles(r) \/ EndRequest(r)

\* A request is answered that there is no link.
Denies(r) == request[r].pc = "legacy" /\ LegacyLinks = {} /\ request'[r].pc = "idle"

\* History: which requests have now seen a moment without any link to show.
Watch ==
    request' = [r \in Requests |->
        IF request[r].pc # "idle" /\ ~AnyLink'
          THEN [request[r] EXCEPT !.gap = TRUE] ELSE request[r]]

-----------------------------------------------------------------------------

Next ==
    \/ /\ \/ \E m \in Result : Publish(m)
          \/ \E m \in queue : Take(m)
          \/ ConsumerStep \/ Interrupted
          \/ ChangeProfile
       /\ Watch
    \/ /\ \E r \in Requests : RequestStep(r)
       /\ UNCHANGED <<jobTables, vpn, profile, queue, consumer, faults>>

Spec == Init /\ [][Next]_vars

-----------------------------------------------------------------------------
(***************************************************************************)
(* Properties                                                              *)
(***************************************************************************)

\* Every variable stays in its domain.
TypeOK ==
    /\ row \in Rows
    /\ job \in [Jobs -> JobStatuses]
    /\ batch \in [Batches -> BatchStatuses]
    /\ server \in ServerStates
    /\ vpn \in Links \cup {None}
    /\ profile \in [Clients -> ProfileStatuses]
    /\ queue \subseteq Result
    /\ consumer \in Consumer
    /\ request \in [Requests -> Request]
    /\ faults \in 0..MaxFaults

\* No result of the job is under way.
Settled(j) == \A m \in queue : m.job # j

\* Whatever failed on the way, a batch is up to date once the results of its
\* jobs are acknowledged: the recalculation is not lost with the message.
BatchFollowsJobs ==
    \A b \in Batches :
        /\ \A j \in JobsOf(b) : Settled(j)
        /\ \E j \in JobsOf(b) : job[j] \in {"success", "failed"}
        /\ ~\E j \in JobsOf(b) : row[j].action = "collect_node_stats" /\ server = "missing"
        => batch[b] = CalculateBatchStatus(b)

\* A create job whose success is acknowledged has left a link of its protocol,
\* although the job is marked long before the link is stored.
SuccessHasLink ==
    \A j \in Jobs :
        row[j].action = "create_client" /\ job[j] = "success" /\ Settled(j)
            => row[j].protocol \in LegacyLinks

\* A link of the old kind is never taken away, however often, late and in
\* whatever order results of both protocols are applied.
LinksOnlyGrow == [][LegacyLinks \subseteq LegacyLinks']_vars

\* The bot tells no user that there is no link who had one to show all along: of the client
\* without a device (if there is none, of the oldest one of a device), or of the old kind.
\* It reads client, profiles and old links one after the other while all of them change,
\* and a new client hides the links of the one it has read.
NeverDeniesALink == [][\A r \in Requests : Denies(r) => request[r].gap]_vars
=============================================================================
