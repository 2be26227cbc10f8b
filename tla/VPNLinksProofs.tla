--------------------------- MODULE VPNLinksProofs ---------------------------
(* Theorems about VPNLinks, for every set of jobs, batches and requests. *)
EXTENDS VPNLinks, TLAPS

-----------------------------------------------------------------------------
(***************************************************************************)
(* Type correctness                                                        *)
(***************************************************************************)

\* The message in hand is a result, and the row that will be saved is the one
\* stored: nobody but the consumer writes links.
ConsumerInv ==
    /\ consumer.pc # "idle" => consumer.result \in Result
    /\ consumer.pc = "save" => consumer.vpn = vpn

LinkInv == TypeOK /\ ConsumerInv

\* The program state between two messages has its type.
LEMMA IdleType == IdleConsumer \in Consumer /\ IdleRequest \in Request
BY DEF IdleConsumer, Consumer, IdleRequest, Request, BatchStatuses, Links

\* The client whose profiles are read.
LEMMA ClientType == VPNClient \in Clients \cup {None}
BY DEF VPNClient, Clients

\* Every batch has one of its five statuses.
LEMMA BatchStatusType == \A b : CalculateBatchStatus(b) \in BatchStatuses
BY DEF CalculateBatchStatus, BatchStatuses

\* The initial state satisfies the invariant.
LEMMA LinkInit == Init => LinkInv
<1> SUFFICES ASSUME Init PROVE LinkInv OBVIOUS
<1>1. /\ row \in Rows /\ server \in ServerStates /\ vpn \in Links \cup {None}
      /\ profile \in [Clients -> ProfileStatuses] /\ queue \subseteq Result
  BY DEF Init, ServerStates, Links, Protocols, ProfileStatuses
<1>2. job \in [Jobs -> JobStatuses] BY DEF Init, JobStatuses
<1>3. batch \in [Batches -> BatchStatuses] BY DEF Init, BatchStatuses
<1>4. consumer \in Consumer /\ request \in [Requests -> Request] BY IdleType DEF Init
<1>5. faults \in 0..MaxFaults BY VPNLinksAssumption DEF Init
<1>6. ConsumerInv BY DEF Init, ConsumerInv, IdleConsumer
<1> QED BY <1>1, <1>2, <1>3, <1>4, <1>5, <1>6 DEF LinkInv, TypeOK

\* The job of the message in hand has a row with a batch and a protocol.
LEMMA RowType ==
    ASSUME LinkInv, consumer.pc # "idle"
    PROVE  /\ consumer.result \in Result /\ consumer.result.job \in Jobs
           /\ Row.batch \in Batches /\ Row.protocol \in Protocols /\ Row.action \in Actions
BY VPNLinksAssumption DEF LinkInv, TypeOK, ConsumerInv, Row, Result

\* A step that only moves the consumer on keeps its type.
LEMMA GotoType ==
    ASSUME consumer \in Consumer, NEW pc \in {"idle", "get", "mark", "probe", "find", "stats",
              "jobs", "batch", "link", "save", "account", "ack"}
    PROVE  /\ Goto(pc) \in Consumer /\ Goto(pc).pc = pc
           /\ Goto(pc).result = consumer.result
BY DEF Goto, Consumer

\* One step of the consumer keeps the invariant.
LEMMA ConsumerKeeps == LinkInv /\ ConsumerStep /\ Watch => LinkInv'
<1> SUFFICES ASSUME LinkInv, ConsumerStep, Watch PROVE LinkInv' OBVIOUS
<1>0. /\ consumer \in Consumer /\ vpn \in Links \cup {None} /\ job \in [Jobs -> JobStatuses]
      /\ batch \in [Batches -> BatchStatuses] /\ server \in ServerStates /\ row \in Rows
      /\ profile \in [Clients -> ProfileStatuses] /\ queue \subseteq Result
      /\ request \in [Requests -> Request] /\ faults \in 0..MaxFaults
      /\ consumer.pc = "save" => consumer.vpn = vpn
  BY DEF LinkInv, TypeOK, ConsumerInv
<1>1. request' \in [Requests -> Request] BY <1>0 DEF Watch, Request
<1>2. /\ consumer.pc # "idle" /\ row' = row /\ profile' = profile /\ faults' = faults
      /\ queue' \subseteq queue
  BY DEF ConsumerStep, GetJob, Ignore, MarkJob, ApplyProbeResult, FindServer, ApplyNodeStats,
         ReadJobs, StoreBatch, ReadLink, SaveLink, FindAccount, Ack, jobTables
<1>3. consumer.result \in Result /\ consumer.result.job \in Jobs
      /\ Row.batch \in Batches /\ Row.protocol \in Protocols /\ Row.action \in Actions
  BY <1>2, RowType
<1> DEFINE Kept == /\ job' \in [Jobs -> JobStatuses] /\ batch' \in [Batches -> BatchStatuses]
                   /\ server' \in ServerStates /\ vpn' \in Links \cup {None}
                   /\ consumer' \in Consumer /\ ConsumerInv'
<1>4. ASSUME NEW pc \in {"get", "mark", "probe", "find", "stats",
                         "jobs", "batch", "link", "account", "ack"},
             consumer' = Goto(pc)
      PROVE  consumer' \in Consumer /\ ConsumerInv'
  BY <1>0, <1>3, <1>4, GotoType DEF ConsumerInv
<1>5. ASSUME consumer' = IdleConsumer PROVE consumer' \in Consumer /\ ConsumerInv'
  BY <1>5, IdleType DEF ConsumerInv, IdleConsumer
<1>6. Kept
  <2>1. CASE GetJob BY <1>0, <1>4, <2>1 DEF GetJob, Ignore, jobTables
  <2>2. CASE MarkJob
    <3>1. job' \in [Jobs -> JobStatuses]
      BY <1>0, <1>3, <2>2 DEF MarkJob, ResultStatus, JobStatuses
    <3>2. consumer' \in {Goto("probe"), Goto("find"), Goto("jobs")}
      BY <1>3, <2>2 DEF MarkJob, Actions
    <3> QED BY <1>0, <1>4, <2>2, <3>1, <3>2 DEF MarkJob
  <2>3. CASE ApplyProbeResult \/ ApplyNodeStats
    <3>1. server' \in ServerStates
      BY <1>0, <1>3, <2>3 DEF ApplyProbeResult, ApplyNodeStats, SetServer, StateOf, Outcome,
             Result, ServerStates
    <3> QED BY <1>0, <1>4, <2>3, <3>1 DEF ApplyProbeResult, ApplyNodeStats
  <2>4. CASE FindServer BY <1>0, <1>4, <2>4 DEF FindServer, Ignore, jobTables
  <2>5. CASE ReadJobs
    <3>1. consumer' \in Consumer /\ consumer'.pc = "batch" /\ consumer'.result = consumer.result
      BY <1>0, <2>5, BatchStatusType DEF ReadJobs, Consumer
    <3> QED BY <1>0, <1>3, <2>5, <3>1 DEF ReadJobs, jobTables, ConsumerInv
  <2>6. CASE StoreBatch
    <3>1. batch' \in [Batches -> BatchStatuses]
      BY <1>0, <1>3, <2>6 DEF StoreBatch, Consumer
    <3> QED BY <1>0, <1>4, <2>6, <3>1 DEF StoreBatch
  <2>7. CASE ReadLink
    <3>1. CASE Outcome = "success"
      <4>1. consumer' = [consumer EXCEPT !.pc = "save", !.vpn = vpn] /\ vpn' = vpn
        BY <2>7, <3>1 DEF ReadLink
      <4>2. consumer' \in Consumer /\ consumer'.vpn = vpn /\ consumer'.result = consumer.result
        BY <1>0, <4>1 DEF Consumer
      <4> QED BY <1>0, <1>3, <2>7, <4>1, <4>2 DEF ReadLink, jobTables, ConsumerInv
    <3>2. CASE Outcome # "success"
      BY <1>0, <1>5, <2>7, <3>2 DEF ReadLink, WithoutLink, jobTables
    <3> QED BY <3>1, <3>2
  <2>8. CASE SaveLink
    <3>1. vpn' \in Links
      BY <1>0, <1>3, <2>8 DEF SaveLink, UpsertedLinks, Links, Consumer
    <3> QED BY <1>0, <1>4, <2>8, <3>1 DEF SaveLink, jobTables
  <2>9. CASE FindAccount BY <1>0, <1>4, <2>9 DEF FindAccount, jobTables
  <2>10. CASE Ack BY <1>0, <1>5, <2>10 DEF Ack, jobTables
  <2> QED BY <2>1, <2>2, <2>3, <2>4, <2>5, <2>6, <2>7, <2>8, <2>9, <2>10 DEF ConsumerStep
<1> QED BY <1>0, <1>1, <1>2, <1>6 DEF LinkInv, TypeOK

\* So does every other step.
LEMMA LinkStep == LinkInv /\ [Next]_vars => LinkInv'
<1> SUFFICES ASSUME LinkInv, [Next]_vars PROVE LinkInv' OBVIOUS
<1>0. TypeOK /\ ConsumerInv BY DEF LinkInv
<1>w. Watch => request' \in [Requests -> Request] BY <1>0 DEF Watch, Request, TypeOK
<1>1. CASE UNCHANGED vars BY <1>0, <1>1 DEF vars, LinkInv, TypeOK, ConsumerInv
<1>2. ASSUME NEW m \in Result, Publish(m), Watch PROVE LinkInv'
  BY <1>0, <1>w, <1>2 DEF Publish, jobTables, LinkInv, TypeOK, ConsumerInv
<1>3. ASSUME NEW m \in queue, Take(m), Watch PROVE LinkInv'
  <2>1. consumer' = [IdleConsumer EXCEPT !.pc = "get", !.result = m] BY <1>3 DEF Take
  <2>2. m \in Result BY <1>0 DEF TypeOK
  <2>3. consumer' \in Consumer /\ ConsumerInv'
    BY <2>1, <2>2, IdleType DEF IdleConsumer, Consumer, ConsumerInv
  <2> QED BY <1>0, <1>w, <1>3, <2>3 DEF Take, jobTables, LinkInv, TypeOK
<1>4. CASE ConsumerStep /\ Watch BY <1>4, ConsumerKeeps
<1>5. CASE Interrupted /\ Watch
  <2>1. faults' \in 0..MaxFaults
    BY <1>0, <1>5, VPNLinksAssumption DEF Interrupted, TypeOK
  <2>2. consumer' \in Consumer /\ ConsumerInv'
    BY <1>5, IdleType DEF Interrupted, ConsumerInv, IdleConsumer
  <2> QED BY <1>0, <1>w, <1>5, <2>1, <2>2
         DEF Interrupted, AfterFailure, jobTables, LinkInv, TypeOK
<1>6. CASE ChangeProfile /\ Watch
  <2>1. profile' \in [Clients -> ProfileStatuses]
    BY <1>0, <1>6 DEF ChangeProfile, TypeOK, ProfileStatuses
  <2> QED BY <1>0, <1>w, <1>6, <2>1 DEF ChangeProfile, jobTables, LinkInv, TypeOK, ConsumerInv
<1>7. ASSUME NEW r \in Requests, RequestStep(r),
             UNCHANGED <<jobTables, vpn, profile, queue, consumer, faults>>
      PROVE  LinkInv'
  <2>0. request \in [Requests -> Request] BY <1>0 DEF TypeOK
  <2>1. request' \in [Requests -> Request]
    <3>1. CASE BeginRequest(r)
      <4>1. [pc |-> "client", client |-> None, gap |-> ~AnyLink] \in Request
        BY DEF Request, AnyLink
      <4> QED BY <2>0, <3>1, <4>1 DEF BeginRequest
    <3>4. CASE ReadClient(r)
      BY <2>0, <3>4, ClientType DEF ReadClient, Request
    <3>2. CASE ReadProfiles(r)
      BY <2>0, <3>2, IdleType DEF ReadProfiles, Request
    <3>3. CASE EndRequest(r) BY <2>0, <3>3, IdleType DEF EndRequest
    <3> QED BY <1>7, <3>1, <3>2, <3>3, <3>4 DEF RequestStep
  <2> QED BY <1>0, <1>7, <2>1 DEF jobTables, LinkInv, TypeOK, ConsumerInv
<1> QED BY <1>1, <1>2, <1>3, <1>4, <1>5, <1>6, <1>7 DEF Next

\* The invariant holds of every reachable state.
LEMMA LinkInvariant == Spec => []LinkInv
BY LinkInit, LinkStep, PTL DEF Spec

\* Every variable keeps its type, whatever the jobs of the older version were.
THEOREM LinksTypeCorrect == Spec => []TypeOK
<1>1. LinkInv => TypeOK BY DEF LinkInv
<1> QED BY <1>1, LinkInvariant, PTL

-----------------------------------------------------------------------------
(***************************************************************************)
(* Links are never taken away                                              *)
(***************************************************************************)

\* Only SaveLink writes links, and it adds one to what is stored.
LEMMA LinksGrow == LinkInv /\ [Next]_vars => LegacyLinks \subseteq LegacyLinks'
<1> SUFFICES ASSUME LinkInv, [Next]_vars PROVE LegacyLinks \subseteq LegacyLinks'
  OBVIOUS
<1>1. CASE vpn' = vpn BY <1>1 DEF LegacyLinks
<1>2. CASE SaveLink
  <2>1. vpn' = UpsertedLinks(vpn, Row.protocol) /\ Row.protocol \in Protocols
    BY <1>2, RowType DEF SaveLink, LinkInv, ConsumerInv
  <2>2. vpn \in Links \cup {None} BY DEF LinkInv, TypeOK
  <2> QED BY <2>1, <2>2, VPNLinksAssumption DEF UpsertedLinks, LegacyLinks, Links
<1> QED BY <1>1, <1>2 DEF Next, vars, Publish, Take, ConsumerStep, GetJob, MarkJob,
           ApplyProbeResult, FindServer, ApplyNodeStats, ReadJobs, StoreBatch, ReadLink,
           FindAccount, Ack, Interrupted, ChangeProfile, jobTables

\* UpsertLinkByUserID saves a row it read before; since results are handled one
\* at a time nothing is lost, and no link of the old kind is taken away.
THEOREM LinksAreKept == Spec => LinksOnlyGrow
<1>1. LinkInv /\ [Next]_vars => [LegacyLinks \subseteq LegacyLinks']_vars
  BY LinksGrow
<1> QED BY <1>1, LinkInvariant, PTL DEF Spec, LinksOnlyGrow

-----------------------------------------------------------------------------
(***************************************************************************)
(* No user is denied a link that the bot had to show all along             *)
(***************************************************************************)

\* A request that may find no link has seen a moment without one to show: now; once it found
\* no usable profile, when it looked at them; or when a client came before the one it read.
GapInv ==
    \A r \in Requests :
        /\ request[r].pc = "profiles" => request[r].client \in Clients
        /\ request[r].pc = "profiles" => profile[request[r].client] # "absent"
        /\ /\ request[r].pc # "idle"
           /\ \/ ~AnyLink
              \/ request[r].pc = "legacy" /\ LegacyLinks = {}
              \/ request[r].pc = "profiles" /\ request[r].client # VPNClient /\ LegacyLinks = {}
           => request[r].gap

\* A client that comes before another one is new, and has no usable profile yet.
LEMMA NewClient ==
    ASSUME LinkInv, [Next]_vars
    PROVE  /\ \A c \in Clients : profile[c] # "absent" => profile'[c] # "absent"
           /\ VPNClient' # VPNClient /\ VPNClient # None
                => profile'["own"] = "pending" /\ VPNClient' = "own"
<1>0. profile \in [Clients -> ProfileStatuses] BY DEF LinkInv, TypeOK
<1>1. CASE UNCHANGED profile BY <1>1 DEF VPNClient
<1>2. CASE ChangeProfile
  <2>1. PICK c \in Clients :
           profile' = [profile EXCEPT ![c] = IF @ = "pending" THEN "usable" ELSE "pending"]
    BY <1>2 DEF ChangeProfile
  <2> QED BY <1>0, <2>1, VPNLinksAssumption DEF VPNClient, Clients
<1> QED BY <1>1, <1>2 DEF Next, vars, Publish, Take, ConsumerStep, GetJob, MarkJob,
           ApplyProbeResult, FindServer, ApplyNodeStats, ReadJobs, StoreBatch, ReadLink,
           SaveLink, FindAccount, Ack, Interrupted

\* Old links only grow, new ones that vanish are watched, and so are new clients.
LEMMA GapStep == LinkInv /\ GapInv /\ [Next]_vars => GapInv'
<1> SUFFICES ASSUME LinkInv, GapInv, [Next]_vars PROVE GapInv' OBVIOUS
<1>0. request \in [Requests -> Request] /\ profile \in [Clients -> ProfileStatuses]
  BY DEF LinkInv, TypeOK
<1>1. CASE UNCHANGED vars BY <1>1 DEF vars, GapInv, AnyLink, LegacyLinks, VPNClient
<1>2. CASE Watch
  <2> SUFFICES ASSUME NEW r \in Requests
               PROVE  /\ request'[r].pc = "profiles" => request'[r].client \in Clients
                      /\ request'[r].pc = "profiles" => profile'[request'[r].client] # "absent"
                      /\ /\ request'[r].pc # "idle"
                         /\ \/ (~AnyLink)'
                            \/ request'[r].pc = "legacy" /\ LegacyLinks' = {}
                            \/ /\ request'[r].pc = "profiles" /\ LegacyLinks' = {}
                               /\ request'[r].client # VPNClient'
                         => request'[r].gap
    BY DEF GapInv
  <2>1. request'[r].pc = request[r].pc /\ request'[r].client = request[r].client
    BY <1>0, <1>2 DEF Watch, Request
  <2>2. /\ request[r].pc = "profiles" => request'[r].client \in Clients
        /\ request[r].pc = "profiles" => profile'[request'[r].client] # "absent"
    BY <2>1, NewClient DEF GapInv
  <2>3. ASSUME request[r].pc # "idle", (~AnyLink)' \/ request[r].gap PROVE request'[r].gap
    BY <1>0, <1>2, <2>3 DEF Watch, Request
  <2>4. LegacyLinks' = {} => LegacyLinks = {} BY LinksGrow
  <2>5. ASSUME request[r].pc = "profiles", LegacyLinks' = {},
               request[r].client # VPNClient'
        PROVE  request'[r].gap
    <3>1. CASE request[r].client # VPNClient BY <2>3, <2>4, <2>5, <3>1 DEF GapInv
    <3>2. CASE request[r].client = VPNClient
      <4>1. VPNClient # None BY <2>5, <3>2, VPNLinksAssumption DEF GapInv, Clients
      <4>2. profile'["own"] = "pending" BY <2>5, <3>2, <4>1, NewClient
      <4>3. (~AnyLink)' BY <2>5, <4>2 DEF AnyLink
      <4> QED BY <2>3, <2>5, <4>3
    <3> QED BY <3>1, <3>2
  <2>6. ASSUME request[r].pc = "legacy", LegacyLinks' = {} PROVE request'[r].gap
    BY <2>3, <2>4, <2>6 DEF GapInv
  <2> QED BY <2>1, <2>2, <2>3, <2>5, <2>6
<1>3. ASSUME NEW q \in Requests, RequestStep(q),
             UNCHANGED <<jobTables, vpn, profile, queue, consumer, faults>>
      PROVE  GapInv'
  <2>1. /\ AnyLink' <=> AnyLink
        /\ LegacyLinks' = LegacyLinks /\ VPNClient' = VPNClient /\ profile' = profile
    BY <1>3 DEF AnyLink, LegacyLinks, VPNClient
  <2>2. \A r \in Requests \ {q} : request'[r] = request[r]
    BY <1>0, <1>3 DEF RequestStep, BeginRequest, ReadClient, ReadProfiles, EndRequest
  <2> DEFINE Told == /\ request'[q].pc = "profiles" =>
                          /\ request'[q].client \in Clients
                          /\ profile[request'[q].client] # "absent"
                     /\ /\ request'[q].pc # "idle"
                        /\ \/ ~AnyLink
                           \/ request'[q].pc = "legacy" /\ LegacyLinks = {}
                           \/ /\ request'[q].pc = "profiles" /\ LegacyLinks = {}
                              /\ request'[q].client # VPNClient
                        => request'[q].gap
  <2>3. Told
    <3>1. CASE BeginRequest(q) BY <1>0, <3>1 DEF BeginRequest
    <3>2. CASE ReadClient(q)
      <4>1. /\ request[q].pc = "client" /\ request'[q].client = VPNClient
            /\ request'[q].pc = IF VPNClient = None THEN "legacy" ELSE "profiles"
            /\ request'[q].gap = request[q].gap
        BY <1>0, <3>2 DEF ReadClient, Request
      <4>2. ~AnyLink => request[q].gap BY <4>1 DEF GapInv
      <4>3. VPNClient = None /\ LegacyLinks = {} => ~AnyLink
        BY <1>0, VPNLinksAssumption DEF VPNClient, AnyLink
      <4>4. VPNClient # None => VPNClient \in Clients /\ profile[VPNClient] # "absent"
        BY DEF VPNClient, Clients
      <4> QED BY <4>1, <4>2, <4>3, <4>4
    <3>3. CASE ReadProfiles(q)
      <4>1. CASE profile[request[q].client] = "usable"
        BY <1>0, <3>3, <4>1 DEF ReadProfiles, IdleRequest
      <4>2. CASE profile[request[q].client] # "usable"
        <5>1. /\ request[q].pc = "profiles" /\ request'[q].pc = "legacy"
              /\ request'[q].gap = request[q].gap
          BY <1>0, <3>3, <4>2 DEF ReadProfiles, Request
        <5>2. ASSUME request[q].client = VPNClient, LegacyLinks = {} PROVE ~AnyLink
          <6>1. profile[VPNClient] # "usable" /\ VPNClient \in Clients
            BY <4>2, <5>1, <5>2 DEF GapInv
          <6> QED BY <5>2, <6>1, VPNLinksAssumption DEF VPNClient, AnyLink, Clients
        <5> QED BY <5>1, <5>2 DEF GapInv
      <4> QED BY <4>1, <4>2
    <3>4. CASE EndRequest(q) BY <1>0, <3>4 DEF EndRequest, IdleRequest
    <3> QED BY <1>3, <3>1, <3>2, <3>3, <3>4 DEF RequestStep
  <2> HIDE DEF Told
  <2> QED BY <2>1, <2>2, <2>3 DEF GapInv, Told
<1> QED BY <1>1, <1>2, <1>3 DEF Next

\* "My VPN" denies a link only to a user for whom, at some moment meanwhile, there was none to
\* show: no usable profile of the first client, and no old link.
THEOREM DenialIsTrue == Spec => NeverDeniesALink
<1>1. Init => GapInv BY DEF Init, GapInv, IdleRequest
<1>2. LinkInv /\ GapInv /\ [Next]_vars => [\A r \in Requests : Denies(r) => request[r].gap]_vars
  BY DEF GapInv, Denies
<1> QED BY <1>1, <1>2, GapStep, LinkInvariant, PTL DEF Spec, NeverDeniesALink

-----------------------------------------------------------------------------
(***************************************************************************)
(* Acknowledged results have had their effects                             *)
(***************************************************************************)

\* The states of the consumer once it has marked the job, and once it has
\* stored the status of the batch.
Marked  == {"probe", "find", "stats", "jobs", "batch", "link", "save", "account"}
Counted == {"link", "save", "account", "ack"}

\* A server of which statistics are missing: their results stop half-way.
Exempt(j) == row[j].action = "collect_node_stats" /\ server = "missing"

\* What the consumer has done with the message it holds.
ProgressInv ==
    /\ consumer.pc # "idle" => consumer.result \in queue
    /\ consumer.pc \in Marked => job[consumer.result.job] = ResultStatus
    /\ consumer.pc \in {"find", "stats"} => Row.action = "collect_node_stats"
    /\ consumer.pc = "probe" => Row.action = "probe_node"
    /\ consumer.pc = "batch" => consumer.batch = CalculateBatchStatus(Row.batch)
    /\ consumer.pc \in Counted =>
          \/ job[consumer.result.job] = "none" \/ Exempt(consumer.result.job)
          \/ batch[Row.batch] = CalculateBatchStatus(Row.batch)
    /\ consumer.pc = "account" => Row.protocol \in LegacyLinks
    /\ consumer.pc = "ack" /\ Row.action = "create_client"
          /\ job[consumer.result.job] = "success" => Row.protocol \in LegacyLinks

\* The two properties, with what the consumer has in hand.
HandledInv == ProgressInv /\ SuccessHasLink /\ BatchFollowsJobs

\* A marked job has a row, and a status that is a result.
LEMMA ResultStatusType == ResultStatus \in {"success", "failed"}
BY DEF ResultStatus

\* The jobs of a batch and their results are the same while no status changes.
LEMMA SameJobs ==
    ASSUME row' = row, job' = job
    PROVE  \A b : JobsOf(b)' = JobsOf(b) /\ CalculateBatchStatus(b)' = CalculateBatchStatus(b)
BY DEF JobsOf, CalculateBatchStatus

\* Marking a job only changes what its own batch is computed from.
LEMMA OtherBatches ==
    ASSUME NEW j \in Jobs, NEW st, row' = row, job \in [Jobs -> JobStatuses],
           job' = [job EXCEPT ![j] = st], st # "none",
           NEW b, row[j].batch # b
    PROVE  /\ JobsOf(b)' = JobsOf(b)
           /\ \A i \in JobsOf(b) : job'[i] = job[i]
           /\ CalculateBatchStatus(b)' = CalculateBatchStatus(b)
<1>1. JobsOf(b)' = JobsOf(b) BY DEF JobsOf
<1>2. \A i \in JobsOf(b) : job'[i] = job[i] BY DEF JobsOf
<1> DEFINE success == {i \in JobsOf(b) : job[i] = "success"}
           failed  == {i \in JobsOf(b) : job[i] \in {"failed", "superseded"}}
           Of(js, s, f) == CASE js = {} -> "pending"
                             [] js # s \cup f -> "processing"
                             [] js # {} /\ js = s -> "success"
                             [] js # {} /\ js = f -> "failed"
                             [] OTHER -> "partial_success"
<1>3. success' = success /\ failed' = failed BY <1>1, <1>2
<1>4. CalculateBatchStatus(b) = Of(JobsOf(b), success, failed) BY DEF CalculateBatchStatus
<1>5. CalculateBatchStatus(b)' = Of(JobsOf(b)', success', failed') BY DEF CalculateBatchStatus
<1> HIDE DEF success, failed, Of
<1> QED BY <1>1, <1>2, <1>3, <1>4, <1>5

\* A missing server stays missing, and none goes missing.
LEMMA ServerStays ==
    ASSUME LinkInv, [Next]_vars
    PROVE  server' = "missing" <=> server = "missing"
<1>1. CASE ApplyProbeResult \/ ApplyNodeStats
  <2>1. consumer.result \in Result
    BY <1>1, RowType DEF ApplyProbeResult, ApplyNodeStats
  <2> QED BY <1>1, <2>1 DEF ApplyProbeResult, ApplyNodeStats, SetServer, StateOf, Outcome, Result
<1> QED BY <1>1 DEF Next, vars, Publish, Take, ConsumerStep, GetJob, MarkJob, Ignore,
           FindServer, ReadJobs, StoreBatch, ReadLink, SaveLink,
           FindAccount, Ack, Interrupted, ChangeProfile, jobTables

\* A step that leaves jobs alone and takes no message away keeps both properties.
LEMMA QuietStep ==
    ASSUME LinkInv, HandledInv, [Next]_vars, row' = row, job' = job, queue \subseteq queue',
           batch' = batch
    PROVE  SuccessHasLink' /\ BatchFollowsJobs'
<1>1. \A j : Settled(j)' => Settled(j) BY DEF Settled
<1>2. LegacyLinks \subseteq LegacyLinks' BY LinksGrow
<1>3. SuccessHasLink' BY <1>1, <1>2 DEF HandledInv, SuccessHasLink
<1>4. BatchFollowsJobs' BY <1>1, SameJobs, ServerStays DEF HandledInv, BatchFollowsJobs
<1> QED BY <1>3, <1>4

\* Taking, marking and acknowledging apart, the consumer takes nothing away.
LEMMA ConsumerHandles ==
    LinkInv /\ HandledInv /\ ConsumerStep /\ Watch => HandledInv'
<1> SUFFICES ASSUME LinkInv, HandledInv, ConsumerStep, Watch PROVE HandledInv' OBVIOUS
<1>0. /\ consumer \in Consumer /\ vpn \in Links \cup {None} /\ job \in [Jobs -> JobStatuses]
      /\ batch \in [Batches -> BatchStatuses] /\ ProgressInv /\ [Next]_vars
      /\ consumer.pc # "idle" /\ row' = row
  BY DEF LinkInv, TypeOK, HandledInv, Next, ConsumerStep, GetJob, MarkJob, ApplyProbeResult,
         FindServer, ApplyNodeStats, ReadJobs, StoreBatch, ReadLink, SaveLink, FindAccount, Ack,
         jobTables, Ignore
<1>1. /\ consumer.result \in Result /\ consumer.result.job \in Jobs
      /\ Row.batch \in Batches /\ Row.protocol \in Protocols /\ Row.action \in Actions
      /\ consumer.result \in queue
  BY <1>0, RowType DEF ProgressInv
<1>g. ASSUME NEW pc \in {"idle", "get", "mark", "probe", "find", "stats",
              "jobs", "batch", "link", "save", "account", "ack"}, consumer' = Goto(pc)
      PROVE  consumer'.pc = pc /\ consumer'.result = consumer.result /\ Row' = Row
  BY <1>0, <1>g, GotoType DEF Row
<1>2. CASE GetJob
  <2>1. CASE job[consumer.result.job] = "none"
    <3>1. consumer' = Goto("ack") /\ job' = job /\ queue' = queue /\ batch' = batch
      BY <1>2, <2>1 DEF GetJob, Ignore, jobTables
    <3>2. ProgressInv'
      BY <1>0, <1>1, <1>g, <2>1, <3>1 DEF ProgressInv, Marked, Counted
    <3> QED BY <1>0, <3>1, <3>2, QuietStep DEF HandledInv
  <2>2. CASE job[consumer.result.job] # "none"
    <3>1. consumer' = Goto("mark") /\ job' = job /\ queue' = queue /\ batch' = batch
      BY <1>2, <2>2 DEF GetJob, jobTables
    <3>2. ProgressInv' BY <1>1, <1>g, <3>1 DEF ProgressInv, Marked, Counted
    <3> QED BY <1>0, <3>1, <3>2, QuietStep DEF HandledInv
  <2> QED BY <2>1, <2>2
<1>3. CASE MarkJob
  <2>0. /\ job' = [job EXCEPT ![consumer.result.job] = ResultStatus]
        /\ queue' = queue /\ batch' = batch /\ vpn' = vpn /\ server' = server
    BY <1>3 DEF MarkJob
  <2>1. /\ Row.action = "probe_node" => consumer' = Goto("probe")
        /\ Row.action = "collect_node_stats" => consumer' = Goto("find")
        /\ Row.action = "create_client" => consumer' = Goto("jobs")
    BY <1>3 DEF MarkJob
  <2>2. job'[consumer.result.job] = ResultStatus BY <1>0, <1>1, <2>0
  <2>3. ProgressInv'
    <3>1. consumer'.result = consumer.result /\ Row' = Row /\ consumer'.pc \in {"probe", "find", "jobs"}
          /\ (consumer'.pc = "find" => Row.action = "collect_node_stats")
          /\ (consumer'.pc = "probe" => Row.action = "probe_node")
      BY <1>1, <1>g, <2>1 DEF Actions
    <3>2. ResultStatus' = ResultStatus BY <3>1 DEF ResultStatus, Outcome
    <3> QED BY <1>1, <2>0, <2>2, <3>1, <3>2 DEF ProgressInv, Counted
  <2>4. \A j : Settled(j)' => j # consumer.result.job BY <1>1, <2>0 DEF Settled
  <2>5. SuccessHasLink'
    <3> SUFFICES ASSUME NEW j \in Jobs, (row[j].action = "create_client")',
                        job'[j] = "success", Settled(j)'
                 PROVE  row[j].protocol \in LegacyLinks'
      BY <1>0 DEF SuccessHasLink
    <3>1. job[j] = "success" /\ Settled(j) BY <1>0, <1>1, <2>0, <2>4 DEF Settled
    <3> QED BY <1>0, <2>0, <3>1 DEF HandledInv, SuccessHasLink, LegacyLinks
  <2>6. BatchFollowsJobs'
    <3> SUFFICES ASSUME NEW b \in Batches,
                        \A j \in JobsOf(b)' : Settled(j)',
                        \E j \in JobsOf(b)' : job'[j] \in {"success", "failed"},
                        ~\E j \in JobsOf(b)' : row[j].action = "collect_node_stats" /\ server = "missing"
                 PROVE  batch[b] = CalculateBatchStatus(b)'
      BY <1>0, <2>0 DEF BatchFollowsJobs
    <3>1. Row.batch # b
      <4>1. Row.batch = b => consumer.result.job \in JobsOf(b)'
        BY <1>0, <1>1, <2>2, ResultStatusType DEF JobsOf, Row
      <4> QED BY <2>4, <4>1
    <3>2. /\ JobsOf(b)' = JobsOf(b) /\ CalculateBatchStatus(b)' = CalculateBatchStatus(b)
          /\ \A i \in JobsOf(b) : job'[i] = job[i]
      BY <1>0, <1>1, <2>0, <3>1, OtherBatches, ResultStatusType DEF Row
    <3>3. \A j \in JobsOf(b) : Settled(j) BY <2>0, <3>2 DEF Settled
    <3> QED BY <3>2, <3>3 DEF HandledInv, BatchFollowsJobs
  <2> QED BY <2>3, <2>5, <2>6 DEF HandledInv
<1>4. CASE ApplyProbeResult \/ ApplyNodeStats
  <2>1. consumer' = Goto("jobs") /\ job' = job /\ queue' = queue /\ batch' = batch
    BY <1>4 DEF ApplyProbeResult, ApplyNodeStats
  <2>2. job[consumer.result.job] = ResultStatus
    BY <1>0, <1>4 DEF ApplyProbeResult, ApplyNodeStats, ProgressInv, Marked
  <2>3. ResultStatus' = ResultStatus BY <1>g, <2>1 DEF ResultStatus, Outcome
  <2>4. ProgressInv' BY <1>1, <1>g, <2>1, <2>2, <2>3 DEF ProgressInv, Counted
  <2> QED BY <1>0, <2>1, <2>4, QuietStep DEF HandledInv
<1>5. CASE FindServer
  <2>1. /\ job' = job /\ queue' = queue /\ batch' = batch /\ server' = server
        /\ consumer' = IF server = "missing" THEN Goto("ack") ELSE Goto("stats")
    BY <1>5 DEF FindServer, jobTables, Ignore
  <2>2. Row.action = "collect_node_stats" /\ job[consumer.result.job] = ResultStatus
    BY <1>0, <1>5 DEF FindServer, ProgressInv, Marked
  <2>3. server = "missing" => Exempt(consumer.result.job)'
    BY <1>0, <1>g, <2>1, <2>2 DEF Exempt, Row
  <2>4. ResultStatus' = ResultStatus BY <1>g, <2>1 DEF ResultStatus, Outcome
  <2>5. /\ consumer'.pc = (IF server = "missing" THEN "ack" ELSE "stats")
        /\ consumer'.result = consumer.result /\ Row' = Row
    BY <1>g, <2>1
  <2>6. ProgressInv' BY <1>1, <2>1, <2>2, <2>3, <2>4, <2>5 DEF ProgressInv, Counted, Exempt
  <2> QED BY <1>0, <2>1, <2>6, QuietStep DEF HandledInv
<1>6. CASE ReadJobs
  <2>1. /\ job' = job /\ queue' = queue /\ batch' = batch
        /\ consumer' = [consumer EXCEPT !.pc = "batch", !.batch = CalculateBatchStatus(Row.batch)]
    BY <1>6 DEF ReadJobs, jobTables
  <2>2. /\ consumer'.pc = "batch" /\ consumer'.result = consumer.result /\ Row' = Row
        /\ consumer'.batch = CalculateBatchStatus(Row.batch)
    BY <1>0, <2>1 DEF Consumer, Row
  <2>3. ResultStatus' = ResultStatus BY <2>2 DEF ResultStatus, Outcome
  <2>4. job[consumer.result.job] = ResultStatus BY <1>0, <1>6 DEF ReadJobs, ProgressInv, Marked
  <2>5. CalculateBatchStatus(Row.batch)' = CalculateBatchStatus(Row.batch)
    BY <1>0, <2>1, <2>2, SameJobs
  <2>6. ProgressInv' BY <1>1, <2>1, <2>2, <2>3, <2>4, <2>5 DEF ProgressInv, Counted
  <2> QED BY <1>0, <2>1, <2>6, QuietStep DEF HandledInv
<1>7. CASE StoreBatch
  <2>1. /\ batch' = [batch EXCEPT ![Row.batch] = consumer.batch] /\ job' = job
        /\ queue' = queue /\ vpn' = vpn /\ server' = server /\ consumer.pc = "batch"
        /\ \/ consumer' = Goto("link")
           \/ consumer' = Goto("ack") /\ ~(Row.action = "create_client" /\ ResultStatus = "success")
    BY <1>7 DEF StoreBatch
  <2>2. /\ consumer'.pc \in {"link", "ack"} /\ consumer'.result = consumer.result /\ Row' = Row
        /\ consumer'.pc = "ack" => ~(Row.action = "create_client" /\ ResultStatus = "success")
    BY <1>g, <2>1
  <2>3. /\ job[consumer.result.job] = ResultStatus \/ consumer'.pc = "ack"
        /\ batch'[Row.batch] = CalculateBatchStatus(Row.batch)
        /\ consumer.batch = CalculateBatchStatus(Row.batch)
    BY <1>0, <1>1, <2>1 DEF ProgressInv, Marked
  <2>4. job[consumer.result.job] = ResultStatus BY <1>0, <2>1 DEF ProgressInv, Marked
  <2>5. ResultStatus' = ResultStatus BY <2>2 DEF ResultStatus, Outcome
  <2>6. CalculateBatchStatus(Row.batch)' = CalculateBatchStatus(Row.batch)
    BY <1>0, <2>1, <2>2, SameJobs
  <2>7. ProgressInv'
    BY <1>1, <2>1, <2>2, <2>3, <2>4, <2>5, <2>6 DEF ProgressInv, Marked
  <2>8. SuccessHasLink'
    BY <1>0, <2>1 DEF HandledInv, SuccessHasLink, Settled, LegacyLinks
  <2>9. BatchFollowsJobs'
    <3> SUFFICES ASSUME NEW b \in Batches,
                        \A j \in JobsOf(b)' : Settled(j)',
                        \E j \in JobsOf(b)' : job'[j] \in {"success", "failed"},
                        ~\E j \in JobsOf(b)' : row[j].action = "collect_node_stats" /\ server = "missing"
                 PROVE  batch'[b] = CalculateBatchStatus(b)'
      BY <1>0, <2>1 DEF BatchFollowsJobs
    <3>1. JobsOf(b)' = JobsOf(b) /\ CalculateBatchStatus(b)' = CalculateBatchStatus(b)
      BY <1>0, <2>1, SameJobs
    <3>2. \A j \in JobsOf(b) : Settled(j) BY <2>1, <3>1 DEF Settled
    <3>3. batch[b] = CalculateBatchStatus(b)
      BY <2>1, <3>1, <3>2 DEF HandledInv, BatchFollowsJobs
    <3> QED BY <1>0, <2>1, <2>3, <3>1, <3>3
  <2> QED BY <2>7, <2>8, <2>9 DEF HandledInv
<1>8. CASE ReadLink
  <2>1. /\ job' = job /\ queue' = queue /\ batch' = batch /\ server' = server
        /\ consumer.pc = "link"
        /\ consumer' = IF Outcome = "success" THEN [consumer EXCEPT !.pc = "save", !.vpn = vpn]
                                              ELSE IdleConsumer
    BY <1>8 DEF ReadLink, WithoutLink, jobTables
  <2>2. ProgressInv'
    <3>1. CASE Outcome = "success"
      <4>1. consumer'.pc = "save" /\ consumer'.result = consumer.result /\ Row' = Row
        BY <1>0, <2>1, <3>1 DEF Consumer, Row
      <4>2. ResultStatus' = ResultStatus BY <4>1 DEF ResultStatus, Outcome
      <4>3. CalculateBatchStatus(Row.batch)' = CalculateBatchStatus(Row.batch)
        BY <1>0, <2>1, <4>1, SameJobs
      <4> QED BY <1>0, <1>1, <2>1, <4>1, <4>2, <4>3 DEF ProgressInv, Marked, Counted, Exempt
    <3>2. CASE Outcome # "success"
      BY <2>1, <3>2 DEF ProgressInv, Marked, Counted, IdleConsumer
    <3> QED BY <3>1, <3>2
  <2> QED BY <1>0, <2>1, <2>2, QuietStep DEF HandledInv
<1>9. CASE SaveLink
  <2>1. /\ job' = job /\ queue' = queue /\ batch' = batch /\ server' = server
        /\ consumer.pc = "save" /\ consumer' = Goto("account")
        /\ vpn' = UpsertedLinks(consumer.vpn, Row.protocol)
    BY <1>9 DEF SaveLink, jobTables
  <2>2. consumer'.pc = "account" /\ consumer'.result = consumer.result /\ Row' = Row
    BY <1>g, <2>1
  <2>3. Row.protocol \in LegacyLinks'
    BY <1>0, <1>1, <2>1, VPNLinksAssumption DEF UpsertedLinks, LegacyLinks, Consumer, Links
  <2>4. ResultStatus' = ResultStatus BY <2>2 DEF ResultStatus, Outcome
  <2>5. CalculateBatchStatus(Row.batch)' = CalculateBatchStatus(Row.batch)
    BY <1>0, <2>1, <2>2, SameJobs
  <2>6. ProgressInv'
    BY <1>0, <1>1, <2>1, <2>2, <2>3, <2>4, <2>5 DEF ProgressInv, Marked, Counted, Exempt
  <2> QED BY <1>0, <2>1, <2>6, QuietStep DEF HandledInv
<1>10. CASE FindAccount
  <2>1. /\ job' = job /\ queue' = queue /\ batch' = batch /\ server' = server /\ vpn' = vpn
        /\ consumer.pc = "account" /\ consumer' = Goto("ack")
    BY <1>10 DEF FindAccount, jobTables
  <2>2. consumer'.pc = "ack" /\ consumer'.result = consumer.result /\ Row' = Row
    BY <1>g, <2>1
  <2>3. CalculateBatchStatus(Row.batch)' = CalculateBatchStatus(Row.batch)
    BY <1>0, <2>1, <2>2, SameJobs
  <2>4. ProgressInv'
    BY <1>0, <1>1, <2>1, <2>2, <2>3 DEF ProgressInv, Marked, Counted, Exempt, LegacyLinks
  <2> QED BY <1>0, <2>1, <2>4, QuietStep DEF HandledInv
<1>11. CASE Ack
  <2>1. /\ job' = job /\ batch' = batch /\ server' = server /\ vpn' = vpn
        /\ queue' = queue \ {consumer.result} /\ consumer.pc = "ack" /\ consumer' = IdleConsumer
    BY <1>11 DEF Ack, jobTables
  <2>2. ProgressInv' BY <2>1 DEF ProgressInv, Marked, Counted, IdleConsumer
  <2>3. \A j : Settled(j)' => Settled(j) \/ j = consumer.result.job
    BY <2>1 DEF Settled
  <2>4. SuccessHasLink'
    <3> SUFFICES ASSUME NEW j \in Jobs, row[j].action = "create_client",
                        job[j] = "success", Settled(j)'
                 PROVE  row[j].protocol \in LegacyLinks
      BY <1>0, <2>1 DEF SuccessHasLink, LegacyLinks
    <3>1. CASE Settled(j) BY <3>1 DEF HandledInv, SuccessHasLink
    <3>2. CASE j = consumer.result.job BY <1>0, <2>1, <3>2 DEF ProgressInv, Row
    <3> QED BY <2>3, <3>1, <3>2
  <2>5. BatchFollowsJobs'
    <3> SUFFICES ASSUME NEW b \in Batches,
                        \A j \in JobsOf(b)' : Settled(j)',
                        \E j \in JobsOf(b)' : job[j] \in {"success", "failed"},
                        ~\E j \in JobsOf(b)' : row[j].action = "collect_node_stats" /\ server = "missing"
                 PROVE  batch[b] = CalculateBatchStatus(b)'
      BY <1>0, <2>1 DEF BatchFollowsJobs
    <3>1. JobsOf(b)' = JobsOf(b) /\ CalculateBatchStatus(b)' = CalculateBatchStatus(b)
      BY <1>0, <2>1, SameJobs
    <3>2. CASE consumer.result.job \in JobsOf(b)
      <4>1. Row.batch = b /\ job[consumer.result.job] # "none" /\ ~Exempt(consumer.result.job)
        BY <3>1, <3>2 DEF JobsOf, Row, Exempt
      <4> QED BY <1>0, <2>1, <3>1, <4>1 DEF ProgressInv, Counted
    <3>3. CASE consumer.result.job \notin JobsOf(b)
      BY <2>3, <3>1, <3>3 DEF HandledInv, BatchFollowsJobs
    <3> QED BY <3>2, <3>3
  <2> QED BY <2>2, <2>4, <2>5 DEF HandledInv
<1> QED BY <1>2, <1>3, <1>4, <1>5, <1>6, <1>7, <1>8, <1>9, <1>10, <1>11 DEF ConsumerStep

\* Every other step leaves jobs, batches and old links alone.
LEMMA HandledStep == LinkInv /\ HandledInv /\ [Next]_vars => HandledInv'
<1> SUFFICES ASSUME LinkInv, HandledInv, [Next]_vars PROVE HandledInv' OBVIOUS
<1>0. ProgressInv BY DEF HandledInv
<1>1. CASE ConsumerStep /\ Watch BY <1>1, ConsumerHandles
<1>2. ASSUME UNCHANGED <<jobTables, vpn>>, queue \subseteq queue',
             \/ consumer' = consumer
             \/ consumer'.pc = "idle"
             \/ consumer'.pc = "get" /\ consumer'.result \in queue
      PROVE  HandledInv'
  <2>1. row' = row /\ job' = job /\ batch' = batch /\ server' = server BY <1>2 DEF jobTables
  <2>2. CASE consumer' = consumer
    <3>1. Row' = Row /\ ResultStatus' = ResultStatus /\ LegacyLinks' = LegacyLinks
      BY <1>2, <2>1, <2>2 DEF Row, ResultStatus, Outcome, LegacyLinks
    <3>2. CalculateBatchStatus(Row.batch)' = CalculateBatchStatus(Row.batch)
      BY <2>1, <3>1, SameJobs
    <3>3. ProgressInv'
      BY <1>0, <1>2, <2>1, <2>2, <3>1, <3>2 DEF ProgressInv, Exempt
    <3> QED BY <1>2, <2>1, <3>3, QuietStep DEF HandledInv
  <2>3. CASE consumer'.pc = "idle" \/ (consumer'.pc = "get" /\ consumer'.result \in queue)
    <3>1. ProgressInv' BY <1>2, <2>3 DEF ProgressInv, Marked, Counted
    <3> QED BY <1>2, <2>1, <3>1, QuietStep DEF HandledInv
  <2> QED BY <1>2, <2>2, <2>3
<1>3. CASE UNCHANGED vars BY <1>2, <1>3 DEF vars, jobTables
<1>4. ASSUME NEW m \in Result, Publish(m) PROVE HandledInv' BY <1>2, <1>4 DEF Publish
<1>5. ASSUME NEW m \in queue, Take(m) PROVE HandledInv'
  <2>1. consumer'.pc = "get" /\ consumer'.result = m BY <1>5 DEF Take, IdleConsumer
  <2> QED BY <1>2, <1>5, <2>1 DEF Take
<1>6. CASE Interrupted BY <1>2, <1>6 DEF Interrupted, AfterFailure, IdleConsumer
<1>7. CASE ChangeProfile BY <1>2, <1>7 DEF ChangeProfile
<1>8. CASE UNCHANGED <<jobTables, vpn, profile, queue, consumer, faults>>
  BY <1>2, <1>8
<1> QED BY <1>1, <1>3, <1>4, <1>5, <1>6, <1>7, <1>8 DEF Next

\* The invariant holds of every reachable state.
LEMMA Handled == Spec => []HandledInv
<1>1. Init => HandledInv
  <2> SUFFICES ASSUME Init PROVE HandledInv OBVIOUS
  <2>1. ProgressInv BY DEF Init, ProgressInv, IdleConsumer, Marked, Counted
  <2>2. \A j \in Jobs : job[j] \notin {"success", "failed"} BY DEF Init
  <2>3. SuccessHasLink BY <2>2 DEF SuccessHasLink
  <2>4. BatchFollowsJobs BY <2>2 DEF BatchFollowsJobs, JobsOf
  <2> QED BY <2>1, <2>3, <2>4 DEF HandledInv
<1> QED BY <1>1, HandledStep, LinkInvariant, PTL DEF Spec

\* No acknowledged success of a create job is without its link, through failures,
\* crashes and redelivered results.
THEOREM LinkIsNotLost == Spec => []SuccessHasLink
<1>1. HandledInv => SuccessHasLink BY DEF HandledInv
<1> QED BY <1>1, Handled, PTL

\* A batch is up to date once the results of its jobs are acknowledged.
THEOREM BatchIsNotLost == Spec => []BatchFollowsJobs
<1>1. HandledInv => BatchFollowsJobs BY DEF HandledInv
<1> QED BY <1>1, Handled, PTL
=============================================================================
