--------------------------- MODULE TelegramBotProofs ---------------------------
(* Theorems about TelegramBot, for every set of accounts, texts and goroutines. *)
EXTENDS TelegramBot, TLAPS

USE DEF Statuses, Answers

-----------------------------------------------------------------------------
(***************************************************************************)
(* What a goroutine knows in each of its states                            *)
(***************************************************************************)

Looking    == {"find", "create", "find_again", "handle"}
Personal   == Looking \cup {"insert", "upload", "photo", "created", "close", "confirm",
                            "notify", "state", "lookup", "answered", "forget"}
OfARow     == {"upload", "photo", "created", "close", "confirm", "notify", "lookup",
               "store", "check", "publish", "answered", "deliver"}
Answering  == {"publish", "answered", "deliver"}
Sending    == {"list", "send", "finish"}

\* The sender, the complaint and the draft are there where they are used; the bot's reply
\* has a text.
Equipped(r) ==
    /\ r.pc \in Personal => r.from \in TgIds
    /\ r.pc \in {"store", "check"} /\ r.kind \notin {"reply", "update"} => r.from \in TgIds
    /\ r.pc \in Looking /\ r.kind \in AdminKinds => r.from \in Admins
    /\ r.pc \in Looking /\ r.kind = "dialog" => r.complaint \in Complaints
    /\ r.pc \in OfARow => r.complaint \in Complaints
    /\ r.pc = "lookup" => r.text \in Texts
    /\ r.pc = "store" /\ r.kind \notin PanelKinds => r.text \in Texts
    /\ r.pc \in Sending => r.from \in Admins /\ r.draft \in Drafts
    /\ r.pc \notin Sending => r.draft = None

\* The complaint of an open dialog is known.
ModeInv == \A t \in TgIds : mode[t].kind = "reply" => mode[t].complaint \in Complaints

BotTypes ==
    /\ TypeOK
    /\ \A w \in Workers : Equipped(worker[w])
    /\ ModeInv
    /\ OneUserPerAccount

\* A row that was never inserted is empty; a reply in a row was stored, and when anything was
\* stored for a complaint, there is a row, and what it holds was stored too.
RowInv(c) ==
    /\ complaint[c].status = "none" => complaint[c] = NoComplaint
    /\ complaint[c].reply # None => <<c, complaint[c].reply>> \in stored
    /\ \A x \in Answers : <<c, x>> \in stored =>
          complaint[c].status # "none" /\ <<c, complaint[c].reply>> \in stored

\* A goroutine's reply is for the author of its complaint, or for nobody.
Addressed(r) ==
    /\ <<r.complaint, r.text>> \in stored
    /\ r.to \in {complaint[r.complaint].author, None}

\* What was sent to somebody is a stored reply to the author.
Sent(r) ==
    \/ r.to = None /\ r.complaint = None
    \/ <<r.complaint, r.text>> \in stored /\ r.to = complaint[r.complaint].author

\* On its way to the author the reply is stored before it is sent.
AnswerInv(w) ==
    /\ worker[w].pc \in {"store", "check"} => complaint[worker[w].complaint].status # "none"
    /\ worker[w].pc = "check" /\ Exists(worker[w].complaint)
          => <<worker[w].complaint, worker[w].text>> \in stored
    /\ worker[w].pc \in Answering => <<worker[w].complaint, worker[w].text>> \in stored
    /\ worker[w].pc \in {"answered", "deliver"} => Addressed(worker[w])

ReplyInv ==
    /\ \A c \in Complaints : RowInv(c)
    /\ \A w \in Workers : AnswerInv(w)
    /\ \A r \in delivered : Sent(r)

\* A draft is kept for one admin, and sent in the name of the admin who keeps it.
\* One that was confirmed once is sent by one goroutine, to everybody once, and
\* as long as it is kept only that goroutine has sent it.
DraftInv ==
    /\ \A a, b \in Admins : draft[a] = draft[b] /\ draft[a] # None => a = b
    /\ \A a \in Admins, w \in Workers :
          draft[a] = worker[w].draft /\ draft[a] # None => worker[w].from = a

SentInv(d) ==
    /\ \A v, w \in Workers : worker[v].draft = d /\ worker[w].draft = d => v = w
    /\ \A w \in Workers, t \in TgIds :
          /\ worker[w].draft = d
          /\ worker[w].pc = "list" \/ t \in worker[w].left
          => heard[d][t] = 0
    /\ \A a \in Admins, t \in TgIds :
          draft[a] = d /\ heard[d][t] > 0 => \E w \in Workers : worker[w].draft = d
    /\ \A t \in TgIds : heard[d][t] <= 1

BroadcastInv == DraftInv /\ \A d \in Drafts \ overlapped : SentInv(d)

BotInv == BotTypes /\ ReplyInv /\ BroadcastInv

-----------------------------------------------------------------------------
(***************************************************************************)
(* Type correctness                                                        *)
(***************************************************************************)

PCs == {"idle", "find", "create", "find_again", "handle", "insert", "upload", "photo",
        "created", "close", "confirm", "notify", "state", "lookup", "store", "check",
        "publish", "answered", "deliver", "forget", "list", "send", "finish"}

\* The state of the goroutines has its type after the step.
WorkersKept == worker' \in [Workers -> Worker] /\ \A v \in Workers : Equipped(worker'[v])

\* A goroutine that holds a reply is one.
LEMMA HoldingAReply ==
    ASSUME NEW r \in Worker, NEW pc \in PCs, NEW to \in TgIds \cup {None},
           NEW x \in Answers
    PROVE  [r EXCEPT !.pc = pc, !.to = to, !.text = x] \in Worker
<1>1. Worker = [pc: PCs, kind: BotKinds \cup PanelKinds \cup {"dialog", None},
                from: TgIds \cup {None}, complaint: Complaints \cup {None},
                text: Answers, to: TgIds \cup {None},
                draft: Drafts \cup {None}, left: SUBSET TgIds]
  BY DEF Worker, PCs
<1> QED BY <1>1

LEMMA IdleEquipped == IdleWorker \in Worker /\ Equipped(IdleWorker)
BY DEF IdleWorker, Worker, Equipped, Personal, Looking, OfARow, Sending

\* One goroutine goes on with what it needs.
LEMMA Moves ==
    ASSUME BotTypes, NEW w \in Workers, NEW r \in Worker, Equipped(r),
           worker' = [worker EXCEPT ![w] = r]
    PROVE  WorkersKept
<1>1. worker \in [Workers -> Worker] /\ \A v \in Workers : Equipped(worker[v])
  BY DEF BotTypes, TypeOK
<1>2. worker' \in [Workers -> Worker] BY <1>1
<1>3. \A v \in Workers : worker'[v] = IF v = w THEN r ELSE worker[v] BY <1>1
<1> QED BY <1>1, <1>2, <1>3 DEF WorkersKept

LEMMA EndMoves == ASSUME BotTypes, NEW w \in Workers, End(w) PROVE WorkersKept
BY IdleEquipped, Moves DEF End

\* A goroutine whose next state needs no more than it has.
LEMMA GotoMoves ==
    ASSUME BotTypes, NEW w \in Workers, NEW pc \in PCs, Goto(w, pc),
           pc \in Personal \cup {"store", "check"} => worker[w].pc \in Personal
               \/ (worker[w].pc \in {"store", "check"} /\ pc = "check"),
           pc \in Looking => worker[w].pc \in Looking,
           pc \in OfARow => worker[w].pc \in OfARow,
           pc = "lookup" => FALSE,
           pc = "store" => worker[w].pc = "lookup",
           pc \in Sending <=> worker[w].pc \in Sending
    PROVE  WorkersKept
<1>1. worker[w] \in Worker /\ Equipped(worker[w]) BY DEF BotTypes, TypeOK
<1> DEFINE r == [worker[w] EXCEPT !.pc = pc]
<1>2. r \in Worker BY <1>1 DEF Worker, PCs
<1>3. /\ r.pc = pc /\ r.from = worker[w].from /\ r.complaint = worker[w].complaint
      /\ r.kind = worker[w].kind /\ r.text = worker[w].text /\ r.draft = worker[w].draft
  BY <1>1 DEF Worker
<1>4. worker' = [worker EXCEPT ![w] = r] BY DEF Goto
<1> HIDE DEF r
<1>5. Equipped(r) BY <1>1, <1>3 DEF Equipped, Personal, Looking, OfARow, Sending
<1> QED BY <1>2, <1>4, <1>5, Moves

\* The tables, the memory and the history have their types after the step.
TablesKept ==
    /\ account' \in [TgIds -> Account] /\ OneUserPerAccount'
    /\ complaint' \in [Complaints -> Complaint]
    /\ updates' \in 0..MaxUpdates
MemoryKept ==
    /\ mode' \in [TgIds -> Mode] /\ ModeInv'
    /\ draft' \in [Admins -> Drafts \cup {None}]
HistoryKept ==
    /\ announced' \subseteq Complaints
    /\ stored' \subseteq Complaints \X Answers
    /\ delivered' \subseteq
         [to : TgIds \cup {None}, complaint : Complaints \cup {None}, text : Answers]
    /\ heard' \in [Drafts -> [TgIds -> Nat]]
    /\ overlapped' \subseteq Drafts

LEMMA Unchanged ==
    ASSUME BotTypes
    PROVE  /\ UNCHANGED <<tables, updates>> => TablesKept
           /\ UNCHANGED memory => MemoryKept
           /\ UNCHANGED history => HistoryKept
BY DEF BotTypes, TypeOK, tables, memory, history, TablesKept, MemoryKept, HistoryKept,
       OneUserPerAccount, ModeInv

LEMMA BotTypesKept == WorkersKept /\ TablesKept /\ MemoryKept /\ HistoryKept => BotTypes'
BY DEF WorkersKept, TablesKept, MemoryKept, HistoryKept, BotTypes, TypeOK

FindSteps(w) ==
    \/ Receive(w) \/ PressReply(w) \/ FindAccount(w) \/ CreateAccount(w) \/ FindAgain(w)

WriteSteps(w) ==
    \/ OpenMode(w) \/ RouteMessage(w) \/ Cancel(w) \/ Forget(w)
    \/ InsertComplaint(w) \/ Upload(w) \/ SetPhoto(w) \/ Created(w)
    \/ CloseDialog(w) \/ Confirm(w) \/ NotifyAdmins(w)

AnswerSteps(w) ==
    \/ ReadState(w) \/ LookUp(w) \/ StoreReply(w) \/ CheckReply(w)
    \/ ReadRecipient(w) \/ CloseReply(w) \/ Deliver(w)

BroadcastSteps(w) ==
    \/ WriteDraft(w) \/ TakeDraft(w) \/ ListUsers(w) \/ SendBroadcast(w)
    \/ FinishBroadcast(w) \/ Discard(w)

PanelSteps == CreateInPanel \/ DeleteComplaint \/ Crash

LEMMA Steps ==
    Next <=> \/ \E w \in Workers : \/ FindSteps(w) \/ WriteSteps(w)
                                  \/ AnswerSteps(w) \/ BroadcastSteps(w)
             \/ PanelSteps
BY DEF Next, FindSteps, WriteSteps, AnswerSteps, BroadcastSteps, PanelSteps

LEMMA FindTypes == ASSUME BotTypes, NEW w \in Workers, FindSteps(w) PROVE BotTypes'
<1>0. /\ account \in [TgIds -> Account] /\ OneUserPerAccount
      /\ complaint \in [Complaints -> Complaint] /\ updates \in 0..MaxUpdates
      /\ worker[w] \in Worker /\ Equipped(worker[w]) /\ announced \subseteq Complaints
  BY DEF BotTypes, TypeOK
<1>1. UNCHANGED <<complaint, memory, history>>
  BY DEF FindSteps, Receive, PressReply, FindAccount, CreateAccount, FindAgain, tables
<1>2. MemoryKept /\ HistoryKept BY <1>1, Unchanged
<1>3. updates' \in 0..MaxUpdates
  <2>1. updates' = updates \/ (updates < MaxUpdates /\ updates' = updates + 1)
    <3>1. CASE Receive(w) BY <3>1 DEF Receive
    <3>2. CASE PressReply(w) BY <3>2 DEF PressReply
    <3>3. CASE FindAccount(w) \/ CreateAccount(w) \/ FindAgain(w)
      BY <3>3 DEF FindAccount, CreateAccount, FindAgain
    <3> QED BY <3>1, <3>2, <3>3 DEF FindSteps
  <2> QED BY <1>0, <2>1, TelegramBotAssumption
<1>4. account' \in [TgIds -> Account] /\ OneUserPerAccount'
  <2>1. CASE UNCHANGED account BY <1>0, <2>1 DEF OneUserPerAccount
  <2>2. CASE CreateAccount(w)
    <3>1. PICK t \in TgIds : account' = [account EXCEPT ![t] = Insertion(account[t])]
                             \/ UNCHANGED account
      BY <1>0, <2>2 DEF CreateAccount, Equipped, Personal, Looking, At
    <3>2. CASE account' = [account EXCEPT ![t] = Insertion(account[t])]
      <4>1. account[t] \in Account /\ account[t].users = account[t].telegrams
        BY <1>0 DEF OneUserPerAccount
      <4>2. /\ Insertion(account[t]) \in Account
            /\ Insertion(account[t]).users = Insertion(account[t]).telegrams
        BY <4>1 DEF Insertion, Account
      <4> QED BY <1>0, <3>2, <4>2 DEF OneUserPerAccount
    <3> QED BY <3>1, <3>2, <2>1
  <2>3. CASE Receive(w) \/ PressReply(w) \/ FindAccount(w) \/ FindAgain(w)
    BY <2>1, <2>3 DEF Receive, PressReply, FindAccount, FindAgain, tables
  <2> QED BY <2>2, <2>3 DEF FindSteps
<1>5. WorkersKept
  <2>1. CASE Receive(w)
    <3>1. ASSUME NEW t \in TgIds, NEW k \in BotKinds, k \in AdminKinds => t \in Admins,
                 worker' = [worker EXCEPT ![w] = [IdleWorker EXCEPT
                              !.pc = "find", !.kind = k, !.from = t]]
          PROVE  WorkersKept
      <4> DEFINE r == [IdleWorker EXCEPT !.pc = "find", !.kind = k, !.from = t]
      <4>1. r \in Worker BY DEF IdleWorker, Worker
      <4>2. Equipped(r)
        BY <3>1 DEF IdleWorker, Equipped, Personal, Looking, OfARow, Sending, BotKinds
      <4> QED BY <3>1, <4>1, <4>2, Moves
    <3>2. ASSUME NEW t \in TgIds, NEW k \in {"post", "post_photo"},
                 worker' = [worker EXCEPT ![w] = [IdleWorker EXCEPT
                              !.pc = "insert", !.kind = k, !.from = t]]
          PROVE  WorkersKept
      <4> DEFINE r == [IdleWorker EXCEPT !.pc = "insert", !.kind = k, !.from = t]
      <4>1. r \in Worker BY DEF IdleWorker, Worker, PanelKinds
      <4>2. Equipped(r) BY DEF IdleWorker, Equipped, Personal, Looking, OfARow, Sending
      <4> QED BY <3>2, <4>1, <4>2, Moves
    <3>3. ASSUME NEW c \in Complaints, NEW x \in Answers, NEW k \in {"reply", "update"},
                 worker' = [worker EXCEPT ![w] = [IdleWorker EXCEPT
                              !.pc = "store", !.kind = k, !.complaint = c, !.text = x]]
          PROVE  WorkersKept
      <4> DEFINE r == [IdleWorker EXCEPT !.pc = "store", !.kind = k, !.complaint = c,
                                         !.text = x]
      <4>1. r \in Worker BY DEF IdleWorker, Worker, PanelKinds
      <4>2. Equipped(r)
        BY DEF IdleWorker, Equipped, Personal, Looking, OfARow, Sending, PanelKinds
      <4> QED BY <3>3, <4>1, <4>2, Moves
    <3> QED BY <2>1, <3>1, <3>2, <3>3 DEF Receive
  <2>2. CASE PressReply(w)
    <3>1. PICK a \in Admins, c \in announced :
             worker' = [worker EXCEPT ![w] = [IdleWorker EXCEPT
                          !.pc = "find", !.kind = "dialog", !.from = a, !.complaint = c]]
      BY <2>2 DEF PressReply
    <3>2. a \in TgIds /\ c \in Complaints BY <1>0, TelegramBotAssumption
    <3> DEFINE r == [IdleWorker EXCEPT !.pc = "find", !.kind = "dialog", !.from = a,
                                       !.complaint = c]
    <3>3. r \in Worker BY <3>2 DEF IdleWorker, Worker
    <3>4. Equipped(r) BY <3>2 DEF IdleWorker, Equipped, Personal, Looking, OfARow, Sending
    <3> QED BY <3>1, <3>3, <3>4, Moves
  <2>3. CASE FindAccount(w) \/ CreateAccount(w) \/ FindAgain(w)
    <3>1. /\ worker[w].pc \in Looking
          /\ End(w) \/ \E pc \in Looking : Goto(w, pc)
      BY <2>3 DEF FindAccount, CreateAccount, FindAgain, At, Looking
    <3>2. \A pc \in Looking : pc \in PCs /\ pc \in Personal /\ pc \notin OfARow
                               /\ pc \notin {"lookup", "store"} /\ pc \notin Sending
      BY DEF Looking, PCs, Personal, OfARow, Sending
    <3>3. ASSUME NEW pc \in Looking, Goto(w, pc) PROVE WorkersKept
      <4>1. /\ pc \in PCs /\ pc \notin OfARow /\ pc # "lookup" /\ pc # "store"
            /\ pc \notin Sending /\ worker[w].pc \in Personal /\ worker[w].pc \notin Sending
        BY <3>1, <3>2
      <4> QED BY <3>1, <3>3, <4>1, GotoMoves
    <3> QED BY <3>1, <3>3, EndMoves
  <2> QED BY <2>1, <2>2, <2>3 DEF FindSteps
<1> QED BY <1>0, <1>1, <1>2, <1>3, <1>4, <1>5, BotTypesKept DEF TablesKept

LEMMA WriteTypes == ASSUME BotTypes, NEW w \in Workers, WriteSteps(w) PROVE BotTypes'
<1>0. /\ complaint \in [Complaints -> Complaint] /\ mode \in [TgIds -> Mode] /\ ModeInv
      /\ worker[w] \in Worker /\ Equipped(worker[w]) /\ announced \subseteq Complaints
  BY DEF BotTypes, TypeOK
<1>1. UNCHANGED <<account, updates, draft, replies, broadcasts>>
  <2>1. CASE OpenMode(w) \/ RouteMessage(w) \/ Cancel(w) \/ Forget(w)
    BY <2>1 DEF OpenMode, RouteMessage, Cancel, Forget, tables, memory, history, replies,
                broadcasts
  <2>2. CASE InsertComplaint(w) \/ Upload(w) \/ SetPhoto(w) \/ Created(w)
    BY <2>2 DEF InsertComplaint, Upload, SetPhoto, Created, tables, memory, history, replies,
                broadcasts
  <2>3. CASE CloseDialog(w) \/ Confirm(w) \/ NotifyAdmins(w)
    BY <2>3 DEF CloseDialog, Confirm, NotifyAdmins, tables, memory, history, replies,
                broadcasts
  <2> QED BY <2>1, <2>2, <2>3 DEF WriteSteps
<1>2. complaint' \in [Complaints -> Complaint]
  <2>1. CASE InsertComplaint(w)
    <3>1. ASSUME NEW c \in Complaints,
                 complaint' = [complaint EXCEPT ![c] =
                    [NoComplaint EXCEPT !.status = "new", !.author = worker[w].from]]
          PROVE  complaint' \in [Complaints -> Complaint]
      <4>1. worker[w].from \in TgIds BY <1>0, <2>1 DEF InsertComplaint, At, Equipped, Personal
      <4>2. [NoComplaint EXCEPT !.status = "new", !.author = worker[w].from] \in Complaint
        BY <4>1 DEF NoComplaint, Complaint
      <4> QED BY <1>0, <3>1, <4>2
    <3> QED BY <1>0, <2>1, <3>1 DEF InsertComplaint
  <2>2. CASE SetPhoto(w)
    <3>1. complaint' = WithPhoto(worker[w].complaint) /\ worker[w].complaint \in Complaints
      BY <1>0, <2>2 DEF SetPhoto, At, Equipped, OfARow
    <3>2. [complaint[worker[w].complaint] EXCEPT !.photo = TRUE] \in Complaint
      BY <1>0, <3>1 DEF Complaint
    <3> QED BY <1>0, <3>1, <3>2 DEF WithPhoto
  <2>3. CASE UNCHANGED complaint BY <1>0, <2>3
  <2>4. CASE \/ OpenMode(w) \/ RouteMessage(w) \/ Cancel(w) \/ Forget(w) \/ Upload(w)
             \/ Created(w) \/ CloseDialog(w) \/ Confirm(w) \/ NotifyAdmins(w)
    BY <2>3, <2>4 DEF OpenMode, RouteMessage, Cancel, Forget, Upload, Created, CloseDialog,
                      Confirm, NotifyAdmins, tables
  <2> QED BY <2>1, <2>2, <2>4 DEF WriteSteps
<1>3. announced' \subseteq Complaints
  <2>1. CASE NotifyAdmins(w)
    BY <1>0, <2>1 DEF NotifyAdmins, At, Equipped, OfARow
  <2>2. CASE \/ OpenMode(w) \/ RouteMessage(w) \/ Cancel(w) \/ Forget(w)
             \/ InsertComplaint(w) \/ Upload(w) \/ SetPhoto(w) \/ Created(w)
             \/ CloseDialog(w) \/ Confirm(w)
    BY <1>0, <2>2 DEF OpenMode, RouteMessage, Cancel, Forget, InsertComplaint, Upload,
                      SetPhoto, Created, CloseDialog, Confirm, history
  <2> QED BY <2>1, <2>2 DEF WriteSteps
<1>4. mode' \in [TgIds -> Mode] /\ ModeInv'
  <2>1. ASSUME NEW t \in TgIds, NEW m \in Mode, mode' = [mode EXCEPT ![t] = m],
               m.kind = "reply" => m.complaint \in Complaints
        PROVE  mode' \in [TgIds -> Mode] /\ ModeInv'
    BY <1>0, <2>1 DEF ModeInv
  <2>2. NoMode \in Mode /\ NoMode.kind # "reply" BY DEF NoMode, Mode
  <2>3. CASE OpenMode(w)
    <3>1. worker[w].pc = "handle" /\ worker[w].from \in TgIds
      BY <1>0, <2>3 DEF OpenMode, At, Equipped, Personal, Looking
    <3>2. CASE worker[w].kind = "start"
      <4>1. mode' = mode BY <2>3, <3>2 DEF OpenMode
      <4> QED BY <1>0, <4>1 DEF ModeInv
    <3>3. CASE worker[w].kind = "support"
      <4>1. mode' = [mode EXCEPT ![worker[w].from] = [kind |-> "support", complaint |-> None]]
        BY <2>3, <3>3 DEF OpenMode
      <4> QED BY <2>1, <3>1, <4>1 DEF Mode
    <3>4. CASE worker[w].kind = "dialog"
      <4>1. mode' = [mode EXCEPT ![worker[w].from] =
                       [kind |-> "reply", complaint |-> worker[w].complaint]]
        BY <2>3, <3>4 DEF OpenMode
      <4>2. worker[w].complaint \in Complaints BY <1>0, <3>1, <3>4 DEF Equipped, Looking
      <4> QED BY <2>1, <3>1, <4>1, <4>2 DEF Mode
    <3> QED BY <2>3, <3>2, <3>3, <3>4 DEF OpenMode
  <2>4. CASE Forget(w) \/ CloseDialog(w)
    <3>1. worker[w].from \in TgIds /\ mode' = [mode EXCEPT ![worker[w].from] = NoMode]
      BY <1>0, <2>4 DEF Forget, CloseDialog, At, Equipped, Personal
    <3> QED BY <2>1, <2>2, <3>1
  <2>5. CASE UNCHANGED mode BY <1>0, <2>5 DEF ModeInv
  <2>6. CASE \/ RouteMessage(w) \/ Cancel(w) \/ InsertComplaint(w) \/ Upload(w) \/ SetPhoto(w)
             \/ Created(w) \/ Confirm(w) \/ NotifyAdmins(w)
    BY <2>5, <2>6 DEF RouteMessage, Cancel, InsertComplaint, Upload, SetPhoto, Created, Confirm,
                      NotifyAdmins, memory
  <2> QED BY <2>3, <2>4, <2>6 DEF WriteSteps
<1>5. WorkersKept
  <2>1. CASE InsertComplaint(w)
    <3>1. CASE End(w) BY <3>1, EndMoves
    <3>2. ASSUME NEW c \in Complaints,
                 worker' = [worker EXCEPT
                    ![w].pc = IF HasPhoto(w) THEN "upload" ELSE "created",
                    ![w].complaint = c]
          PROVE  WorkersKept
      <4> DEFINE pc == IF HasPhoto(w) THEN "upload" ELSE "created"
                 r == [worker[w] EXCEPT !.pc = pc, !.complaint = c]
      <4>0. pc \in {"upload", "created"} /\ worker' = [worker EXCEPT ![w] = r] BY <3>2
      <4> HIDE DEF pc
      <4>1. worker[w].pc = "insert" BY <2>1 DEF InsertComplaint, At
      <4>2. /\ r \in Worker /\ r.pc \in {"upload", "created"} /\ r.complaint = c
            /\ r.from = worker[w].from /\ r.draft = worker[w].draft
        BY <1>0, <4>0 DEF Worker
      <4> HIDE DEF r
      <4>4. Equipped(r)
        BY <1>0, <4>1, <4>2 DEF Equipped, Personal, Looking, OfARow, Sending
      <4> QED BY <4>0, <4>2, <4>4, Moves
    <3> QED BY <2>1, <3>1, <3>2 DEF InsertComplaint
  <2>2. ASSUME NEW pc \in {"insert", "state", "forget"}, Goto(w, pc), worker[w].pc = "handle"
        PROVE  WorkersKept
    BY <2>2, GotoMoves DEF PCs, Personal, Looking, OfARow, Sending
  <2>3. ASSUME NEW pc \in {"photo", "created", "close", "confirm", "notify"}, Goto(w, pc),
               worker[w].pc \in {"upload", "photo", "created", "close", "confirm"}
        PROVE  WorkersKept
    BY <2>3, GotoMoves DEF PCs, Personal, Looking, OfARow, Sending
  <2>4. CASE OpenMode(w) \/ Forget(w) \/ NotifyAdmins(w)
    BY <2>4, EndMoves DEF OpenMode, Forget, NotifyAdmins
  <2>5. CASE RouteMessage(w) BY <2>2, <2>5, EndMoves DEF RouteMessage, At
  <2>6. CASE Cancel(w) BY <2>2, <2>6, EndMoves DEF Cancel, At
  <2>7. CASE Upload(w) \/ SetPhoto(w) \/ Created(w) \/ CloseDialog(w) \/ Confirm(w)
    BY <2>3, <2>7, EndMoves DEF Upload, SetPhoto, Created, CloseDialog, Confirm, At
  <2> QED BY <2>1, <2>4, <2>5, <2>6, <2>7 DEF WriteSteps
<1>6. TablesKept
  BY <1>1, <1>2 DEF TablesKept, BotTypes, TypeOK, OneUserPerAccount
<1>7. MemoryKept BY <1>1, <1>4 DEF MemoryKept, BotTypes, TypeOK
<1>8. HistoryKept BY <1>1, <1>3 DEF HistoryKept, BotTypes, TypeOK, replies, broadcasts
<1> QED BY <1>5, <1>6, <1>7, <1>8, BotTypesKept

LEMMA AnswerTypes == ASSUME BotTypes, NEW w \in Workers, AnswerSteps(w) PROVE BotTypes'
<1>0. /\ complaint \in [Complaints -> Complaint] /\ mode \in [TgIds -> Mode] /\ ModeInv
      /\ worker[w] \in Worker /\ Equipped(worker[w]) /\ stored \subseteq Complaints \X Answers
      /\ delivered \subseteq
         [to : TgIds \cup {None}, complaint : Complaints \cup {None}, text : Answers]
  BY DEF BotTypes, TypeOK
<1>1. UNCHANGED <<account, updates, draft, announced, broadcasts>>
  BY DEF AnswerSteps, ReadState, LookUp, StoreReply, CheckReply, ReadRecipient, CloseReply,
         Deliver, tables, memory, history, broadcasts
<1>2. complaint' \in [Complaints -> Complaint] /\ stored' \subseteq Complaints \X Answers
  <2>1. CASE StoreReply(w)
    <3>1. worker[w].complaint \in Complaints /\ worker[w].text \in Answers
      BY <1>0, <2>1 DEF StoreReply, At, Equipped, OfARow, Worker
    <3>2. ASSUME NEW status \in {"new", "resolved"},
                 complaint' = [complaint EXCEPT ![worker[w].complaint].status = status,
                                                ![worker[w].complaint].reply = worker[w].text]
          PROVE  complaint' \in [Complaints -> Complaint]
      <4> DEFINE r == [complaint[worker[w].complaint] EXCEPT !.status = status,
                                                             !.reply = worker[w].text]
      <4>0. complaint[worker[w].complaint] \in Complaint BY <1>0, <3>1
      <4>1. r \in Complaint BY <3>1, <4>0 DEF Complaint
      <4>2. complaint' = [complaint EXCEPT ![worker[w].complaint] = r] BY <3>2
      <4> HIDE DEF r
      <4> QED BY <1>0, <4>1, <4>2
    <3>3. CASE Exists(worker[w].complaint)
      <4>1. stored' = stored \cup {<<worker[w].complaint, worker[w].text>>}
        BY <2>1, <3>3 DEF StoreReply
      <4>2. PICK status \in {"new", "resolved"} :
                 complaint' = [complaint EXCEPT ![worker[w].complaint].status = status,
                                                ![worker[w].complaint].reply = worker[w].text]
        BY <2>1, <3>3 DEF StoreReply
      <4>3. complaint' \in [Complaints -> Complaint] BY <3>2, <4>2
      <4> QED BY <1>0, <3>1, <4>1, <4>3
    <3>4. CASE ~Exists(worker[w].complaint) BY <1>0, <2>1, <3>4 DEF StoreReply
    <3> QED BY <3>3, <3>4
  <2>2. CASE \/ ReadState(w) \/ LookUp(w) \/ CheckReply(w) \/ ReadRecipient(w)
             \/ CloseReply(w) \/ Deliver(w)
    BY <1>0, <2>2 DEF ReadState, LookUp, CheckReply, ReadRecipient, CloseReply, Deliver,
                      tables, history
  <2> QED BY <2>1, <2>2 DEF AnswerSteps
<1>3. delivered' \subseteq
         [to : TgIds \cup {None}, complaint : Complaints \cup {None}, text : Answers]
  <2>1. CASE Deliver(w)
    <3>1. Reply(w) \in [to : TgIds \cup {None}, complaint : Complaints \cup {None},
                        text : Answers]
      BY <1>0 DEF Reply, Worker
    <3> QED BY <1>0, <2>1, <3>1 DEF Deliver
  <2>2. CASE \/ ReadState(w) \/ LookUp(w) \/ StoreReply(w) \/ CheckReply(w)
             \/ ReadRecipient(w) \/ CloseReply(w)
    BY <1>0, <2>2 DEF ReadState, LookUp, StoreReply, CheckReply, ReadRecipient, CloseReply,
                      history
  <2> QED BY <2>1, <2>2 DEF AnswerSteps
<1>4. mode' \in [TgIds -> Mode] /\ ModeInv'
  <2>1. CASE UNCHANGED mode BY <1>0, <2>1 DEF ModeInv
  <2>2. CASE CloseReply(w)
    <3>1. worker[w].from \in TgIds /\ mode' = [mode EXCEPT ![worker[w].from] = NoMode]
      BY <1>0, <2>2 DEF CloseReply, At, Equipped, Personal
    <3>2. NoMode \in Mode /\ NoMode.kind # "reply" BY DEF NoMode, Mode
    <3> QED BY <1>0, <3>1, <3>2 DEF ModeInv
  <2>3. CASE \/ ReadState(w) \/ LookUp(w) \/ StoreReply(w) \/ CheckReply(w)
             \/ ReadRecipient(w) \/ Deliver(w)
    BY <2>1, <2>3 DEF ReadState, LookUp, StoreReply, CheckReply, ReadRecipient, Deliver, memory
  <2> QED BY <2>2, <2>3 DEF AnswerSteps
<1>5. WorkersKept
  <2>1. CASE ReadState(w)
    <3>0. worker[w].pc = "state" BY <2>1 DEF ReadState, At
    <3>1. CASE mode[worker[w].from].kind # "reply"
      <4>1. Goto(w, "forget") BY <2>1, <3>1 DEF ReadState
      <4> QED BY <3>0, <4>1, GotoMoves DEF PCs, Personal, Looking, OfARow, Sending
    <3>2. CASE mode[worker[w].from].kind = "reply"
      <4>1. PICK x \in Texts :
               worker' = [worker EXCEPT ![w].pc = "lookup",
                            ![w].complaint = mode[worker[w].from].complaint, ![w].text = x]
        BY <2>1, <3>2 DEF ReadState
      <4>2. worker[w].from \in TgIds BY <1>0, <3>0 DEF Equipped, Personal
      <4>3. mode[worker[w].from].complaint \in Complaints BY <1>0, <3>2, <4>2 DEF ModeInv
      <4> DEFINE r == [worker[w] EXCEPT !.pc = "lookup",
                         !.complaint = mode[worker[w].from].complaint, !.text = x]
      <4>4. /\ r \in Worker /\ r.pc = "lookup" /\ r.complaint \in Complaints /\ r.text = x
            /\ r.from = worker[w].from /\ r.draft = worker[w].draft
        BY <1>0, <4>3 DEF Worker
      <4>5. worker' = [worker EXCEPT ![w] = r] BY <4>1
      <4> HIDE DEF r
      <4>6. Equipped(r)
        BY <1>0, <3>0, <4>4 DEF Equipped, Personal, Looking, OfARow, Sending
      <4> QED BY <4>4, <4>5, <4>6, Moves
    <3> QED BY <3>1, <3>2
  <2>2. ASSUME NEW pc \in {"store", "check", "deliver"}, Goto(w, pc),
               worker[w].pc = CASE pc = "store" -> "lookup"
                                [] pc = "check" -> "store"
                                [] OTHER -> "answered"
        PROVE  WorkersKept
    BY <2>2, GotoMoves DEF PCs, Personal, Looking, OfARow, Sending
  <2>3. CASE LookUp(w) BY <2>2, <2>3, EndMoves DEF LookUp, At
  <2>4. CASE StoreReply(w) BY <2>2, <2>4 DEF StoreReply, At
  <2>5. CASE CloseReply(w) BY <2>2, <2>5 DEF CloseReply, At
  <2>6. CASE Deliver(w) BY <2>6, EndMoves DEF Deliver
  <2>7. ASSUME NEW r \in Worker, worker' = [worker EXCEPT ![w] = r],
               r.pc \in Answering, worker[w].pc \in {"check", "publish"},
               r.complaint = worker[w].complaint, r.from = worker[w].from,
               r.draft = worker[w].draft,
               r.pc = "answered" => worker[w].from \in TgIds
        PROVE  WorkersKept
    <3>1. Equipped(r)
      BY <1>0, <2>7 DEF Equipped, Personal, Looking, OfARow, Sending, Answering
    <3> QED BY <2>7, <3>1, Moves
  <2>8. CASE CheckReply(w)
    <3>1. CASE End(w) BY <3>1, EndMoves
    <3>2. CASE worker' = [worker EXCEPT
               ![w].pc = CASE worker[w].kind = "reply"  -> "publish"
                           [] worker[w].kind = "update" -> "deliver"
                           [] OTHER -> "answered",
               ![w].to = complaint[worker[w].complaint].author,
               ![w].text = IF worker[w].kind = "update"
                           THEN complaint[worker[w].complaint].reply ELSE @]
      <4> DEFINE pc == CASE worker[w].kind = "reply"  -> "publish"
                         [] worker[w].kind = "update" -> "deliver"
                         [] OTHER -> "answered"
                 x == IF worker[w].kind = "update"
                      THEN complaint[worker[w].complaint].reply ELSE worker[w].text
                 to == complaint[worker[w].complaint].author
                 r == [worker[w] EXCEPT !.pc = pc, !.to = to, !.text = x]
      <4>0. worker' = [worker EXCEPT ![w] = r] BY <3>2
      <4>1. worker[w].pc = "check" /\ worker[w].complaint \in Complaints
        BY <1>0, <2>8 DEF CheckReply, At, Equipped, OfARow
      <4>2. pc \in Answering /\ (pc = "answered" => worker[w].kind \notin {"reply", "update"})
        BY DEF Answering
      <4>3. x \in Answers /\ to \in TgIds \cup {None}
        BY <1>0, <4>1 DEF Worker, Complaint
      <4>4. pc = "answered" => worker[w].from \in TgIds BY <1>0, <4>1, <4>2 DEF Equipped
      <4> HIDE DEF pc, x, to
      <4>5. /\ r.pc = pc /\ r.complaint = worker[w].complaint
            /\ r.from = worker[w].from /\ r.draft = worker[w].draft
        BY <1>0 DEF Worker
      <4>6. pc \in PCs BY <4>2 DEF Answering, PCs
      <4>7. r \in Worker BY <1>0, <4>3, <4>6, HoldingAReply
      <4> HIDE DEF r
      <4> QED BY <2>7, <4>0, <4>1, <4>2, <4>4, <4>5, <4>7
    <3> QED BY <2>8, <3>1, <3>2 DEF CheckReply
  <2>9. CASE ReadRecipient(w)
    <3>0. worker[w].pc = "publish" /\ worker[w].complaint \in Complaints
      BY <1>0, <2>9 DEF ReadRecipient, At, Equipped, OfARow
    <3>1. PICK to \in {AuthorOf(worker[w].complaint), None} :
             worker' = [worker EXCEPT ![w].pc = "deliver", ![w].to = to]
      BY <2>9 DEF ReadRecipient
    <3>2. to \in TgIds \cup {None} BY <1>0, <3>0 DEF AuthorOf, Complaint
    <3> DEFINE r == [worker[w] EXCEPT !.pc = "deliver", !.to = to]
    <3>3. /\ r \in Worker /\ r.pc = "deliver" /\ r.complaint = worker[w].complaint
          /\ r.from = worker[w].from /\ r.draft = worker[w].draft
      BY <1>0, <3>2 DEF Worker
    <3>4. worker' = [worker EXCEPT ![w] = r] BY <3>1
    <3> HIDE DEF r
    <3> QED BY <2>7, <3>0, <3>3, <3>4 DEF Answering
  <2> QED BY <2>1, <2>3, <2>4, <2>5, <2>6, <2>8, <2>9 DEF AnswerSteps
<1>6. TablesKept BY <1>1, <1>2 DEF TablesKept, BotTypes, TypeOK, OneUserPerAccount
<1>7. MemoryKept BY <1>1, <1>4 DEF MemoryKept, BotTypes, TypeOK
<1>8. HistoryKept BY <1>1, <1>2, <1>3 DEF HistoryKept, BotTypes, TypeOK, broadcasts
<1> QED BY <1>5, <1>6, <1>7, <1>8, BotTypesKept

LEMMA BroadcastTypes ==
    ASSUME BotTypes, NEW w \in Workers, BroadcastSteps(w) PROVE BotTypes'
<1>0. /\ draft \in [Admins -> Drafts \cup {None}] /\ heard \in [Drafts -> [TgIds -> Nat]]
      /\ overlapped \subseteq Drafts /\ worker[w] \in Worker /\ Equipped(worker[w])
  BY DEF BotTypes, TypeOK
<1>1. UNCHANGED <<tables, mode, updates, announced, replies>>
  <2>1. CASE WriteDraft(w) \/ TakeDraft(w) \/ ListUsers(w)
    BY <2>1 DEF WriteDraft, TakeDraft, ListUsers, tables, memory, history, replies
  <2>2. CASE SendBroadcast(w) \/ FinishBroadcast(w) \/ Discard(w)
    BY <2>2 DEF SendBroadcast, FinishBroadcast, Discard, tables, memory, history, replies
  <2> QED BY <2>1, <2>2 DEF BroadcastSteps
<1>2. draft' \in [Admins -> Drafts \cup {None}]
  <2>1. CASE WriteDraft(w)
    BY <1>0, <2>1 DEF WriteDraft
  <2>2. CASE FinishBroadcast(w) \/ Discard(w)
    BY <1>0, <2>2 DEF FinishBroadcast, Discard, WithoutDraft
  <2>3. CASE TakeDraft(w) \/ ListUsers(w) \/ SendBroadcast(w)
    BY <1>0, <2>3 DEF TakeDraft, ListUsers, SendBroadcast, memory
  <2> QED BY <2>1, <2>2, <2>3 DEF BroadcastSteps
<1>3. overlapped' \subseteq Drafts
  <2>1. CASE TakeDraft(w)
    <3>1. worker[w].from \in Admins
      BY <1>0, <2>1 DEF TakeDraft, At, Equipped, Looking, AdminKinds
    <3> QED BY <1>0, <2>1, <3>1 DEF TakeDraft
  <2>2. CASE \/ WriteDraft(w) \/ ListUsers(w) \/ SendBroadcast(w) \/ FinishBroadcast(w)
             \/ Discard(w)
    BY <1>0, <2>2 DEF WriteDraft, ListUsers, SendBroadcast, FinishBroadcast, Discard, history
  <2> QED BY <2>1, <2>2 DEF BroadcastSteps
<1>4. heard' \in [Drafts -> [TgIds -> Nat]]
  <2>1. CASE SendBroadcast(w)
    <3>1. PICK t \in worker[w].left :
             heard' \in {heard, [heard EXCEPT ![worker[w].draft][t] = @ + 1]}
      BY <2>1 DEF SendBroadcast
    <3>2. t \in TgIds BY <1>0 DEF Worker
    <3> QED BY <1>0, <3>1, <3>2
  <2>2. CASE \/ WriteDraft(w) \/ TakeDraft(w) \/ ListUsers(w) \/ FinishBroadcast(w)
             \/ Discard(w)
    BY <1>0, <2>2 DEF WriteDraft, TakeDraft, ListUsers, FinishBroadcast, Discard, history
  <2> QED BY <2>1, <2>2 DEF BroadcastSteps
<1>5. WorkersKept
  <2>1. CASE TakeDraft(w)
    <3>1. CASE draft[worker[w].from] = None BY <2>1, <3>1, EndMoves DEF TakeDraft
    <3>2. CASE draft[worker[w].from] # None
      <4>1. /\ worker[w].pc = "handle" /\ worker[w].from \in Admins
            /\ worker' = [worker EXCEPT ![w].pc = "list", ![w].draft = draft[worker[w].from]]
        BY <1>0, <2>1, <3>2 DEF TakeDraft, At, Equipped, Looking, AdminKinds
      <4>2. draft[worker[w].from] \in Drafts BY <1>0, <3>2, <4>1
      <4> DEFINE r == [worker[w] EXCEPT !.pc = "list", !.draft = draft[worker[w].from]]
      <4>3. /\ r \in Worker /\ r.pc = "list" /\ r.draft \in Drafts
            /\ r.from = worker[w].from
        BY <1>0, <4>2 DEF Worker
      <4>4. worker' = [worker EXCEPT ![w] = r] BY <4>1
      <4> HIDE DEF r
      <4>5. Equipped(r) BY <4>1, <4>3 DEF Equipped, Personal, Looking, OfARow, Sending
      <4> QED BY <4>3, <4>4, <4>5, Moves
    <3> QED BY <3>1, <3>2
  <2>2. ASSUME NEW r \in Worker, worker' = [worker EXCEPT ![w] = r],
               r.pc \in {"send", "finish"}, worker[w].pc \in Sending,
               r.from = worker[w].from, r.draft = worker[w].draft
        PROVE  WorkersKept
    <3>1. Equipped(r) BY <1>0, <2>2 DEF Equipped, Personal, Looking, OfARow, Sending
    <3> QED BY <2>2, <3>1, Moves
  <2>3. CASE ListUsers(w)
    <3>1. CASE End(w) BY <3>1, EndMoves
    <3>2. CASE worker' = [worker EXCEPT ![w].pc = "send",
                                        ![w].left = {t \in TgIds : Registered(t)}]
      <4> DEFINE all == {t \in TgIds : Registered(t)}
                 r == [worker[w] EXCEPT !.pc = "send", !.left = all]
      <4>1. all \subseteq TgIds /\ worker[w].pc \in Sending
            /\ worker' = [worker EXCEPT ![w] = r]
        BY <2>3, <3>2 DEF ListUsers, At, Sending
      <4> HIDE DEF all
      <4>2. /\ r \in Worker /\ r.pc = "send" /\ r.from = worker[w].from
            /\ r.draft = worker[w].draft
        BY <1>0, <4>1 DEF Worker
      <4> HIDE DEF r
      <4> QED BY <2>2, <4>1, <4>2
    <3> QED BY <2>3, <3>1, <3>2 DEF ListUsers
  <2>4. CASE SendBroadcast(w)
    <3>1. PICK t \in worker[w].left :
             worker' = [worker EXCEPT ![w].left = @ \ {t},
                          ![w].pc = IF worker[w].left = {t} THEN "finish" ELSE @]
      BY <2>4 DEF SendBroadcast
    <3>2. worker[w].pc = "send" BY <2>4 DEF SendBroadcast, At
    <3> DEFINE pc == IF worker[w].left = {t} THEN "finish" ELSE worker[w].pc
               rest == worker[w].left \ {t}
               r == [worker[w] EXCEPT !.left = rest, !.pc = pc]
    <3>3. /\ worker' = [worker EXCEPT ![w] = r] /\ pc \in {"send", "finish"}
          /\ rest \subseteq TgIds
      BY <1>0, <3>1, <3>2 DEF Worker
    <3> HIDE DEF pc, rest
    <3>4. /\ r \in Worker /\ r.pc = pc /\ r.from = worker[w].from
          /\ r.draft = worker[w].draft
      BY <1>0, <3>3 DEF Worker
    <3> HIDE DEF r
    <3> QED BY <2>2, <3>2, <3>3, <3>4 DEF Sending
  <2>5. CASE WriteDraft(w) \/ FinishBroadcast(w) \/ Discard(w)
    BY <2>5, EndMoves DEF WriteDraft, FinishBroadcast, Discard
  <2> QED BY <2>1, <2>3, <2>4, <2>5 DEF BroadcastSteps
<1>6. TablesKept BY <1>1 DEF TablesKept, BotTypes, TypeOK, OneUserPerAccount, tables
<1>7. MemoryKept BY <1>1, <1>2 DEF MemoryKept, BotTypes, TypeOK, ModeInv
<1>8. HistoryKept BY <1>1, <1>3, <1>4 DEF HistoryKept, BotTypes, TypeOK, replies
<1> QED BY <1>5, <1>6, <1>7, <1>8, BotTypesKept

LEMMA PanelTypes == ASSUME BotTypes, PanelSteps PROVE BotTypes'
<1>0. /\ complaint \in [Complaints -> Complaint] /\ updates \in 0..MaxUpdates
      /\ worker \in [Workers -> Worker] /\ \A w \in Workers : Equipped(worker[w])
      /\ mode \in [TgIds -> Mode] /\ ModeInv /\ draft \in [Admins -> Drafts \cup {None}]
  BY DEF BotTypes, TypeOK
<1>1. /\ UNCHANGED <<account, history>>
      /\ updates < MaxUpdates /\ updates' = updates + 1
  BY DEF PanelSteps, CreateInPanel, DeleteComplaint, Crash, tables
<1>2. complaint' \in [Complaints -> Complaint]
  <2>1. CASE CreateInPanel
    <3>1. PICK c \in Complaints, t \in TgIds : complaint' = [complaint EXCEPT ![c] =
             [NoComplaint EXCEPT !.status = "new", !.author = t]]
      BY <2>1 DEF CreateInPanel
    <3>2. [NoComplaint EXCEPT !.status = "new", !.author = t] \in Complaint
      BY DEF NoComplaint, Complaint
    <3> QED BY <1>0, <3>1, <3>2
  <2>2. CASE DeleteComplaint
    <3>1. PICK c \in Complaints : complaint' = [complaint EXCEPT ![c].status = "deleted"]
      BY <2>2 DEF DeleteComplaint
    <3>2. [complaint[c] EXCEPT !.status = "deleted"] \in Complaint BY <1>0 DEF Complaint
    <3> QED BY <1>0, <3>1, <3>2
  <2>3. CASE Crash BY <1>0, <2>3 DEF Crash, tables
  <2> QED BY <2>1, <2>2, <2>3 DEF PanelSteps
<1>3. MemoryKept
  <2>1. CASE CreateInPanel \/ DeleteComplaint
    BY <1>0, <2>1 DEF CreateInPanel, DeleteComplaint, memory, MemoryKept, ModeInv
  <2>2. CASE Crash
    <3>1. NoMode \in Mode /\ NoMode.kind # "reply" BY DEF NoMode, Mode
    <3> QED BY <2>2, <3>1 DEF Crash, MemoryKept, ModeInv
  <2> QED BY <2>1, <2>2 DEF PanelSteps
<1>4. WorkersKept
  <2>1. CASE CreateInPanel \/ DeleteComplaint
    BY <1>0, <2>1 DEF CreateInPanel, DeleteComplaint, WorkersKept
  <2>2. CASE Crash BY <2>2, IdleEquipped DEF Crash, WorkersKept
  <2> QED BY <2>1, <2>2 DEF PanelSteps
<1>5. updates' \in 0..MaxUpdates BY <1>0, <1>1, TelegramBotAssumption
<1>6. TablesKept BY <1>1, <1>2, <1>5 DEF TablesKept, BotTypes, TypeOK, OneUserPerAccount
<1>7. HistoryKept BY <1>1, Unchanged
<1> QED BY <1>3, <1>4, <1>6, <1>7, BotTypesKept

\* The types are inductive.
LEMMA TypesInit == Init => BotTypes
<1> SUFFICES ASSUME Init PROVE BotTypes OBVIOUS
<1>1. account \in [TgIds -> Account] /\ OneUserPerAccount
  <2>1. PICK n \in {0, 1} : account = [t \in TgIds |-> [users |-> n, telegrams |-> n]]
    BY DEF Init
  <2>2. [users |-> n, telegrams |-> n] \in Account BY DEF Account
  <2> QED BY <2>1, <2>2 DEF OneUserPerAccount
<1>2. complaint \in [Complaints -> Complaint] /\ announced \subseteq Complaints
  <2>1. PICK by \in [Complaints -> {None} \cup {t \in TgIds : account[t].users = 1}] :
            /\ complaint = [c \in Complaints |-> IF by[c] = None THEN NoComplaint
                     ELSE [NoComplaint EXCEPT !.status = "new", !.author = by[c]]]
            /\ announced = {c \in Complaints : by[c] # None}
    BY DEF Init
  <2>2. NoComplaint \in Complaint BY DEF NoComplaint, Complaint
  <2>3. \A c \in Complaints : by[c] # None =>
            [NoComplaint EXCEPT !.status = "new", !.author = by[c]] \in Complaint
    BY DEF NoComplaint, Complaint
  <2> QED BY <2>1, <2>2, <2>3
<1>3. mode \in [TgIds -> Mode] /\ ModeInv BY DEF Init, NoMode, Mode, ModeInv
<1>4. draft \in [Admins -> Drafts \cup {None}] /\ updates \in 0..MaxUpdates
  <2>1. draft = [a \in Admins |-> None] /\ updates = 0 BY DEF Init
  <2> QED BY <2>1, TelegramBotAssumption
<1>5. worker \in [Workers -> Worker] /\ \A w \in Workers : Equipped(worker[w])
  BY IdleEquipped DEF Init
<1>6. /\ stored \subseteq Complaints \X Answers /\ heard \in [Drafts -> [TgIds -> Nat]]
      /\ delivered = {} /\ overlapped \subseteq Drafts
  BY DEF Init
<1> QED BY <1>1, <1>2, <1>3, <1>4, <1>5, <1>6 DEF BotTypes, TypeOK

LEMMA TypesNext == BotTypes /\ [Next]_vars => BotTypes'
<1> SUFFICES ASSUME BotTypes, [Next]_vars PROVE BotTypes' OBVIOUS
<1>1. CASE Next BY <1>1, Steps, FindTypes, WriteTypes, AnswerTypes, BroadcastTypes, PanelTypes
<1>2. CASE UNCHANGED vars
  BY <1>2 DEF vars, BotTypes, TypeOK, ModeInv, OneUserPerAccount
<1> QED BY <1>1, <1>2

-----------------------------------------------------------------------------
(***************************************************************************)
(* Replies reach the author                                                *)
(***************************************************************************)

\* A row that is there keeps its author and stays deleted; stored replies are remembered.
RowsGrow ==
    /\ stored \subseteq stored'
    /\ \A c \in Complaints : complaint[c].status # "none" =>
          /\ complaint'[c].status # "none" /\ complaint'[c].author = complaint[c].author
          /\ complaint[c].status = "deleted" => complaint'[c].status = "deleted"

\* The complaint of a stored reply has a row.
LEMMA StoredHasRow ==
    ASSUME BotTypes, ReplyInv, NEW c, NEW x, <<c, x>> \in stored
    PROVE  c \in Complaints /\ x \in Answers /\ complaint[c].status # "none"
<1>1. c \in Complaints /\ x \in Answers BY DEF BotTypes, TypeOK
<1> QED BY <1>1 DEF ReplyInv, RowInv

\* What a goroutine knows of its reply stays true while the rows grow.
LEMMA AnswerStays ==
    ASSUME BotTypes, ReplyInv, RowsGrow, NEW w \in Workers, worker'[w] = worker[w]
    PROVE  AnswerInv(w)'
<1>1. AnswerInv(w) /\ Equipped(worker[w]) BY DEF ReplyInv, BotTypes
<1>2. worker[w].pc \in {"store", "check"} =>
        /\ worker[w].complaint \in Complaints
        /\ complaint[worker[w].complaint].status # "none"
  BY <1>1 DEF AnswerInv, Equipped, OfARow
<1>3. worker[w].pc \in {"store", "check"} =>
        /\ complaint'[worker[w].complaint].status # "none"
        /\ (complaint'[worker[w].complaint].status # "deleted"
                => complaint[worker[w].complaint].status # "deleted")
  BY <1>2 DEF RowsGrow
<1>4. /\ worker[w].pc = "check" /\ Exists(worker[w].complaint)'
      => <<worker[w].complaint, worker[w].text>> \in stored'
  <2> SUFFICES ASSUME worker[w].pc = "check", Exists(worker[w].complaint)'
               PROVE  <<worker[w].complaint, worker[w].text>> \in stored'
    OBVIOUS
  <2>1. complaint'[worker[w].complaint].status # "deleted" BY DEF Exists
  <2>2. complaint[worker[w].complaint] \in Complaint BY <1>2 DEF BotTypes, TypeOK
  <2>3. Exists(worker[w].complaint) BY <1>2, <1>3, <2>1, <2>2 DEF Exists, Complaint
  <2> QED BY <1>1, <2>3 DEF AnswerInv, RowsGrow
<1>5. worker[w].pc \in Answering => <<worker[w].complaint, worker[w].text>> \in stored'
  BY <1>1 DEF AnswerInv, RowsGrow
<1>6. worker[w].pc \in {"answered", "deliver"} => Addressed(worker[w])'
  <2> SUFFICES ASSUME worker[w].pc \in {"answered", "deliver"} PROVE Addressed(worker[w])'
    OBVIOUS
  <2>1. Addressed(worker[w]) BY <1>1 DEF AnswerInv
  <2>2. /\ worker[w].complaint \in Complaints
        /\ complaint[worker[w].complaint].status # "none"
    BY <2>1, StoredHasRow DEF Addressed
  <2> QED BY <2>1, <2>2 DEF Addressed, RowsGrow
<1> QED BY <1>3, <1>4, <1>5, <1>6 DEF AnswerInv, Exists

\* Rows grow, and what is new is known to be right.
LEMMA ReplyMoves ==
    ASSUME BotTypes, ReplyInv, RowsGrow, \A c \in Complaints : RowInv(c)',
           \A v \in Workers : worker'[v] = worker[v] \/ AnswerInv(v)',
           \A r \in delivered' : r \in delivered \/ Sent(r)'
    PROVE  ReplyInv'
<1>1. \A v \in Workers : AnswerInv(v)' BY AnswerStays
<1>2. \A r \in delivered' : Sent(r)'
  <2> SUFFICES ASSUME NEW r \in delivered' PROVE Sent(r)' OBVIOUS
  <2>1. CASE r \in delivered
    <3>1. Sent(r) BY <2>1 DEF ReplyInv
    <3>2. <<r.complaint, r.text>> \in stored
            => r.complaint \in Complaints /\ complaint[r.complaint].status # "none"
      BY StoredHasRow
    <3> QED BY <3>1, <3>2 DEF Sent, RowsGrow
  <2> QED BY <2>1
<1> QED BY <1>1, <1>2 DEF ReplyInv

\* A goroutine that is not about to store or to send a reply.
Quiet(w) ==
    /\ \A v \in Workers \ {w} : worker'[v] = worker[v]
    /\ worker'[w].pc \notin {"store", "check"} \cup Answering

\* The tables stay as they are.
LEMMA QuietMoves ==
    ASSUME BotTypes, ReplyInv, UNCHANGED <<complaint, stored, delivered>>,
           \A v \in Workers : worker'[v] = worker[v] \/ AnswerInv(v)'
    PROVE  ReplyInv'
<1>1. RowsGrow /\ \A c \in Complaints : RowInv(c)' BY DEF RowsGrow, ReplyInv, RowInv
<1> QED BY <1>1, ReplyMoves

LEMMA QuietAnswer ==
    ASSUME NEW w \in Workers, Quiet(w)
    PROVE  \A v \in Workers : worker'[v] = worker[v] \/ AnswerInv(v)'
BY DEF Quiet, AnswerInv, Answering

LEMMA QuietEnd == ASSUME BotTypes, NEW w \in Workers, End(w) PROVE Quiet(w)
<1>1. worker'[w] = IdleWorker /\ \A v \in Workers \ {w} : worker'[v] = worker[v]
  BY DEF BotTypes, TypeOK, End
<1> QED BY <1>1 DEF Quiet, IdleWorker, Answering

\* What Goto leaves alone.
LEMMA GotoFields ==
    ASSUME BotTypes, NEW w \in Workers, NEW pc, Goto(w, pc)
    PROVE  /\ \A v \in Workers \ {w} : worker'[v] = worker[v]
           /\ worker'[w].pc = pc /\ worker'[w].complaint = worker[w].complaint
           /\ worker'[w].text = worker[w].text /\ worker'[w].to = worker[w].to
           /\ worker'[w].from = worker[w].from /\ worker'[w].draft = worker[w].draft
           /\ worker'[w].left = worker[w].left
<1>1. worker \in [Workers -> Worker] BY DEF BotTypes, TypeOK
<1> DEFINE r == [worker[w] EXCEPT !.pc = pc]
<1>2. /\ r.pc = pc /\ r.from = worker[w].from /\ r.complaint = worker[w].complaint
      /\ r.to = worker[w].to /\ r.text = worker[w].text /\ r.draft = worker[w].draft
      /\ r.left = worker[w].left
  BY <1>1 DEF Worker
<1>3. worker' = [worker EXCEPT ![w] = r] BY DEF Goto
<1> HIDE DEF r
<1>4. worker'[w] = r /\ \A v \in Workers \ {w} : worker'[v] = worker[v] BY <1>1, <1>3
<1> QED BY <1>2, <1>4

LEMMA QuietGoto ==
    ASSUME BotTypes, NEW w \in Workers, NEW pc, Goto(w, pc),
           pc \notin {"store", "check"} \cup Answering
    PROVE  Quiet(w)
BY GotoFields DEF Quiet

LEMMA FindReplies ==
    ASSUME BotTypes, ReplyInv, NEW w \in Workers, FindSteps(w) PROVE ReplyInv'
<1>0. worker \in [Workers -> Worker] BY DEF BotTypes, TypeOK
<1>1. UNCHANGED <<complaint, stored, delivered>>
  BY DEF FindSteps, Receive, PressReply, FindAccount, CreateAccount, FindAgain, tables, history
<1>2. \A v \in Workers : worker'[v] = worker[v] \/ AnswerInv(v)'
  <2>1. ASSUME NEW r, worker' = [worker EXCEPT ![w] = r],
               r.pc \notin {"store", "check"} \cup Answering
        PROVE  Quiet(w)
    BY <1>0, <2>1 DEF Quiet
  <2>2. CASE Receive(w)
    <3>1. ASSUME NEW t \in TgIds, NEW k \in BotKinds,
                 worker' = [worker EXCEPT ![w] = [IdleWorker EXCEPT
                              !.pc = "find", !.kind = k, !.from = t]]
          PROVE  Quiet(w)
      <4>1. [IdleWorker EXCEPT !.pc = "find", !.kind = k, !.from = t].pc = "find"
        BY DEF IdleWorker
      <4> QED BY <2>1, <3>1, <4>1 DEF Answering
    <3>2. ASSUME NEW t \in TgIds, NEW k \in {"post", "post_photo"},
                 worker' = [worker EXCEPT ![w] = [IdleWorker EXCEPT
                              !.pc = "insert", !.kind = k, !.from = t]]
          PROVE  Quiet(w)
      <4>1. [IdleWorker EXCEPT !.pc = "insert", !.kind = k, !.from = t].pc = "insert"
        BY DEF IdleWorker
      <4> QED BY <2>1, <3>2, <4>1 DEF Answering
    <3>3. ASSUME NEW c \in Complaints, NEW x \in Answers, NEW k \in {"reply", "update"},
                 complaint[c] # NoComplaint,
                 worker' = [worker EXCEPT ![w] = [IdleWorker EXCEPT
                              !.pc = "store", !.kind = k, !.complaint = c, !.text = x]]
          PROVE  \A v \in Workers : worker'[v] = worker[v] \/ AnswerInv(v)'
      <4> DEFINE r == [IdleWorker EXCEPT !.pc = "store", !.kind = k, !.complaint = c,
                                         !.text = x]
      <4>1. r.pc = "store" /\ r.complaint = c BY DEF IdleWorker
      <4>2. worker'[w] = r /\ \A v \in Workers \ {w} : worker'[v] = worker[v]
        BY <1>0, <3>3
      <4>3. complaint'[c].status # "none" BY <1>1, <3>3 DEF ReplyInv, RowInv
      <4> HIDE DEF r
      <4>4. AnswerInv(w)' BY <4>1, <4>2, <4>3 DEF AnswerInv, Answering
      <4> QED BY <4>2, <4>4
    <3> QED BY <2>2, <3>1, <3>2, <3>3, QuietAnswer DEF Receive
  <2>3. CASE PressReply(w)
    <3>1. PICK a \in Admins, c \in announced :
             worker' = [worker EXCEPT ![w] = [IdleWorker EXCEPT
                          !.pc = "find", !.kind = "dialog", !.from = a, !.complaint = c]]
      BY <2>3 DEF PressReply
    <3>2. [IdleWorker EXCEPT !.pc = "find", !.kind = "dialog", !.from = a,
                             !.complaint = c].pc = "find"
      BY DEF IdleWorker
    <3> QED BY <2>1, <3>1, <3>2, QuietAnswer DEF Answering
  <2>4. CASE FindAccount(w) \/ CreateAccount(w) \/ FindAgain(w)
    <3>1. End(w) \/ \E pc \in Looking : Goto(w, pc)
      BY <2>4 DEF FindAccount, CreateAccount, FindAgain, Looking
    <3>2. \A pc \in Looking : pc \notin {"store", "check"} \cup Answering
      BY DEF Looking, Answering
    <3> QED BY <3>1, <3>2, QuietEnd, QuietGoto, QuietAnswer
  <2> QED BY <2>2, <2>3, <2>4 DEF FindSteps
<1> QED BY <1>1, <1>2, QuietMoves

LEMMA WriteReplies ==
    ASSUME BotTypes, ReplyInv, NEW w \in Workers, WriteSteps(w) PROVE ReplyInv'
<1>0. /\ worker \in [Workers -> Worker] /\ complaint \in [Complaints -> Complaint]
      /\ Equipped(worker[w])
  BY DEF BotTypes, TypeOK
<1>1. UNCHANGED <<stored, delivered>>
  <2>1. CASE OpenMode(w) \/ RouteMessage(w) \/ Cancel(w) \/ Forget(w) \/ NotifyAdmins(w)
    BY <2>1 DEF OpenMode, RouteMessage, Cancel, Forget, NotifyAdmins, history, replies
  <2>2. CASE InsertComplaint(w) \/ Upload(w) \/ SetPhoto(w) \/ Created(w)
    BY <2>2 DEF InsertComplaint, Upload, SetPhoto, Created, history
  <2>3. CASE CloseDialog(w) \/ Confirm(w)
    BY <2>3 DEF CloseDialog, Confirm, history
  <2> QED BY <2>1, <2>2, <2>3 DEF WriteSteps
<1>2. Quiet(w)
  <2>1. ASSUME NEW pc \in {"insert", "state", "forget", "photo", "created", "close",
                           "confirm", "notify"}, Goto(w, pc)
        PROVE  Quiet(w)
    BY <2>1, QuietGoto DEF Answering
  <2>2. CASE OpenMode(w) \/ Forget(w) \/ NotifyAdmins(w)
    BY <2>2, QuietEnd DEF OpenMode, Forget, NotifyAdmins
  <2>3. CASE RouteMessage(w) BY <2>1, <2>3, QuietEnd DEF RouteMessage
  <2>4. CASE Cancel(w) BY <2>1, <2>4, QuietEnd DEF Cancel
  <2>5. CASE Upload(w) \/ SetPhoto(w) \/ Created(w) \/ CloseDialog(w) \/ Confirm(w)
    BY <2>1, <2>5, QuietEnd DEF Upload, SetPhoto, Created, CloseDialog, Confirm
  <2>6. CASE InsertComplaint(w)
    <3>1. CASE End(w) BY <3>1, QuietEnd
    <3>2. ASSUME NEW c \in Complaints,
                 worker' = [worker EXCEPT
                    ![w].pc = IF HasPhoto(w) THEN "upload" ELSE "created",
                    ![w].complaint = c]
          PROVE  Quiet(w)
      <4> DEFINE pc == IF HasPhoto(w) THEN "upload" ELSE "created"
                 r == [worker[w] EXCEPT !.pc = pc, !.complaint = c]
      <4>1. pc \in {"upload", "created"} /\ worker' = [worker EXCEPT ![w] = r] BY <3>2
      <4> HIDE DEF pc
      <4>2. r.pc = pc BY <1>0 DEF Worker
      <4> HIDE DEF r
      <4>3. worker'[w] = r /\ \A v \in Workers \ {w} : worker'[v] = worker[v]
        BY <1>0, <4>1
      <4> QED BY <4>1, <4>2, <4>3 DEF Quiet, Answering
    <3> QED BY <2>6, <3>1, <3>2 DEF InsertComplaint
  <2> QED BY <2>2, <2>3, <2>4, <2>5, <2>6 DEF WriteSteps
<1>3. \A v \in Workers : worker'[v] = worker[v] \/ AnswerInv(v)' BY <1>2, QuietAnswer
<1>4. CASE InsertComplaint(w)
  <2>2. ASSUME NEW c \in Complaints, complaint[c] = NoComplaint,
               complaint' = [complaint EXCEPT ![c] =
                    [NoComplaint EXCEPT !.status = "new", !.author = worker[w].from]]
        PROVE  RowsGrow /\ \A d \in Complaints : RowInv(d)'
    <3> DEFINE row == [NoComplaint EXCEPT !.status = "new", !.author = worker[w].from]
    <3>1. row.status = "new" /\ row.reply = None BY DEF NoComplaint
    <3>2. complaint'[c] = row /\ \A d \in Complaints \ {c} : complaint'[d] = complaint[d]
      BY <1>0, <2>2
    <3> HIDE DEF row
    <3>3. complaint[c].status = "none" /\ complaint[c].reply = None
      BY <2>2 DEF NoComplaint
    <3>4. RowsGrow BY <1>1, <3>2, <3>3 DEF RowsGrow
    <3>5. RowInv(c)'
      <4>1. \A x \in Answers : <<c, x>> \notin stored BY <3>3 DEF ReplyInv, RowInv
      <4> QED BY <1>1, <3>1, <3>2, <4>1 DEF RowInv
    <3>6. \A d \in Complaints \ {c} : RowInv(d)' BY <1>1, <3>2 DEF ReplyInv, RowInv
    <3> QED BY <3>4, <3>5, <3>6
  <2>3. CASE UNCHANGED complaint BY <1>1, <1>3, <2>3, QuietMoves
  <2>4. CASE \E c \in Complaints :
               /\ complaint[c] = NoComplaint
               /\ complaint' = [complaint EXCEPT ![c] =
                    [NoComplaint EXCEPT !.status = "new", !.author = worker[w].from]]
    BY <1>1, <1>3, <2>2, <2>4, ReplyMoves
  <2> QED BY <1>4, <2>3, <2>4 DEF InsertComplaint
<1>5. CASE SetPhoto(w)
  <2>1. complaint' = WithPhoto(worker[w].complaint) BY <1>5 DEF SetPhoto
  <2>2. CASE UNCHANGED complaint BY <1>1, <1>3, <2>2, QuietMoves
  <2>3. CASE /\ Exists(worker[w].complaint)
             /\ complaint' = [complaint EXCEPT ![worker[w].complaint].photo = TRUE]
    <3>1. PICK c \in Complaints : worker[w].complaint = c
      BY <1>0, <1>5 DEF SetPhoto, At, Equipped, OfARow
    <3> DEFINE row == [complaint[c] EXCEPT !.photo = TRUE]
    <3>2. row.status = complaint[c].status /\ row.reply = complaint[c].reply
          /\ row.author = complaint[c].author
      BY <1>0 DEF Complaint
    <3>3. complaint'[c] = row /\ \A d \in Complaints \ {c} : complaint'[d] = complaint[d]
      BY <1>0, <2>3, <3>1
    <3> HIDE DEF row
    <3>4. complaint[c].status # "none" BY <2>3, <3>1 DEF Exists
    <3>5. RowsGrow BY <1>1, <3>2, <3>3 DEF RowsGrow
    <3>6. \A d \in Complaints : RowInv(d)'
      BY <1>1, <3>2, <3>3, <3>4 DEF ReplyInv, RowInv
    <3> QED BY <1>1, <1>3, <3>5, <3>6, ReplyMoves
  <2> QED BY <2>1, <2>2, <2>3 DEF WithPhoto
<1>6. CASE \/ OpenMode(w) \/ RouteMessage(w) \/ Cancel(w) \/ Forget(w) \/ Upload(w)
           \/ Created(w) \/ CloseDialog(w) \/ Confirm(w) \/ NotifyAdmins(w)
  <2>1. UNCHANGED complaint
    BY <1>6 DEF OpenMode, RouteMessage, Cancel, Forget, Upload, Created, CloseDialog, Confirm,
                NotifyAdmins, tables
  <2> QED BY <1>1, <1>3, <2>1, QuietMoves
<1> QED BY <1>4, <1>5, <1>6 DEF WriteSteps

\* The reply is stored, checked, addressed and sent.
LEMMA AnswerReplies ==
    ASSUME BotTypes, ReplyInv, NEW w \in Workers, AnswerSteps(w) PROVE ReplyInv'
<1>0. /\ worker \in [Workers -> Worker] /\ complaint \in [Complaints -> Complaint]
      /\ Equipped(worker[w]) /\ AnswerInv(w) /\ stored \subseteq Complaints \X Answers
      /\ worker[w].text \in Answers
  BY DEF BotTypes, TypeOK, ReplyInv, Worker
<1>1. CASE ReadState(w)
  <2>1. UNCHANGED <<complaint, stored, delivered>> BY <1>1 DEF ReadState, tables, history
  <2>2. Quiet(w)
    <3>1. CASE Goto(w, "forget") BY <3>1, QuietGoto DEF Answering
    <3>2. ASSUME NEW c, NEW x, worker' = [worker EXCEPT ![w].pc = "lookup",
                                            ![w].complaint = c, ![w].text = x]
          PROVE  Quiet(w)
      <4> DEFINE r == [worker[w] EXCEPT !.pc = "lookup", !.complaint = c, !.text = x]
      <4>1. r.pc = "lookup" BY <1>0 DEF Worker
      <4>2. worker' = [worker EXCEPT ![w] = r] BY <3>2
      <4> HIDE DEF r
      <4>3. worker'[w] = r /\ \A v \in Workers \ {w} : worker'[v] = worker[v]
        BY <1>0, <4>2
      <4> QED BY <4>1, <4>3 DEF Quiet, Answering
    <3> QED BY <1>1, <3>1, <3>2 DEF ReadState
  <2> QED BY <2>1, <2>2, QuietAnswer, QuietMoves
<1>2. CASE LookUp(w)
  <2>1. UNCHANGED <<complaint, stored, delivered>> BY <1>2 DEF LookUp, tables, history
  <2>2. CASE End(w) BY <2>1, <2>2, QuietEnd, QuietAnswer, QuietMoves
  <2>3. CASE Exists(worker[w].complaint) /\ Goto(w, "store")
    <3>1. /\ \A v \in Workers \ {w} : worker'[v] = worker[v]
          /\ worker'[w].pc = "store" /\ worker'[w].complaint = worker[w].complaint
      BY <2>3, GotoFields
    <3>2. AnswerInv(w)' BY <2>1, <2>3, <3>1 DEF AnswerInv, Answering, Exists
    <3> QED BY <2>1, <3>1, <3>2, QuietMoves
  <2> QED BY <1>2, <2>2, <2>3 DEF LookUp
<1>3. CASE StoreReply(w)
  <2>1. /\ worker[w].pc = "store" /\ worker[w].complaint \in Complaints
        /\ delivered' = delivered /\ Goto(w, "check")
    BY <1>0, <1>3 DEF StoreReply, At, Equipped, OfARow
  <2>2. /\ \A v \in Workers \ {w} : worker'[v] = worker[v]
        /\ worker'[w].pc = "check" /\ worker'[w].complaint = worker[w].complaint
        /\ worker'[w].text = worker[w].text
    BY <2>1, GotoFields
  <2>3. complaint[worker[w].complaint].status # "none" BY <1>0, <2>1 DEF AnswerInv
  <2>4. CASE Exists(worker[w].complaint)
    <3>1. stored' = stored \cup {<<worker[w].complaint, worker[w].text>>}
      BY <1>3, <2>4 DEF StoreReply
    <3>2. PICK status \in {"new", "resolved"} :
            complaint' = [complaint EXCEPT ![worker[w].complaint].status = status,
                                           ![worker[w].complaint].reply = worker[w].text]
      BY <1>3, <2>4 DEF StoreReply
    <3> DEFINE row == [complaint[worker[w].complaint] EXCEPT !.status = status,
                                                             !.reply = worker[w].text]
    <3>3. row.status = status /\ row.reply = worker[w].text
          /\ row.author = complaint[worker[w].complaint].author
      BY <1>0, <2>1 DEF Complaint
    <3>4. complaint' = [complaint EXCEPT ![worker[w].complaint] = row] BY <3>2
    <3> HIDE DEF row
    <3>5. /\ complaint'[worker[w].complaint] = row
          /\ \A d \in Complaints \ {worker[w].complaint} : complaint'[d] = complaint[d]
      BY <1>0, <2>1, <3>4
    <3>6. RowsGrow
      BY <2>1, <2>4, <3>1, <3>3, <3>5 DEF RowsGrow, Exists
    <3>8. \A d \in Complaints : RowInv(d)'
      <4>1. ASSUME NEW d \in Complaints, d = worker[w].complaint PROVE RowInv(d)'
        BY <3>1, <3>3, <3>5, <4>1 DEF RowInv
      <4>2. ASSUME NEW d \in Complaints, d # worker[w].complaint PROVE RowInv(d)'
        <5>1. RowInv(d) /\ complaint'[d] = complaint[d] BY <3>5, <4>2 DEF ReplyInv
        <5>2. \A x : <<d, x>> \in stored' <=> <<d, x>> \in stored BY <3>1, <4>2
        <5> QED BY <5>1, <5>2 DEF RowInv
      <4> QED BY <4>1, <4>2
    <3>9. complaint'[worker[w].complaint].status # "none"
      BY <3>3, <3>5
    <3>10. AnswerInv(w)' BY <2>2, <3>1, <3>9 DEF AnswerInv, Answering
    <3> QED BY <2>1, <2>2, <3>6, <3>8, <3>10, ReplyMoves
  <2>5. CASE ~Exists(worker[w].complaint)
    <3>1. UNCHANGED <<complaint, stored>> BY <1>3, <2>5 DEF StoreReply
    <3>2. AnswerInv(w)'
      BY <2>2, <2>3, <2>5, <3>1 DEF AnswerInv, Answering, Exists
    <3> QED BY <2>1, <2>2, <3>1, <3>2, QuietMoves
  <2> QED BY <2>4, <2>5
<1>4. CASE CheckReply(w)
  <2>0. /\ UNCHANGED <<complaint, stored, delivered>> /\ worker[w].pc = "check"
        /\ worker[w].complaint \in Complaints
    BY <1>0, <1>4 DEF CheckReply, tables, history, At, Equipped, OfARow
  <2>1. CASE End(w) BY <2>0, <2>1, QuietEnd, QuietAnswer, QuietMoves
  <2>2. CASE /\ Exists(worker[w].complaint)
             /\ worker' = [worker EXCEPT
               ![w].pc = CASE worker[w].kind = "reply"  -> "publish"
                           [] worker[w].kind = "update" -> "deliver"
                           [] OTHER -> "answered",
               ![w].to = complaint[worker[w].complaint].author,
               ![w].text = IF worker[w].kind = "update"
                           THEN complaint[worker[w].complaint].reply ELSE @]
    <3> DEFINE pc == CASE worker[w].kind = "reply"  -> "publish"
                       [] worker[w].kind = "update" -> "deliver"
                       [] OTHER -> "answered"
               x == IF worker[w].kind = "update"
                    THEN complaint[worker[w].complaint].reply ELSE worker[w].text
               to == complaint[worker[w].complaint].author
               r == [worker[w] EXCEPT !.pc = pc, !.to = to, !.text = x]
    <3>1. worker' = [worker EXCEPT ![w] = r] BY <2>2
    <3>2. pc \in Answering BY DEF Answering
    <3>3. <<worker[w].complaint, worker[w].text>> \in stored
      BY <1>0, <2>0, <2>2 DEF AnswerInv
    <3>4. <<worker[w].complaint, complaint[worker[w].complaint].reply>> \in stored
      <4>1. worker[w].text \in Answers BY <1>0
      <4>2. RowInv(worker[w].complaint) BY <2>0 DEF ReplyInv
      <4> QED BY <3>3, <4>1, <4>2 DEF RowInv
    <3>5. <<worker[w].complaint, x>> \in stored BY <3>3, <3>4
    <3> HIDE DEF pc, x
    <3>6. r.pc = pc /\ r.to = to /\ r.text = x /\ r.complaint = worker[w].complaint
      BY <1>0 DEF Worker
    <3>7. r.to = complaint[r.complaint].author BY <3>6
    <3> HIDE DEF r, to
    <3>8. worker'[w] = r /\ \A v \in Workers \ {w} : worker'[v] = worker[v]
      BY <1>0, <3>1
    <3>9. AnswerInv(w)'
      BY <2>0, <3>2, <3>5, <3>6, <3>7, <3>8 DEF AnswerInv, Answering, Addressed
    <3> QED BY <2>0, <3>8, <3>9, QuietMoves
  <2> QED BY <1>4, <2>1, <2>2 DEF CheckReply
<1>5. CASE ReadRecipient(w)
  <2>0. /\ UNCHANGED <<complaint, stored, delivered>> /\ worker[w].pc = "publish"
        /\ worker[w].complaint \in Complaints
    BY <1>0, <1>5 DEF ReadRecipient, tables, history, At, Equipped, OfARow
  <2>1. PICK to \in {AuthorOf(worker[w].complaint), None} :
           worker' = [worker EXCEPT ![w].pc = "deliver", ![w].to = to]
    BY <1>5 DEF ReadRecipient
  <2> DEFINE r == [worker[w] EXCEPT !.pc = "deliver", !.to = to]
  <2>2. <<worker[w].complaint, worker[w].text>> \in stored
    BY <1>0, <2>0 DEF AnswerInv, Answering
  <2>3. to \in {complaint[worker[w].complaint].author, None} BY <2>1 DEF AuthorOf
  <2>4. /\ r.pc = "deliver" /\ r.to = to /\ r.text = worker[w].text
        /\ r.complaint = worker[w].complaint
    BY <1>0 DEF Worker
  <2>8. worker' = [worker EXCEPT ![w] = r] BY <2>1
  <2> HIDE DEF r
  <2>5. worker'[w] = r /\ \A v \in Workers \ {w} : worker'[v] = worker[v]
    BY <1>0, <2>8
  <2>6. /\ <<r.complaint, r.text>> \in stored'
        /\ r.to \in {complaint'[r.complaint].author, None}
    BY <2>0, <2>2, <2>3, <2>4
  <2>7. AnswerInv(w)'
    BY <2>4, <2>5, <2>6 DEF AnswerInv, Answering, Addressed
  <2> QED BY <2>0, <2>5, <2>7, QuietMoves
<1>6. CASE CloseReply(w)
  <2>1. UNCHANGED <<complaint, stored, delivered>> /\ Goto(w, "deliver")
        /\ worker[w].pc = "answered"
    BY <1>6 DEF CloseReply, tables, history, At
  <2>2. /\ \A v \in Workers \ {w} : worker'[v] = worker[v]
        /\ worker'[w].pc = "deliver" /\ worker'[w].complaint = worker[w].complaint
        /\ worker'[w].text = worker[w].text /\ worker'[w].to = worker[w].to
    BY <2>1, GotoFields
  <2>3. AnswerInv(w)' BY <1>0, <2>1, <2>2 DEF AnswerInv, Answering, Addressed
  <2> QED BY <2>1, <2>2, <2>3, QuietMoves
<1>7. CASE Deliver(w)
  <2>1. UNCHANGED <<complaint, stored>> /\ End(w) /\ worker[w].pc = "deliver"
        /\ delivered' \in {delivered, delivered \cup {Reply(w)}}
    BY <1>7 DEF Deliver, tables, At
  <2>3. RowsGrow /\ \A c \in Complaints : RowInv(c)'
    BY <2>1 DEF RowsGrow, ReplyInv, RowInv
  <2>4. \A v \in Workers : worker'[v] = worker[v] \/ AnswerInv(v)'
    BY <2>1, QuietEnd, QuietAnswer
  <2>5. \A r \in delivered' : r \in delivered \/ Sent(r)'
    <3> SUFFICES ASSUME NEW r \in delivered', r \notin delivered PROVE Sent(r)'
      OBVIOUS
    <3>1. r = Reply(w) BY <2>1
    <3>2. Addressed(worker[w]) BY <1>0, <2>1 DEF AnswerInv
    <3> QED BY <2>1, <3>1, <3>2 DEF Addressed, Sent, Reply
  <2> QED BY <2>3, <2>4, <2>5, ReplyMoves
<1> QED BY <1>1, <1>2, <1>3, <1>4, <1>5, <1>6, <1>7 DEF AnswerSteps

\* A goroutine's record is replaced by one with another state.
LEMMA QuietRecord ==
    ASSUME BotTypes, NEW w \in Workers, NEW r, worker' = [worker EXCEPT ![w] = r],
           r.pc \notin {"store", "check"} \cup Answering
    PROVE  Quiet(w)
<1>1. worker \in [Workers -> Worker] BY DEF BotTypes, TypeOK
<1>2. worker'[w] = r /\ \A v \in Workers \ {w} : worker'[v] = worker[v] BY <1>1
<1> QED BY <1>2 DEF Quiet

\* Broadcasts have nothing to do with replies.
LEMMA BroadcastReplies ==
    ASSUME BotTypes, ReplyInv, NEW w \in Workers, BroadcastSteps(w) PROVE ReplyInv'
<1>0. worker[w] \in Worker BY DEF BotTypes, TypeOK
<1>1. UNCHANGED <<complaint, stored, delivered>>
  <2>1. CASE WriteDraft(w) \/ TakeDraft(w) \/ ListUsers(w)
    BY <2>1 DEF WriteDraft, TakeDraft, ListUsers, tables, history, replies
  <2>2. CASE SendBroadcast(w) \/ FinishBroadcast(w) \/ Discard(w)
    BY <2>2 DEF SendBroadcast, FinishBroadcast, Discard, tables, history, replies
  <2> QED BY <2>1, <2>2 DEF BroadcastSteps
<1>2. Quiet(w)
  <2>1. CASE WriteDraft(w) \/ FinishBroadcast(w) \/ Discard(w)
    BY <2>1, QuietEnd DEF WriteDraft, FinishBroadcast, Discard
  <2>2. CASE TakeDraft(w)
    <3>1. ASSUME NEW d, worker' = [worker EXCEPT ![w].pc = "list", ![w].draft = d]
          PROVE  Quiet(w)
      <4> DEFINE r == [worker[w] EXCEPT !.pc = "list", !.draft = d]
      <4>1. r.pc = "list" BY <1>0 DEF Worker
      <4>2. worker' = [worker EXCEPT ![w] = r] BY <3>1
      <4> HIDE DEF r
      <4> QED BY <4>1, <4>2, QuietRecord DEF Answering
    <3> QED BY <2>2, <3>1, QuietEnd DEF TakeDraft
  <2>3. CASE ListUsers(w)
    <3>1. ASSUME NEW all, worker' = [worker EXCEPT ![w].pc = "send", ![w].left = all]
          PROVE  Quiet(w)
      <4> DEFINE r == [worker[w] EXCEPT !.pc = "send", !.left = all]
      <4>1. r.pc = "send" BY <1>0 DEF Worker
      <4>2. worker' = [worker EXCEPT ![w] = r] BY <3>1
      <4> HIDE DEF r
      <4> QED BY <4>1, <4>2, QuietRecord DEF Answering
    <3> QED BY <2>3, <3>1, QuietEnd DEF ListUsers
  <2>4. CASE SendBroadcast(w)
    <3>1. PICK t \in worker[w].left :
             worker' = [worker EXCEPT ![w].left = @ \ {t},
                          ![w].pc = IF worker[w].left = {t} THEN "finish" ELSE @]
      BY <2>4 DEF SendBroadcast
    <3>2. worker[w].pc = "send" BY <2>4 DEF SendBroadcast, At
    <3> DEFINE pc == IF worker[w].left = {t} THEN "finish" ELSE worker[w].pc
               rest == worker[w].left \ {t}
               r == [worker[w] EXCEPT !.left = rest, !.pc = pc]
    <3>3. worker' = [worker EXCEPT ![w] = r] /\ pc \in {"send", "finish"} BY <3>1, <3>2
    <3> HIDE DEF pc, rest
    <3>4. r.pc = pc BY <1>0 DEF Worker
    <3> HIDE DEF r
    <3> QED BY <3>3, <3>4, QuietRecord DEF Answering
  <2> QED BY <2>1, <2>2, <2>3, <2>4 DEF BroadcastSteps
<1> QED BY <1>1, <1>2, QuietAnswer, QuietMoves

\* The panel inserts and deletes complaints; a crash ends every goroutine.
LEMMA PanelReplies == ASSUME BotTypes, ReplyInv, PanelSteps PROVE ReplyInv'
<1>0. complaint \in [Complaints -> Complaint] /\ worker \in [Workers -> Worker]
  BY DEF BotTypes, TypeOK
<1>1. stored' = stored /\ delivered' = delivered
  BY DEF PanelSteps, CreateInPanel, DeleteComplaint, Crash, history
<1>2. CASE CreateInPanel
  <2>1. PICK c \in Complaints, t \in TgIds :
           /\ complaint[c] = NoComplaint /\ worker' = worker
           /\ complaint' = [complaint EXCEPT ![c] =
                [NoComplaint EXCEPT !.status = "new", !.author = t]]
    BY <1>2 DEF CreateInPanel
  <2> DEFINE row == [NoComplaint EXCEPT !.status = "new", !.author = t]
  <2>2. row.status = "new" /\ row.reply = None BY DEF NoComplaint
  <2>3. complaint'[c] = row /\ \A d \in Complaints \ {c} : complaint'[d] = complaint[d]
    BY <1>0, <2>1
  <2> HIDE DEF row
  <2>4. complaint[c].status = "none" /\ complaint[c].reply = None BY <2>1 DEF NoComplaint
  <2>5. RowsGrow BY <1>1, <2>3, <2>4 DEF RowsGrow
  <2>6. \A x \in Answers : <<c, x>> \notin stored BY <2>4 DEF ReplyInv, RowInv
  <2>7. \A d \in Complaints : RowInv(d)' BY <1>1, <2>2, <2>3, <2>6 DEF ReplyInv, RowInv
  <2> QED BY <1>1, <2>1, <2>5, <2>7, ReplyMoves
<1>3. CASE DeleteComplaint
  <2>1. PICK c \in Complaints :
           /\ Exists(c) /\ worker' = worker
           /\ complaint' = [complaint EXCEPT ![c].status = "deleted"]
    BY <1>3 DEF DeleteComplaint
  <2> DEFINE row == [complaint[c] EXCEPT !.status = "deleted"]
  <2>2. /\ row.status = "deleted" /\ row.reply = complaint[c].reply
        /\ row.author = complaint[c].author
    BY <1>0 DEF Complaint
  <2>3. complaint'[c] = row /\ \A d \in Complaints \ {c} : complaint'[d] = complaint[d]
    BY <1>0, <2>1
  <2> HIDE DEF row
  <2>4. RowsGrow BY <1>1, <2>2, <2>3 DEF RowsGrow
  <2>5. \A d \in Complaints : RowInv(d)' BY <1>1, <2>2, <2>3 DEF ReplyInv, RowInv
  <2> QED BY <1>1, <2>1, <2>4, <2>5, ReplyMoves
<1>4. CASE Crash
  <2>1. complaint' = complaint /\ worker' = [w \in Workers |-> IdleWorker]
    BY <1>4 DEF Crash, tables
  <2>2. \A v \in Workers : AnswerInv(v)' BY <2>1 DEF AnswerInv, Answering, IdleWorker
  <2> QED BY <1>1, <2>1, <2>2, QuietMoves
<1> QED BY <1>2, <1>3, <1>4 DEF PanelSteps

LEMMA RepliesInit == Init => ReplyInv
<1> SUFFICES ASSUME Init PROVE ReplyInv OBVIOUS
<1>1. stored = {} /\ delivered = {} /\ worker = [w \in Workers |-> IdleWorker] BY DEF Init
<1>2. ASSUME NEW c \in Complaints PROVE RowInv(c)
  <2>1. PICK by \in [Complaints -> {None} \cup {t \in TgIds : account[t].users = 1}] :
            complaint = [d \in Complaints |-> IF by[d] = None THEN NoComplaint
                     ELSE [NoComplaint EXCEPT !.status = "new", !.author = by[d]]]
    BY DEF Init
  <2>2. complaint[c] = NoComplaint \/ (complaint[c].status = "new" /\ complaint[c].reply = None)
    BY <2>1 DEF NoComplaint
  <2>3. NoComplaint.reply = None BY DEF NoComplaint
  <2> QED BY <1>1, <2>2, <2>3 DEF RowInv
<1>3. \A w \in Workers : AnswerInv(w) BY <1>1 DEF AnswerInv, Answering, IdleWorker
<1> QED BY <1>1, <1>2, <1>3 DEF ReplyInv

LEMMA RepliesNext == BotTypes /\ ReplyInv /\ [Next]_vars => ReplyInv'
<1> SUFFICES ASSUME BotTypes, ReplyInv, [Next]_vars PROVE ReplyInv' OBVIOUS
<1>1. CASE Next
  BY <1>1, Steps, FindReplies, WriteReplies, AnswerReplies, BroadcastReplies, PanelReplies
<1>2. CASE UNCHANGED vars
  <2>1. UNCHANGED <<complaint, stored, delivered, worker>> BY <1>2 DEF vars
  <2> QED BY <2>1, QuietMoves
<1> QED BY <1>1, <1>2

-----------------------------------------------------------------------------
(***************************************************************************)
(* A broadcast is heard once                                               *)
(***************************************************************************)

\* No goroutine begins, goes on with or ends the sending of a draft.
Aside(w) ==
    /\ \A v \in Workers \ {w} : worker'[v] = worker[v]
    /\ worker[w].pc \notin Sending /\ worker'[w].pc \notin Sending

LEMMA AsideRecord ==
    ASSUME BotTypes, NEW w \in Workers, NEW r, worker' = [worker EXCEPT ![w] = r],
           r.pc \notin Sending, worker[w].pc \notin Sending
    PROVE  Aside(w)
<1>1. worker \in [Workers -> Worker] BY DEF BotTypes, TypeOK
<1>2. worker'[w] = r /\ \A v \in Workers \ {w} : worker'[v] = worker[v] BY <1>1
<1> QED BY <1>2 DEF Aside

LEMMA AsideEnd ==
    ASSUME BotTypes, NEW w \in Workers, End(w), worker[w].pc \notin Sending PROVE Aside(w)
<1>1. IdleWorker.pc = "idle" BY DEF IdleWorker
<1> QED BY <1>1, AsideRecord DEF End, Sending

LEMMA AsideGoto ==
    ASSUME BotTypes, NEW w \in Workers, NEW pc, Goto(w, pc), pc \notin Sending,
           worker[w].pc \notin Sending
    PROVE  Aside(w)
BY GotoFields DEF Aside

\* Support and registration stay aside.
LEMMA SupportAside ==
    ASSUME BotTypes, NEW w \in Workers, FindSteps(w) \/ WriteSteps(w) \/ AnswerSteps(w)
    PROVE  Aside(w)
<1>0. worker[w] \in Worker BY DEF BotTypes, TypeOK
<1>1. worker[w].pc \notin Sending
  <2>1. CASE FindSteps(w)
    BY <2>1 DEF FindSteps, Receive, PressReply, FindAccount, CreateAccount, FindAgain, At, Sending
  <2>2. CASE WriteSteps(w)
    BY <2>2 DEF WriteSteps, OpenMode, RouteMessage, Cancel, Forget, InsertComplaint, Upload,
                SetPhoto, Created, CloseDialog, Confirm, NotifyAdmins, At, Sending
  <2>3. CASE AnswerSteps(w)
    BY <2>3 DEF AnswerSteps, ReadState, LookUp, StoreReply, CheckReply, ReadRecipient, CloseReply,
                Deliver, At, Sending
  <2> QED BY <2>1, <2>2, <2>3
<1>2. ASSUME NEW r, worker' = [worker EXCEPT ![w] = r],
             r.pc \in {"find", "insert", "store", "upload", "created", "lookup"} \cup Answering
      PROVE  Aside(w)
  BY <1>1, <1>2, AsideRecord DEF Sending, Answering
<1>3. ASSUME NEW pc \in Personal \cup OfARow, Goto(w, pc) PROVE Aside(w)
  BY <1>1, <1>3, AsideGoto DEF Personal, Looking, OfARow, Sending
<1>4. CASE Receive(w)
  <2>1. ASSUME NEW t \in TgIds, NEW k \in BotKinds,
               worker' = [worker EXCEPT ![w] = [IdleWorker EXCEPT
                            !.pc = "find", !.kind = k, !.from = t]]
        PROVE  Aside(w)
    <3>1. [IdleWorker EXCEPT !.pc = "find", !.kind = k, !.from = t].pc = "find"
      BY DEF IdleWorker
    <3> QED BY <1>2, <2>1, <3>1
  <2>2. ASSUME NEW t \in TgIds, NEW k \in {"post", "post_photo"},
               worker' = [worker EXCEPT ![w] = [IdleWorker EXCEPT
                            !.pc = "insert", !.kind = k, !.from = t]]
        PROVE  Aside(w)
    <3>1. [IdleWorker EXCEPT !.pc = "insert", !.kind = k, !.from = t].pc = "insert"
      BY DEF IdleWorker
    <3> QED BY <1>2, <2>2, <3>1
  <2>3. ASSUME NEW c \in Complaints, NEW x \in Answers, NEW k \in {"reply", "update"},
               worker' = [worker EXCEPT ![w] = [IdleWorker EXCEPT
                            !.pc = "store", !.kind = k, !.complaint = c, !.text = x]]
        PROVE  Aside(w)
    <3>1. [IdleWorker EXCEPT !.pc = "store", !.kind = k, !.complaint = c, !.text = x].pc
              = "store"
      BY DEF IdleWorker
    <3> QED BY <1>2, <2>3, <3>1
  <2> QED BY <1>4, <2>1, <2>2, <2>3 DEF Receive
<1>5. CASE PressReply(w)
  <2>1. PICK a \in Admins, c \in announced :
           worker' = [worker EXCEPT ![w] = [IdleWorker EXCEPT
                        !.pc = "find", !.kind = "dialog", !.from = a, !.complaint = c]]
    BY <1>5 DEF PressReply
  <2>2. [IdleWorker EXCEPT !.pc = "find", !.kind = "dialog", !.from = a,
                           !.complaint = c].pc = "find"
    BY DEF IdleWorker
  <2> QED BY <1>2, <2>1, <2>2
<1>6. CASE FindAccount(w) \/ CreateAccount(w) \/ FindAgain(w)
  <2>1. End(w) \/ \E pc \in Looking : Goto(w, pc)
    BY <1>6 DEF FindAccount, CreateAccount, FindAgain, Looking
  <2> QED BY <1>1, <1>3, <2>1, AsideEnd DEF Personal
<1>7. CASE \/ OpenMode(w) \/ RouteMessage(w) \/ Cancel(w) \/ Forget(w) \/ Upload(w)
           \/ SetPhoto(w) \/ Created(w) \/ CloseDialog(w) \/ Confirm(w) \/ NotifyAdmins(w)
  <2>1. \/ End(w)
        \/ \E pc \in {"insert", "state", "forget", "photo", "created", "close", "confirm",
                      "notify"} : Goto(w, pc)
    <3>1. CASE OpenMode(w) \/ Forget(w) \/ NotifyAdmins(w)
      BY <3>1 DEF OpenMode, Forget, NotifyAdmins
    <3>2. CASE RouteMessage(w) BY <3>2 DEF RouteMessage
    <3>3. CASE Cancel(w) BY <3>3 DEF Cancel
    <3>4. CASE Upload(w) \/ SetPhoto(w) \/ Created(w) \/ CloseDialog(w) \/ Confirm(w)
      BY <3>4 DEF Upload, SetPhoto, Created, CloseDialog, Confirm
    <3> QED BY <1>7, <3>1, <3>2, <3>3, <3>4
  <2>2. {"insert", "state", "forget", "photo", "created", "close", "confirm", "notify"}
            \subseteq Personal \cup OfARow
    BY DEF Personal, OfARow
  <2> QED BY <1>1, <1>3, <2>1, <2>2, AsideEnd
<1>8. CASE InsertComplaint(w)
  <2>1. ASSUME NEW c \in Complaints,
               worker' = [worker EXCEPT
                  ![w].pc = IF HasPhoto(w) THEN "upload" ELSE "created",
                  ![w].complaint = c]
        PROVE  Aside(w)
    <3> DEFINE pc == IF HasPhoto(w) THEN "upload" ELSE "created"
               r == [worker[w] EXCEPT !.pc = pc, !.complaint = c]
    <3>1. pc \in {"upload", "created"} /\ worker' = [worker EXCEPT ![w] = r] BY <2>1
    <3> HIDE DEF pc
    <3>2. r.pc = pc BY <1>0 DEF Worker
    <3> HIDE DEF r
    <3> QED BY <1>2, <3>1, <3>2
  <2> QED BY <1>1, <1>8, <2>1, AsideEnd DEF InsertComplaint
<1>9. CASE ReadState(w)
  <2>1. ASSUME NEW c, NEW x, worker' = [worker EXCEPT ![w].pc = "lookup",
                                          ![w].complaint = c, ![w].text = x]
        PROVE  Aside(w)
    <3> DEFINE r == [worker[w] EXCEPT !.pc = "lookup", !.complaint = c, !.text = x]
    <3>1. r.pc = "lookup" BY <1>0 DEF Worker
    <3>2. worker' = [worker EXCEPT ![w] = r] BY <2>1
    <3> HIDE DEF r
    <3> QED BY <1>2, <3>1, <3>2
  <2>2. CASE Goto(w, "forget") BY <1>3, <2>2 DEF Personal
  <2> QED BY <1>9, <2>1, <2>2 DEF ReadState
<1>10. CASE LookUp(w) \/ StoreReply(w) \/ CloseReply(w) \/ Deliver(w)
  <2>1. End(w) \/ \E pc \in {"store", "check", "deliver"} : Goto(w, pc)
    BY <1>10 DEF LookUp, StoreReply, CloseReply, Deliver
  <2>2. {"store", "check", "deliver"} \subseteq Personal \cup OfARow BY DEF OfARow
  <2> QED BY <1>1, <1>3, <2>1, <2>2, AsideEnd
<1>11. CASE CheckReply(w)
  <2>1. ASSUME NEW to, NEW x,
               worker' = [worker EXCEPT
               ![w].pc = CASE worker[w].kind = "reply"  -> "publish"
                           [] worker[w].kind = "update" -> "deliver"
                           [] OTHER -> "answered",
               ![w].to = to, ![w].text = x]
        PROVE  Aside(w)
    <3> DEFINE pc == CASE worker[w].kind = "reply"  -> "publish"
                       [] worker[w].kind = "update" -> "deliver"
                       [] OTHER -> "answered"
               r == [worker[w] EXCEPT !.pc = pc, !.to = to, !.text = x]
    <3>1. pc \in Answering BY DEF Answering
    <3>2. worker' = [worker EXCEPT ![w] = r] BY <2>1
    <3> HIDE DEF pc
    <3>3. r.pc = pc BY <1>0 DEF Worker
    <3> HIDE DEF r
    <3> QED BY <1>2, <3>1, <3>2, <3>3
  <2> QED BY <1>1, <1>11, <2>1, AsideEnd DEF CheckReply
<1>12. CASE ReadRecipient(w)
  <2>1. PICK to : worker' = [worker EXCEPT ![w].pc = "deliver", ![w].to = to]
    BY <1>12 DEF ReadRecipient
  <2> DEFINE r == [worker[w] EXCEPT !.pc = "deliver", !.to = to]
  <2>2. worker' = [worker EXCEPT ![w] = r] /\ r.pc = "deliver" BY <1>0, <2>1 DEF Worker
  <2> HIDE DEF r
  <2> QED BY <1>2, <2>2 DEF Answering
<1> QED BY <1>4, <1>5, <1>6, <1>7, <1>8, <1>9, <1>10, <1>11, <1>12
        DEF FindSteps, WriteSteps, AnswerSteps

\* Steps that touch neither drafts nor those who send them.
LEMMA BroadcastMoves ==
    ASSUME BotTypes, BotTypes', BroadcastInv, UNCHANGED <<draft, heard, overlapped>>,
           \A v \in Workers : \/ worker'[v] = worker[v]
                              \/ worker[v].pc \notin Sending /\ worker'[v].pc \notin Sending
    PROVE  BroadcastInv'
<1>1. \A v \in Workers : worker'[v] = worker[v]
                         \/ (worker[v].draft = None /\ worker'[v].draft = None)
  BY DEF BotTypes, Equipped
<1>2. DraftInv' BY <1>1 DEF BroadcastInv, DraftInv
<1>3. ASSUME NEW d \in Drafts, d \notin overlapped PROVE SentInv(d)'
  <2>0. d # None BY TelegramBotAssumption
  <2>1. SentInv(d) BY <1>3 DEF BroadcastInv
  <2>2. \A v \in Workers : worker[v].draft = d \/ worker'[v].draft = d
                              => worker'[v] = worker[v]
    BY <1>1, <2>0
  <2> QED BY <2>1, <2>2 DEF SentInv
<1> QED BY <1>2, <1>3 DEF BroadcastInv

LEMMA SupportBroadcasts ==
    ASSUME BotTypes, BotTypes', BroadcastInv, NEW w \in Workers,
           FindSteps(w) \/ WriteSteps(w) \/ AnswerSteps(w)
    PROVE  BroadcastInv'
<1>1. UNCHANGED <<draft, heard, overlapped>>
  <2>1. CASE FindSteps(w)
    BY <2>1 DEF FindSteps, Receive, PressReply, FindAccount, CreateAccount, FindAgain, memory,
                history
  <2>2. CASE OpenMode(w) \/ RouteMessage(w) \/ Cancel(w) \/ Forget(w)
    BY <2>2 DEF OpenMode, RouteMessage, Cancel, Forget, memory, history
  <2>3. CASE InsertComplaint(w) \/ Upload(w) \/ SetPhoto(w) \/ Created(w)
    BY <2>3 DEF InsertComplaint, Upload, SetPhoto, Created, memory, history
  <2>4. CASE CloseDialog(w) \/ Confirm(w) \/ NotifyAdmins(w)
    BY <2>4 DEF CloseDialog, Confirm, NotifyAdmins, memory, history, broadcasts
  <2>5. CASE AnswerSteps(w)
    BY <2>5 DEF AnswerSteps, ReadState, LookUp, StoreReply, CheckReply, ReadRecipient, CloseReply,
                Deliver, memory, history, broadcasts
  <2> QED BY <2>1, <2>2, <2>3, <2>4, <2>5 DEF WriteSteps
<1> QED BY <1>1, SupportAside, BroadcastMoves DEF Aside

\* The draft is written, taken, sent and forgotten.
LEMMA BroadcastBroadcasts ==
    ASSUME BotTypes, BotTypes', BroadcastInv, NEW w \in Workers, BroadcastSteps(w)
    PROVE  BroadcastInv'
<1>0. /\ worker \in [Workers -> Worker] /\ Equipped(worker[w])
      /\ draft \in [Admins -> Drafts \cup {None}]
      /\ heard \in [Drafts -> [TgIds -> Nat]] /\ DraftInv
      /\ \A d \in Drafts : d # None
  BY TelegramBotAssumption DEF BotTypes, TypeOK, BroadcastInv
<1>1. ASSUME End(w) PROVE /\ worker'[w].draft = None
                          /\ \A v \in Workers \ {w} : worker'[v] = worker[v]
  <2>1. worker'[w] = IdleWorker /\ \A v \in Workers \ {w} : worker'[v] = worker[v]
    BY <1>0, <1>1 DEF End
  <2> QED BY <2>1 DEF IdleWorker
<1>2. CASE WriteDraft(w)
  <2>1. /\ worker[w].pc = "handle" /\ worker[w].kind = "broadcast" /\ End(w)
        /\ UNCHANGED <<heard, overlapped>>
    BY <1>2 DEF WriteDraft, At, history
  <2>2. worker[w].from \in Admins /\ worker[w].draft = None
    BY <1>0, <2>1 DEF Equipped, Looking, AdminKinds, Sending
  <2>3. \A v \in Workers : worker'[v] = worker[v]
                            \/ (worker[v].draft = None /\ worker'[v].draft = None)
    BY <1>1, <2>1, <2>2
  <2>4. ASSUME NEW d \in Drafts \ Written, draft' = [draft EXCEPT ![worker[w].from] = d]
        PROVE  BroadcastInv'
    <3>1. /\ \A a \in Admins : draft[a] # d
          /\ \A v \in Workers : worker[v].draft # d
          /\ \A t \in TgIds : heard[d][t] = 0
      <4>1. \A t \in TgIds : ~(heard[d][t] > 0) BY <2>4 DEF Written
      <4> QED BY <1>0, <2>4, <4>1 DEF Written
    <3>2. /\ draft'[worker[w].from] = d
          /\ \A a \in Admins \ {worker[w].from} : draft'[a] = draft[a]
      BY <1>0, <2>2, <2>4
    <3>3. DraftInv'
      BY <1>0, <2>3, <3>1, <3>2 DEF DraftInv
    <3>4. ASSUME NEW e \in Drafts, e \notin overlapped PROVE SentInv(e)'
      <4>1. SentInv(e) BY <3>4 DEF BroadcastInv
      <4>2. \A v \in Workers : worker[v].draft = e \/ worker'[v].draft = e
                                  => worker'[v] = worker[v]
        BY <1>0, <2>3
      <4>3. \A a \in Admins, t \in TgIds :
                draft'[a] = e /\ heard[e][t] > 0 => draft[a] = e
        BY <1>0, <3>1, <3>2
      <4> QED BY <2>1, <4>1, <4>2, <4>3 DEF SentInv
    <3> QED BY <2>1, <3>3, <3>4 DEF BroadcastInv
  <2>5. CASE UNCHANGED draft
    <3>1. worker'[w].pc = "idle" /\ \A v \in Workers \ {w} : worker'[v] = worker[v]
      BY <1>0, <2>1 DEF End, IdleWorker
    <3> QED BY <2>1, <2>5, <3>1, BroadcastMoves DEF Sending
  <2> QED BY <1>2, <2>4, <2>5 DEF WriteDraft
<1>3. CASE TakeDraft(w)
  <2>1. /\ worker[w].pc = "handle" /\ worker[w].kind = "confirm"
        /\ UNCHANGED <<draft, heard>>
    BY <1>3 DEF TakeDraft, At, memory
  <2>2. worker[w].from \in Admins /\ worker[w].draft = None
    BY <1>0, <2>1 DEF Equipped, Looking, AdminKinds, Sending
  <2>3. CASE draft[worker[w].from] = None
    <3>1. End(w) /\ UNCHANGED overlapped BY <1>3, <2>3 DEF TakeDraft
    <3>2. worker'[w].pc = "idle" /\ \A v \in Workers \ {w} : worker'[v] = worker[v]
      BY <1>0, <3>1 DEF End, IdleWorker
    <3> QED BY <2>1, <3>1, <3>2, BroadcastMoves DEF Sending
  <2>4. CASE draft[worker[w].from] # None
    <3>1. PICK d \in Drafts : draft[worker[w].from] = d BY <1>0, <2>2, <2>4
    <3>2. /\ worker' = [worker EXCEPT ![w].pc = "list", ![w].draft = d]
          /\ overlapped' = IF \E v \in Workers : worker[v].draft = d
                           THEN overlapped \cup {d} ELSE overlapped
      BY <1>3, <2>4, <3>1 DEF TakeDraft
    <3> DEFINE r == [worker[w] EXCEPT !.pc = "list", !.draft = d]
    <3>3. r.pc = "list" /\ r.draft = d /\ r.from = worker[w].from BY <1>0 DEF Worker
    <3>4. worker' = [worker EXCEPT ![w] = r] BY <3>2
    <3> HIDE DEF r
    <3>5. worker'[w] = r /\ \A v \in Workers \ {w} : worker'[v] = worker[v]
      BY <1>0, <3>4
    <3>6. DraftInv' BY <1>0, <2>1, <2>2, <3>1, <3>3, <3>5 DEF DraftInv
    <3>7. ASSUME NEW e \in Drafts, e \notin overlapped' PROVE SentInv(e)'
      <4>1. SentInv(e) BY <3>2, <3>7 DEF BroadcastInv
      <4>2. CASE e = d
        <5>1. \A v \in Workers : worker[v].draft # d BY <3>2, <3>7, <4>2
        <5>2. \A t \in TgIds : heard[d][t] = 0
          BY <1>0, <2>2, <3>1, <4>1, <4>2, <5>1 DEF SentInv
        <5>3. \A v \in Workers : worker'[v].draft = d => v = w BY <3>5, <5>1
        <5> QED BY <2>1, <3>3, <3>5, <4>2, <5>2, <5>3 DEF SentInv
      <4>3. CASE e # d
        <5>1. \A v \in Workers : worker[v].draft = e \/ worker'[v].draft = e
                                    => worker'[v] = worker[v]
          BY <1>0, <2>2, <3>3, <3>5, <4>3
        <5> QED BY <2>1, <4>1, <5>1 DEF SentInv
      <4> QED BY <4>2, <4>3
    <3> QED BY <3>6, <3>7 DEF BroadcastInv
  <2> QED BY <2>3, <2>4
<1>4. CASE ListUsers(w)
  <2>1. worker[w].pc = "list" /\ UNCHANGED <<draft, heard, overlapped>>
    BY <1>4 DEF ListUsers, At, memory, history
  <2>2. CASE End(w)
    <3>1. /\ worker'[w].draft = None
          /\ \A v \in Workers \ {w} : worker'[v] = worker[v]
      BY <1>1, <2>2
    <3>2. DraftInv' BY <1>0, <2>1, <3>1 DEF DraftInv
    <3>3. ASSUME NEW e \in Drafts, e \notin overlapped PROVE SentInv(e)'
      <4>1. SentInv(e) BY <3>3 DEF BroadcastInv
      <4>2. \A v \in Workers : worker'[v].draft = e => worker'[v] = worker[v]
        BY <1>0, <3>1
      <4>3. ASSUME NEW a \in Admins, NEW t \in TgIds, draft[a] = e, heard[e][t] > 0
            PROVE  \E v \in Workers : worker'[v].draft = e
        <5>1. PICK v \in Workers : worker[v].draft = e BY <4>1, <4>3 DEF SentInv
        <5>2. worker[w].draft # e
          <6> SUFFICES ASSUME worker[w].draft = e PROVE FALSE OBVIOUS
          <6>1. heard[e][t] = 0 BY <2>1, <4>1 DEF SentInv
          <6> QED BY <4>3, <6>1
        <5> QED BY <3>1, <5>1, <5>2
      <4> QED BY <2>1, <4>1, <4>2, <4>3 DEF SentInv
    <3> QED BY <2>1, <3>2, <3>3 DEF BroadcastInv
  <2>3. CASE worker' = [worker EXCEPT ![w].pc = "send",
                                      ![w].left = {t \in TgIds : Registered(t)}]
    <3> DEFINE all == {t \in TgIds : Registered(t)}
               r == [worker[w] EXCEPT !.pc = "send", !.left = all]
    <3>1. worker' = [worker EXCEPT ![w] = r] BY <2>3
    <3> HIDE DEF all
    <3>2. r.pc = "send" /\ r.draft = worker[w].draft /\ r.from = worker[w].from
      BY <1>0 DEF Worker
    <3> HIDE DEF r
    <3>3. worker'[w] = r /\ \A v \in Workers \ {w} : worker'[v] = worker[v]
      BY <1>0, <3>1
    <3>4. DraftInv' BY <1>0, <2>1, <3>2, <3>3 DEF DraftInv
    <3>5. \A v \in Workers : worker'[v].draft = worker[v].draft BY <3>2, <3>3
    <3>6. ASSUME NEW e \in Drafts, e \notin overlapped PROVE SentInv(e)'
      <4>1. SentInv(e) BY <3>6 DEF BroadcastInv
      <4>2. \A v \in Workers, t \in TgIds :
               /\ worker'[v].draft = e
               /\ worker'[v].pc = "list" \/ t \in worker'[v].left
               => heard[e][t] = 0
        BY <2>1, <3>3, <3>5, <4>1 DEF SentInv
      <4> QED BY <2>1, <3>5, <4>1, <4>2 DEF SentInv
    <3> QED BY <2>1, <3>4, <3>6 DEF BroadcastInv
  <2> QED BY <1>4, <2>2, <2>3 DEF ListUsers
<1>5. CASE SendBroadcast(w)
  <2>1. /\ worker[w].pc = "send" /\ UNCHANGED <<draft, overlapped>>
    BY <1>5 DEF SendBroadcast, At, memory
  <2>2. PICK t \in worker[w].left :
           /\ worker' = [worker EXCEPT ![w].left = @ \ {t},
                           ![w].pc = IF worker[w].left = {t} THEN "finish" ELSE @]
           /\ heard' \in {heard, [heard EXCEPT ![worker[w].draft][t] = @ + 1]}
    BY <1>5 DEF SendBroadcast
  <2>3. t \in TgIds /\ worker[w].draft \in Drafts
    BY <1>0, <2>1 DEF Worker, Equipped, Sending
  <2> DEFINE pc == IF worker[w].left = {t} THEN "finish" ELSE worker[w].pc
             rest == worker[w].left \ {t}
             r == [worker[w] EXCEPT !.left = rest, !.pc = pc]
  <2>4. worker' = [worker EXCEPT ![w] = r] /\ pc # "list" BY <2>1, <2>2
  <2>5. rest \subseteq worker[w].left /\ t \notin rest OBVIOUS
  <2> HIDE DEF pc, rest
  <2>6. /\ r.pc = pc /\ r.left = rest /\ r.draft = worker[w].draft
        /\ r.from = worker[w].from
    BY <1>0 DEF Worker
  <2> HIDE DEF r
  <2>7. worker'[w] = r /\ \A v \in Workers \ {w} : worker'[v] = worker[v]
    BY <1>0, <2>4
  <2>8. \A v \in Workers : worker'[v].draft = worker[v].draft /\ worker'[v].from = worker[v].from
    BY <2>6, <2>7
  <2>9. DraftInv' BY <1>0, <2>1, <2>8 DEF DraftInv
  <2>10. \A e \in Drafts, u \in TgIds :
            heard'[e][u] = heard[e][u]
            \/ (e = worker[w].draft /\ u = t /\ heard'[e][u] = heard[e][u] + 1)
    <3>1. CASE heard' = heard BY <3>1
    <3>2. CASE heard' = [heard EXCEPT ![worker[w].draft][t] = @ + 1]
      BY <1>0, <2>3, <3>2
    <3> QED BY <2>2, <3>1, <3>2
  <2>11. ASSUME NEW e \in Drafts, e \notin overlapped PROVE SentInv(e)'
    <3>1. SentInv(e) BY <2>11 DEF BroadcastInv
    <3>2. e = worker[w].draft => heard[e][t] = 0 BY <2>2, <2>3, <3>1 DEF SentInv
    <3>3. \A u \in TgIds : heard'[e][u] <= 1
      <4> SUFFICES ASSUME NEW u \in TgIds PROVE heard'[e][u] <= 1 OBVIOUS
      <4>1. heard[e][u] <= 1 BY <3>1 DEF SentInv
      <4> QED BY <2>10, <3>2, <4>1
    <3>4. ASSUME NEW v \in Workers, NEW u \in TgIds, worker'[v].draft = e,
                 worker'[v].pc = "list" \/ u \in worker'[v].left
          PROVE  heard'[e][u] = 0
      <4>1. CASE v = w
        <5>1. u \in rest BY <2>4, <2>6, <2>7, <3>4, <4>1
        <5>2. u # t /\ u \in worker[w].left BY <2>5, <5>1
        <5>3. heard[e][u] = 0 BY <2>8, <3>1, <3>4, <4>1, <5>2 DEF SentInv
        <5> QED BY <2>10, <5>2, <5>3
      <4>2. CASE v # w
        <5>1. worker[v].draft = e /\ (worker[v].pc = "list" \/ u \in worker[v].left)
          BY <2>7, <3>4, <4>2
        <5>2. worker[w].draft # e BY <3>1, <4>2, <5>1 DEF SentInv
        <5>3. heard[e][u] = 0 BY <3>1, <5>1 DEF SentInv
        <5> QED BY <2>10, <5>2, <5>3
      <4> QED BY <4>1, <4>2
    <3>5. ASSUME NEW a \in Admins, NEW u \in TgIds, draft'[a] = e, heard'[e][u] > 0
          PROVE  \E v \in Workers : worker'[v].draft = e
      <4>1. CASE worker[w].draft = e BY <2>8, <4>1
      <4>2. CASE worker[w].draft # e
        <5>1. heard[e][u] > 0 BY <2>10, <3>5, <4>2
        <5>2. \E v \in Workers : worker[v].draft = e BY <2>1, <3>1, <3>5, <5>1 DEF SentInv
        <5> QED BY <2>8, <5>2
      <4> QED BY <4>1, <4>2
    <3>6. \A u, v \in Workers : worker'[u].draft = e /\ worker'[v].draft = e => u = v
      BY <2>8, <3>1 DEF SentInv
    <3> QED BY <3>3, <3>4, <3>5, <3>6 DEF SentInv
  <2> QED BY <2>1, <2>9, <2>11 DEF BroadcastInv
<1>6. CASE FinishBroadcast(w) \/ Discard(w)
  <2>1. /\ End(w) /\ UNCHANGED <<heard, overlapped>>
        /\ draft' = [draft EXCEPT ![worker[w].from] = None]
        /\ worker[w].from \in Admins
    <3>1. CASE FinishBroadcast(w)
      BY <1>0, <3>1 DEF FinishBroadcast, WithoutDraft, history, At, Equipped, Sending
    <3>2. CASE Discard(w)
      BY <1>0, <3>2 DEF Discard, history, At, Equipped, Looking, AdminKinds
    <3> QED BY <1>6, <3>1, <3>2
  <2>2. /\ worker'[w].draft = None
        /\ \A v \in Workers \ {w} : worker'[v] = worker[v]
    BY <1>1, <2>1
  <2>3. /\ draft'[worker[w].from] = None
        /\ \A a \in Admins \ {worker[w].from} : draft'[a] = draft[a]
    BY <1>0, <2>1
  <2>4. DraftInv' BY <1>0, <2>2, <2>3 DEF DraftInv
  <2>5. ASSUME NEW e \in Drafts, e \notin overlapped PROVE SentInv(e)'
    <3>1. SentInv(e) BY <2>5 DEF BroadcastInv
    <3>2. \A v \in Workers : worker'[v].draft = e => worker'[v] = worker[v]
      BY <1>0, <2>2
    <3>3. ASSUME NEW a \in Admins, NEW t \in TgIds, draft'[a] = e, heard[e][t] > 0
          PROVE  \E v \in Workers : worker'[v].draft = e
      <4>1. a # worker[w].from /\ draft[a] = e BY <1>0, <2>3, <3>3
      <4>2. PICK v \in Workers : worker[v].draft = e BY <3>1, <3>3, <4>1 DEF SentInv
      <4>3. v # w BY <1>0, <4>1, <4>2 DEF DraftInv
      <4> QED BY <2>2, <4>2, <4>3
    <3> QED BY <2>1, <3>1, <3>2, <3>3 DEF SentInv
  <2> QED BY <2>1, <2>4, <2>5 DEF BroadcastInv
<1> QED BY <1>2, <1>3, <1>4, <1>5, <1>6 DEF BroadcastSteps

LEMMA PanelBroadcasts ==
    ASSUME BotTypes, BotTypes', BroadcastInv, PanelSteps PROVE BroadcastInv'
<1>1. CASE CreateInPanel \/ DeleteComplaint
  <2>1. UNCHANGED <<draft, heard, overlapped, worker>>
    BY <1>1 DEF CreateInPanel, DeleteComplaint, memory, history
  <2> QED BY <2>1, BroadcastMoves
<1>2. CASE Crash
  <2>1. /\ UNCHANGED <<heard, overlapped>> /\ \A a \in Admins : draft'[a] = None
        /\ \A v \in Workers : worker'[v] = IdleWorker
    BY <1>2 DEF Crash, history
  <2>2. \A v \in Workers : worker'[v].draft = None BY <2>1 DEF IdleWorker
  <2>3. DraftInv' BY <2>1 DEF DraftInv
  <2>4. ASSUME NEW e \in Drafts, e \notin overlapped PROVE SentInv(e)'
    <3>1. e # None BY TelegramBotAssumption
    <3>2. SentInv(e) BY <2>4 DEF BroadcastInv
    <3> QED BY <2>1, <2>2, <3>1, <3>2 DEF SentInv
  <2> QED BY <2>1, <2>3, <2>4 DEF BroadcastInv
<1> QED BY <1>1, <1>2 DEF PanelSteps

LEMMA BroadcastsInit == Init => BroadcastInv
<1> SUFFICES ASSUME Init PROVE BroadcastInv OBVIOUS
<1>1. /\ worker = [w \in Workers |-> IdleWorker] /\ draft = [a \in Admins |-> None]
      /\ heard = [d \in Drafts |-> [t \in TgIds |-> 0]] /\ overlapped = {}
  BY DEF Init
<1>2. DraftInv BY <1>1 DEF DraftInv
<1>3. ASSUME NEW d \in Drafts PROVE SentInv(d)
  <2>1. d # None BY TelegramBotAssumption
  <2>2. \A w \in Workers : worker[w].draft = None BY <1>1 DEF IdleWorker
  <2>3. \A t \in TgIds : heard[d][t] = 0 BY <1>1
  <2> QED BY <1>1, <2>1, <2>2, <2>3 DEF SentInv
<1> QED BY <1>2, <1>3 DEF BroadcastInv

LEMMA BroadcastsNext == BotTypes /\ BotTypes' /\ BroadcastInv /\ [Next]_vars => BroadcastInv'
<1> SUFFICES ASSUME BotTypes, BotTypes', BroadcastInv, [Next]_vars PROVE BroadcastInv'
  OBVIOUS
<1>1. CASE Next BY <1>1, Steps, SupportBroadcasts, BroadcastBroadcasts, PanelBroadcasts
<1>2. CASE UNCHANGED vars
  <2>1. UNCHANGED <<draft, heard, overlapped, worker>> BY <1>2 DEF vars
  <2> QED BY <2>1, BroadcastMoves
<1> QED BY <1>1, <1>2

-----------------------------------------------------------------------------
(***************************************************************************)
(* Nothing stored is undone                                                *)
(***************************************************************************)

\* The row of a complaint after one step of anybody.
Kept(c, old, new) ==
    /\ old.reply # new.reply =>
         \E w \in Workers : /\ Storing(w, c, new.reply)
                            /\ new.reply = None => worker[w].kind \in PanelKinds
    /\ old.status = "resolved" /\ new.status \notin {"resolved", "deleted"} =>
         \E w \in Workers : Storing(w, c, new.reply) /\ worker[w].kind = "update"
    /\ old.photo => new.photo
    /\ old.status = "deleted" => new = old
    /\ old.author # None => new.author = old.author

\* A row that stays as it is, and one that is inserted.
LEMMA KeptRows ==
    ASSUME BotTypes, NEW c \in Complaints
    PROVE  /\ Kept(c, complaint[c], complaint[c])
           /\ complaint[c] = NoComplaint =>
                \A row \in Complaint :
                  row.status = "new" /\ row.reply = None => Kept(c, complaint[c], row)
<1>1. complaint[c] \in Complaint BY DEF BotTypes, TypeOK
<1>2. /\ NoComplaint.status = "none" /\ NoComplaint.reply = None
      /\ NoComplaint.photo = FALSE /\ NoComplaint.author = None
  BY DEF NoComplaint
<1> QED BY <1>1, <1>2 DEF Kept, Complaint

LEMMA KeptStep ==
    BotTypes /\ [Next]_vars => \A c \in Complaints : Kept(c, complaint[c], complaint'[c])
<1> SUFFICES ASSUME BotTypes, [Next]_vars, NEW c \in Complaints
             PROVE  Kept(c, complaint[c], complaint'[c])
  OBVIOUS
<1>0. complaint \in [Complaints -> Complaint] BY DEF BotTypes, TypeOK
<1>1. CASE UNCHANGED complaint BY <1>1, KeptRows
<1>2. ASSUME NEW d \in Complaints, NEW row \in Complaint, Kept(d, complaint[d], row),
             complaint' = [complaint EXCEPT ![d] = row]
      PROVE  Kept(c, complaint[c], complaint'[c])
  BY <1>0, <1>2, KeptRows
<1>3. ASSUME NEW w \in Workers, InsertComplaint(w) PROVE Kept(c, complaint[c], complaint'[c])
  <2>1. worker[w].from \in TgIds
    BY <1>3 DEF BotTypes, InsertComplaint, At, Equipped, Personal
  <2>2. ASSUME NEW d \in Complaints, complaint[d] = NoComplaint,
               complaint' = [complaint EXCEPT ![d] =
                    [NoComplaint EXCEPT !.status = "new", !.author = worker[w].from]]
        PROVE  Kept(c, complaint[c], complaint'[c])
    <3> DEFINE row == [NoComplaint EXCEPT !.status = "new", !.author = worker[w].from]
    <3>1. row \in Complaint /\ row.status = "new" /\ row.reply = None
      BY <2>1 DEF NoComplaint, Complaint
    <3> HIDE DEF row
    <3>2. Kept(d, complaint[d], row) BY <2>2, <3>1, KeptRows
    <3>3. complaint' = [complaint EXCEPT ![d] = row] BY <2>2 DEF row
    <3> QED BY <1>2, <3>1, <3>2, <3>3
  <2> QED BY <1>1, <1>3, <2>2 DEF InsertComplaint
<1>4. ASSUME NEW w \in Workers, SetPhoto(w) PROVE Kept(c, complaint[c], complaint'[c])
  <2>1. complaint' = WithPhoto(worker[w].complaint) /\ worker[w].complaint \in Complaints
    BY <1>4 DEF BotTypes, SetPhoto, At, Equipped, OfARow
  <2>2. CASE /\ Exists(worker[w].complaint)
             /\ complaint' = [complaint EXCEPT ![worker[w].complaint].photo = TRUE]
    <3> DEFINE row == [complaint[worker[w].complaint] EXCEPT !.photo = TRUE]
    <3>0. complaint[worker[w].complaint] \in Complaint BY <1>0, <2>1
    <3>1. row \in Complaint BY <3>0 DEF Complaint
    <3>2. Kept(worker[w].complaint, complaint[worker[w].complaint], row)
      BY <2>2, <3>0 DEF Kept, Complaint, Exists
    <3>3. complaint' = [complaint EXCEPT ![worker[w].complaint] = row] BY <2>2
    <3> HIDE DEF row
    <3> QED BY <1>2, <2>1, <3>1, <3>2, <3>3
  <2> QED BY <1>1, <2>1, <2>2 DEF WithPhoto
<1>5. ASSUME NEW w \in Workers, StoreReply(w) PROVE Kept(c, complaint[c], complaint'[c])
  <2>1. /\ worker[w].complaint \in Complaints /\ worker[w].text \in Answers
        /\ Storing(w, worker[w].complaint, worker[w].text)
    BY <1>5 DEF BotTypes, TypeOK, StoreReply, At, Equipped, OfARow, Worker, Storing
  <2>0. worker[w].text = None => worker[w].kind \in PanelKinds
    BY <1>5, TelegramBotAssumption DEF BotTypes, StoreReply, At, Equipped
  <2>2. ASSUME NEW status \in Statuses, Exists(worker[w].complaint),
               status = "resolved" \/ worker[w].kind = "update",
               complaint' = [complaint EXCEPT ![worker[w].complaint].status = status,
                                              ![worker[w].complaint].reply = worker[w].text]
        PROVE  Kept(c, complaint[c], complaint'[c])
    <3> DEFINE row == [complaint[worker[w].complaint] EXCEPT !.status = status,
                                                             !.reply = worker[w].text]
    <3>0. complaint[worker[w].complaint] \in Complaint BY <1>0, <2>1
    <3>1. row \in Complaint BY <2>1, <3>0 DEF Complaint
    <3>2. /\ row.reply = worker[w].text /\ row.status = status
          /\ row.photo = complaint[worker[w].complaint].photo
          /\ row.author = complaint[worker[w].complaint].author
      BY <3>0 DEF Complaint
    <3>3. complaint' = [complaint EXCEPT ![worker[w].complaint] = row] BY <2>2
    <3> HIDE DEF row
    <3>4. Kept(worker[w].complaint, complaint[worker[w].complaint], row)
      BY <2>0, <2>1, <2>2, <3>2 DEF Kept, Exists
    <3> QED BY <1>2, <2>1, <3>1, <3>3, <3>4
  <2>3. CASE ~Exists(worker[w].complaint) BY <1>1, <1>5, <2>3 DEF StoreReply
  <2>4. CASE Exists(worker[w].complaint)
    <3>1. \E status \in IF worker[w].kind = "update" THEN Statuses ELSE {"resolved"} :
            complaint' = [complaint EXCEPT ![worker[w].complaint].status = status,
                                           ![worker[w].complaint].reply = worker[w].text]
      BY <1>5, <2>4 DEF StoreReply
    <3> QED BY <2>2, <2>4, <3>1
  <2> QED BY <2>3, <2>4
<1>6. CASE PanelSteps
  <2>1. CASE CreateInPanel
    <3>1. PICK d \in Complaints, t \in TgIds :
             /\ complaint[d] = NoComplaint
             /\ complaint' = [complaint EXCEPT ![d] =
                  [NoComplaint EXCEPT !.status = "new", !.author = t]]
      BY <2>1 DEF CreateInPanel
    <3> DEFINE row == [NoComplaint EXCEPT !.status = "new", !.author = t]
    <3>2. row \in Complaint /\ row.status = "new" /\ row.reply = None
      BY DEF NoComplaint, Complaint
    <3>3. complaint' = [complaint EXCEPT ![d] = row] BY <3>1
    <3> HIDE DEF row
    <3>4. Kept(d, complaint[d], row) BY <3>1, <3>2, KeptRows
    <3> QED BY <1>2, <3>2, <3>3, <3>4
  <2>2. CASE DeleteComplaint
    <3>1. PICK d \in Complaints :
             /\ Exists(d) /\ complaint' = [complaint EXCEPT ![d].status = "deleted"]
      BY <2>2 DEF DeleteComplaint
    <3> DEFINE row == [complaint[d] EXCEPT !.status = "deleted"]
    <3>2. row \in Complaint BY <1>0 DEF Complaint
    <3>3. Kept(d, complaint[d], row) BY <1>0, <3>1 DEF Kept, Complaint, Exists
    <3>4. complaint' = [complaint EXCEPT ![d] = row] BY <3>1
    <3> HIDE DEF row
    <3> QED BY <1>2, <3>2, <3>3, <3>4
  <2>3. CASE Crash BY <1>1, <2>3 DEF Crash, tables
  <2> QED BY <1>6, <2>1, <2>2, <2>3 DEF PanelSteps
<1>7. ASSUME NEW w \in Workers,
             FindSteps(w) \/ WriteSteps(w) \/ AnswerSteps(w) \/ BroadcastSteps(w)
      PROVE  Kept(c, complaint[c], complaint'[c])
  <2>1. CASE FindSteps(w)
    BY <1>1, <2>1
    DEF FindSteps, Receive, PressReply, FindAccount, CreateAccount, FindAgain, tables
  <2>2. CASE \/ OpenMode(w) \/ RouteMessage(w) \/ Cancel(w) \/ Forget(w) \/ Upload(w)
             \/ Created(w) \/ CloseDialog(w) \/ Confirm(w) \/ NotifyAdmins(w)
    BY <1>1, <2>2 DEF OpenMode, RouteMessage, Cancel, Forget, Upload, Created, CloseDialog,
                      Confirm, NotifyAdmins, tables
  <2>3. CASE WriteSteps(w) BY <1>3, <1>4, <2>2, <2>3 DEF WriteSteps
  <2>4. CASE \/ ReadState(w) \/ LookUp(w) \/ CheckReply(w) \/ ReadRecipient(w)
             \/ CloseReply(w) \/ Deliver(w)
    BY <1>1, <2>4 DEF ReadState, LookUp, CheckReply, ReadRecipient, CloseReply, Deliver, tables
  <2>5. CASE AnswerSteps(w) BY <1>5, <2>4, <2>5 DEF AnswerSteps
  <2>6. CASE BroadcastSteps(w)
    <3>1. UNCHANGED complaint
      BY <2>6 DEF BroadcastSteps, WriteDraft, TakeDraft, ListUsers, SendBroadcast,
                  FinishBroadcast, Discard, tables
    <3> QED BY <1>1, <3>1
  <2> QED BY <1>7, <2>1, <2>3, <2>5, <2>6
<1>8. CASE UNCHANGED vars BY <1>1, <1>8 DEF vars
<1> QED BY <1>6, <1>7, <1>8, Steps

-----------------------------------------------------------------------------
(***************************************************************************)
(* Theorems                                                                *)
(***************************************************************************)

\* BotInv is an inductive invariant of the bot.
THEOREM BotInvariant == Spec => []BotInv
<1>1. Init => BotInv BY TypesInit, RepliesInit, BroadcastsInit DEF BotInv
<1>2. BotInv /\ [Next]_vars => BotInv'
  BY TypesNext, RepliesNext, BroadcastsNext DEF BotInv
<1> QED BY <1>1, <1>2, PTL DEF Spec

\* Every variable of the bot keeps its type.
THEOREM BotTypeCorrect == Spec => []TypeOK
<1>1. BotInv => TypeOK BY DEF BotInv, BotTypes
<1> QED BY <1>1, BotInvariant, PTL

\* However many goroutines run EnsureTelegramUser for one account, it gets one user.
THEOREM OneUserEach == Spec => []OneUserPerAccount
<1>1. BotInv => OneUserPerAccount BY DEF BotInv, BotTypes
<1> QED BY <1>1, BotInvariant, PTL

\* Who gets a reply is the author of the complaint it was stored for; what is published for
\* nobody names no complaint.
THEOREM AuthorsAreAnswered == Spec => []RepliesReachTheAuthor
<1>1. BotInv => RepliesReachTheAuthor
  BY DEF BotInv, ReplyInv, Sent, RepliesReachTheAuthor
<1> QED BY <1>1, BotInvariant, PTL

\* No account hears a broadcast twice unless its confirmations overlapped.
THEOREM BroadcastOnce == Spec => []HeardOnce
<1>1. BotInv => HeardOnce BY DEF BotInv, BroadcastInv, SentInv, HeardOnce
<1> QED BY <1>1, BotInvariant, PTL

\* A stored reply or a resolution is replaced only by another answer to the same complaint,
\* and by an empty one only from the panel; photo, deletion and author stay.
THEOREM StoredStays == Spec => NothingStoredIsUndone
<1>1. BotInv /\ [Next]_vars =>
        [\A c \in Complaints :
           LET old == complaint[c]  new == complaint'[c] IN
           /\ old.reply # new.reply =>
                \E w \in Workers : /\ Storing(w, c, new.reply)
                                   /\ new.reply = None => worker[w].kind \in PanelKinds
           /\ old.status = "resolved" /\ new.status \notin {"resolved", "deleted"} =>
                \E w \in Workers : Storing(w, c, new.reply) /\ worker[w].kind = "update"
           /\ old.photo => new.photo
           /\ old.status = "deleted" => new = old
           /\ old.author # None => new.author = old.author]_complaint
  BY KeptStep DEF BotInv, Kept
<1> QED BY <1>1, BotInvariant, PTL DEF Spec, NothingStoredIsUndone
=============================================================================
