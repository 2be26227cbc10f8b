------------------------------ MODULE TelegramBot ------------------------------
(***************************************************************************)
(* The support dialogs, accounts and broadcasts of the Telegram bot, with  *)
(* the panel's requests that change the same complaints.                   *)
(*                                                                         *)
(* The bot runs every update in a goroutine of its own and keeps what a    *)
(* chat is doing (StateStore) in memory; a crash loses both.  A statement, *)
(* a transaction, a call of StateStore and a message are one action each.  *)
(* What was delivered is kept in history variables.                        *)
(***************************************************************************)
EXTENDS Integers, FiniteSets

CONSTANTS
    TgIds,       \* Telegram accounts
    Admins,      \* TELEGRAM_ADMIN_IDS
    Complaints,  \* complaint ids
    Texts,       \* texts of replies
    Drafts,      \* texts of broadcasts, each written once
    Workers,     \* goroutines
    MaxUpdates,  \* bound: updates and requests received
    None         \* nothing, and the recipient 0

ASSUME TelegramBotAssumption ==
    /\ Admins \subseteq TgIds
    /\ MaxUpdates \in Nat
    /\ None \notin TgIds \cup Complaints \cup Texts \cup Drafts

VARIABLES
    account,    \* users and telegrams: how many rows of each an account has
    complaint,  \* complaints: id -> row
    mode,       \* StateStore.states
    draft,      \* StateStore.broadcastDrafts
    worker,     \* program state of the goroutines
    updates,
    announced,  \* history: complaints whose notification reached an admin
    stored,     \* history: replies that were ever stored
    delivered,  \* history: replies sent, and to whom
    heard,      \* history: how often a draft was sent to an account
    overlapped  \* history: drafts confirmed while another confirmation sent them

vars == <<account, complaint, mode, draft, worker, updates,
          announced, stored, delivered, heard, overlapped>>

tables == <<account, complaint>>
memory == <<mode, draft>>
replies == <<stored, delivered>>
broadcasts == <<heard, overlapped>>
history == <<announced, stored, delivered, heard, overlapped>>

-----------------------------------------------------------------------------
(***************************************************************************)
(* Values                                                                  *)
(***************************************************************************)

Account == [users: Nat, telegrams: 0..1]

\* What is stored and sent as a reply; None is the empty one.
Answers == Texts \cup {None}

\* "new" is every status but "resolved": the panel stores what a request names, also "".
Statuses == {"new", "resolved"}

\* The author stands for the Telegram id and the user of a row.
Complaint ==
    [status: Statuses \cup {"none", "deleted"}, author: TgIds \cup {None},
     reply: Answers, photo: BOOLEAN]

NoComplaint ==
    [status |-> "none", author |-> None, reply |-> None, photo |-> FALSE]

Exists(c) == complaint[c].status \in Statuses

Mode == [kind: {"none", "support", "reply"}, complaint: Complaints \cup {None}]

NoMode == [kind |-> "none", complaint |-> None]

\* Updates of the bot, and requests of the panel's HTTP interface.
BotKinds   == {"start", "support", "text", "photo", "cancel", "stop",
               "broadcast", "confirm", "discard"}
PanelKinds == {"post", "post_photo", "reply", "update"}
AdminKinds == {"broadcast", "confirm", "discard"}

Worker ==
    [pc: {"idle", "find", "create", "find_again", "handle", "insert", "upload", "photo",
          "created", "close", "confirm", "notify", "state", "lookup", "store", "check",
          "publish", "answered", "deliver", "forget", "list", "send", "finish"},
     kind: BotKinds \cup PanelKinds \cup {"dialog", None}, from: TgIds \cup {None},
     complaint: Complaints \cup {None}, text: Answers,
     to: TgIds \cup {None}, draft: Drafts \cup {None}, left: SUBSET TgIds]

IdleWorker ==
    [pc |-> "idle", kind |-> None, from |-> None, complaint |-> None, text |-> None,
     to |-> None, draft |-> None, left |-> {}]

\* Some accounts are known, and the admins know of complaints of theirs.
Init ==
    /\ account \in {[t \in TgIds |-> [users |-> n, telegrams |-> n]] : n \in {0, 1}}
    /\ \E by \in [Complaints -> {None} \cup {t \in TgIds : account[t].users = 1}] :
         /\ complaint = [c \in Complaints |-> IF by[c] = None THEN NoComplaint
                          ELSE [NoComplaint EXCEPT !.status = "new", !.author = by[c]]]
         /\ announced = {c \in Complaints : by[c] # None}
    /\ mode = [t \in TgIds |-> NoMode]
    /\ draft = [a \in Admins |-> None]
    /\ worker = [w \in Workers |-> IdleWorker]
    /\ updates = 0
    /\ stored = {} /\ delivered = {}
    /\ heard = [d \in Drafts |-> [t \in TgIds |-> 0]]
    /\ overlapped = {}

At(w, pc) == worker[w].pc = pc

Goto(w, pc) == worker' = [worker EXCEPT ![w].pc = pc]

End(w) == worker' = [worker EXCEPT ![w] = IdleWorker]

Registered(t) == account[t].telegrams > 0

-----------------------------------------------------------------------------
(***************************************************************************)
(* Updates and requests, and the account behind an update                  *)
(***************************************************************************)

\* An update or a request arrives.  The panel's requests name a complaint
\* that was there when it was listed, or an account; their reply may be empty.
Receive(w) ==
    /\ At(w, "idle")
    /\ updates < MaxUpdates
    /\ updates' = updates + 1
    /\ \/ \E t \in TgIds, k \in BotKinds :
            /\ k \in AdminKinds => t \in Admins
            /\ worker' = [worker EXCEPT ![w] = [IdleWorker EXCEPT
                            !.pc = "find", !.kind = k, !.from = t]]
       \/ \E t \in TgIds, k \in {"post", "post_photo"} :
            worker' = [worker EXCEPT ![w] = [IdleWorker EXCEPT
                            !.pc = "insert", !.kind = k, !.from = t]]
       \/ \E c \in Complaints, x \in Answers, k \in {"reply", "update"} :
            /\ complaint[c] # NoComplaint
            /\ worker' = [worker EXCEPT ![w] = [IdleWorker EXCEPT
                            !.pc = "store", !.kind = k, !.complaint = c, !.text = x]]
    /\ UNCHANGED <<tables, memory, history>>

\* The button "reply" of a notification: only admins have one, and only they may use it.
PressReply(w) ==
    /\ At(w, "idle")
    /\ updates < MaxUpdates
    /\ updates' = updates + 1
    /\ \E a \in Admins, c \in announced :
         worker' = [worker EXCEPT ![w] = [IdleWorker EXCEPT
                        !.pc = "find", !.kind = "dialog", !.from = a, !.complaint = c]]
    /\ UNCHANGED <<tables, memory, history>>

\* EnsureTelegramUser: the account, or a failed lookup, which ends the update.
FindAccount(w) ==
    /\ At(w, "find")
    /\ \/ Goto(w, IF Registered(worker[w].from) THEN "handle" ELSE "create")
       \/ End(w)
    /\ UNCHANGED <<tables, memory, updates, history>>

\* Faulty: without the unique index.
InsertionOfAnother(acc) == [users |-> acc.users + 1, telegrams |-> acc.telegrams + 1]

\* Faulty: two statements, of which the second one fails.
InsertionInTwo(acc) == [users |-> acc.users + 1, telegrams |-> 1]

\* One transaction inserts the user and the telegram row; tg_id is unique.
Insertion(acc) ==
    IF acc.telegrams = 0 THEN [users |-> acc.users + 1, telegrams |-> 1] ELSE acc

CreateAccount(w) ==
    LET t == worker[w].from IN
    /\ At(w, "create")
    /\ \/ /\ account' = [account EXCEPT ![t] = Insertion(@)]
          /\ Goto(w, IF Registered(t) THEN "find_again" ELSE "handle")
       \/ /\ Goto(w, "find_again")
          /\ UNCHANGED account
    /\ UNCHANGED <<complaint, memory, updates, history>>

FindAgain(w) ==
    /\ At(w, "find_again")
    /\ \/ Registered(worker[w].from) /\ Goto(w, "handle")
       \/ End(w)
    /\ UNCHANGED <<tables, memory, updates, history>>

-----------------------------------------------------------------------------
(***************************************************************************)
(* Support: a user writes                                                  *)
(***************************************************************************)

\* handleStart has nothing left to do; handleSupportOpen; handleSupportReplyStart.
OpenMode(w) ==
    LET t == worker[w].from IN
    /\ At(w, "handle")
    /\ worker[w].kind \in {"start", "support", "dialog"}
    /\ mode' = CASE worker[w].kind = "start"   -> mode
                 [] worker[w].kind = "support" ->
                      [mode EXCEPT ![t] = [kind |-> "support", complaint |-> None]]
                 [] worker[w].kind = "dialog"  ->
                      [mode EXCEPT ![t] = [kind |-> "reply", complaint |-> worker[w].complaint]]
    /\ End(w)
    /\ UNCHANGED <<tables, draft, updates, history>>

\* handleText and handlePhoto look the mode up and choose the handler.
RouteMessage(w) ==
    LET k == mode[worker[w].from].kind IN
    /\ At(w, "handle")
    /\ worker[w].kind \in {"text", "photo"}
    /\ CASE k = "support" -> Goto(w, "insert")
         [] k = "reply" /\ worker[w].kind = "text" -> Goto(w, "state")
         [] OTHER -> End(w)
    /\ UNCHANGED <<tables, memory, updates, history>>

\* /cancel without anything to cancel does nothing; the button clears in any case.
Cancel(w) ==
    /\ At(w, "handle")
    /\ worker[w].kind \in {"cancel", "stop"}
    /\ IF worker[w].kind = "cancel" /\ mode[worker[w].from] = NoMode
       THEN End(w) ELSE Goto(w, "forget")
    /\ UNCHANGED <<tables, memory, updates, history>>

Forget(w) ==
    /\ At(w, "forget")
    /\ mode' = [mode EXCEPT ![worker[w].from] = NoMode]
    /\ End(w)
    /\ UNCHANGED <<tables, draft, updates, history>>

HasPhoto(w) == worker[w].kind \in {"photo", "post_photo"}

\* CreateComplaint: the account of the sender and the row, or an error.
InsertComplaint(w) ==
    LET t == worker[w].from IN
    /\ At(w, "insert")
    /\ \/ /\ Registered(t)
          /\ \E c \in Complaints :
               /\ complaint[c] = NoComplaint
               /\ complaint' = [complaint EXCEPT ![c] =
                    [NoComplaint EXCEPT !.status = "new", !.author = t]]
               /\ worker' = [worker EXCEPT
                    ![w].pc = IF HasPhoto(w) THEN "upload" ELSE "created",
                    ![w].complaint = c]
       \/ End(w) /\ UNCHANGED complaint
    /\ UNCHANGED <<account, memory, updates, history>>

\* The upload may fail: the row stays, without a photo.
Upload(w) ==
    /\ At(w, "upload")
    /\ Goto(w, "photo") \/ End(w)
    /\ UNCHANGED <<tables, memory, updates, history>>

\* Faulty: the row is saved as it was created.
WithRowSaved(c) ==
    [complaint EXCEPT ![c] = [@ EXCEPT !.status = "new", !.reply = None, !.photo = TRUE]]

\* UPDATE ... SET photo of the row with this id: the other columns keep their values.
WithPhoto(c) ==
    IF Exists(c) THEN [complaint EXCEPT ![c].photo = TRUE] ELSE complaint

SetPhoto(w) ==
    /\ At(w, "photo")
    /\ complaint' = WithPhoto(worker[w].complaint)
    /\ Goto(w, "created")
    /\ UNCHANGED <<account, memory, updates, history>>

\* SetPhoto of the bot reads the row again; the panel's request is done.
Created(w) ==
    /\ At(w, "created")
    /\ IF \/ worker[w].kind \in PanelKinds
          \/ HasPhoto(w) /\ ~Exists(worker[w].complaint)
       THEN End(w) ELSE Goto(w, "close")
    /\ UNCHANGED <<tables, memory, updates, history>>

CloseDialog(w) ==
    /\ At(w, "close")
    /\ mode' = [mode EXCEPT ![worker[w].from] = NoMode]
    /\ Goto(w, "confirm")
    /\ UNCHANGED <<tables, draft, updates, history>>

\* The user's confirmation; when it cannot be sent the handler ends.
Confirm(w) ==
    /\ At(w, "confirm")
    /\ Goto(w, "notify") \/ End(w)
    /\ UNCHANGED <<tables, memory, updates, history>>

NotifyAdmins(w) ==
    /\ At(w, "notify")
    /\ announced' \in {announced, announced \cup {worker[w].complaint}}
    /\ End(w)
    /\ UNCHANGED <<tables, memory, updates, replies, broadcasts>>

-----------------------------------------------------------------------------
(***************************************************************************)
(* Support: an admin answers, in the bot or in the panel                   *)
(***************************************************************************)

\* handleSupportReplyText reads the state again.
ReadState(w) ==
    LET m == mode[worker[w].from] IN
    /\ At(w, "state")
    /\ IF m.kind # "reply"
       THEN Goto(w, "forget")
       ELSE \E x \in Texts :
              worker' = [worker EXCEPT ![w].pc = "lookup", ![w].complaint = m.complaint,
                                       ![w].text = x]
    /\ UNCHANGED <<tables, memory, updates, history>>

LookUp(w) ==
    /\ At(w, "lookup")
    /\ IF Exists(worker[w].complaint) THEN Goto(w, "store") ELSE End(w)
    /\ UNCHANGED <<tables, memory, updates, history>>

\* SetReply resolves the complaint; UpdateComplaint sets reply and status to those of
\* the request, also when it names only one of them.  No row is not an error of the
\* statement, but UpdateComplaint looks for it.
StoreReply(w) ==
    LET c == worker[w].complaint
        s == IF worker[w].kind = "update" THEN Statuses ELSE {"resolved"}
    IN
    /\ At(w, "store")
    /\ IF Exists(c)
       THEN /\ \E status \in s :
                 complaint' = [complaint EXCEPT ![c].status = status,
                                                ![c].reply = worker[w].text]
            /\ stored' = stored \cup {<<c, worker[w].text>>}
       ELSE UNCHANGED <<complaint, stored>>
    /\ Goto(w, "check")
    /\ UNCHANGED <<account, memory, updates, announced, delivered, broadcasts>>

\* The row is read again, and in the bot the account of its user: either may fail when the
\* reply is stored.  UpdateComplaint goes on with the reply it reads.
CheckReply(w) ==
    LET c == worker[w].complaint IN
    /\ At(w, "check")
    /\ \/ /\ Exists(c)
          /\ worker' = [worker EXCEPT
               ![w].pc = CASE worker[w].kind = "reply"  -> "publish"
                           [] worker[w].kind = "update" -> "deliver"
                           [] OTHER -> "answered",
               ![w].to = complaint[c].author,
               ![w].text = IF worker[w].kind = "update" THEN complaint[c].reply ELSE @]
       \/ End(w)
    /\ UNCHANGED <<tables, memory, updates, history>>

AuthorOf(c) == IF Exists(c) THEN complaint[c].author ELSE None

\* The panel reads the row once more and ignores an error, of whatever kind.
ReadRecipient(w) ==
    /\ At(w, "publish")
    /\ \E to \in {AuthorOf(worker[w].complaint), None} :
         worker' = [worker EXCEPT ![w].pc = "deliver", ![w].to = to]
    /\ UNCHANGED <<tables, memory, updates, history>>

CloseReply(w) ==
    /\ At(w, "answered")
    /\ mode' = [mode EXCEPT ![worker[w].from] = NoMode]
    /\ Goto(w, "deliver")
    /\ UNCHANGED <<tables, draft, updates, history>>

\* Faulty: the complaint is looked up in the state of the chat once more.
ReplyOfChat(w) ==
    IF worker[w].kind = "text" /\ mode[worker[w].from].kind = "reply"
    THEN [to |-> AuthorOf(mode[worker[w].from].complaint),
          complaint |-> worker[w].complaint, text |-> worker[w].text]
    ELSE [to |-> worker[w].to, complaint |-> worker[w].complaint, text |-> worker[w].text]

\* Without the row a task names neither an account nor a complaint: it is for nobody.
Reply(w) == [to |-> worker[w].to, text |-> worker[w].text,
             complaint |-> IF worker[w].to = None THEN None ELSE worker[w].complaint]

\* The bot sends the reply, the panel publishes it; or that fails.
Deliver(w) ==
    /\ At(w, "deliver")
    /\ delivered' \in {delivered, delivered \cup {Reply(w)}}
    /\ End(w)
    /\ UNCHANGED <<tables, memory, updates, announced, stored, broadcasts>>

-----------------------------------------------------------------------------
(***************************************************************************)
(* Broadcasts                                                              *)
(***************************************************************************)

Written == {d \in Drafts : \E a \in Admins : draft[a] = d}
           \cup {worker[w].draft : w \in Workers}
           \cup {d \in Drafts : \E t \in TgIds : heard[d][t] > 0}

\* /broadcast keeps a draft, or fails to count the users; the buttons of its preview are "confirm" and "discard".
WriteDraft(w) ==
    /\ At(w, "handle")
    /\ worker[w].kind = "broadcast"
    /\ \/ \E d \in Drafts \ Written : draft' = [draft EXCEPT ![worker[w].from] = d]
       \/ UNCHANGED draft
    /\ End(w)
    /\ UNCHANGED <<tables, mode, updates, history>>

TakeDraft(w) ==
    LET d == draft[worker[w].from] IN
    /\ At(w, "handle")
    /\ worker[w].kind = "confirm"
    /\ IF d = None
       THEN End(w) /\ UNCHANGED overlapped
       ELSE /\ worker' = [worker EXCEPT ![w].pc = "list", ![w].draft = d]
            /\ overlapped' = IF \E v \in Workers : worker[v].draft = d
                             THEN overlapped \cup {d} ELSE overlapped
    /\ UNCHANGED <<tables, memory, updates, announced, replies, heard>>

ListUsers(w) ==
    /\ At(w, "list")
    /\ \/ worker' = [worker EXCEPT ![w].pc = "send", ![w].left = {t \in TgIds : Registered(t)}]
       \/ End(w)
    /\ UNCHANGED <<tables, memory, updates, history>>

\* A message to one of them, or the failure to send it, which the others do not notice.
SendBroadcast(w) ==
    /\ At(w, "send")
    /\ \E t \in worker[w].left :
         /\ worker' = [worker EXCEPT ![w].left = @ \ {t},
                                     ![w].pc = IF worker[w].left = {t} THEN "finish" ELSE @]
         /\ heard' \in {heard, [heard EXCEPT ![worker[w].draft][t] = @ + 1]}
    /\ UNCHANGED <<tables, memory, updates, announced, replies, overlapped>>

\* Faulty: it stays.
WithDraft(a) == draft

\* The draft the admin has by now is cleared.
WithoutDraft(a) == [draft EXCEPT ![a] = None]

FinishBroadcast(w) ==
    /\ At(w, "finish")
    /\ draft' = WithoutDraft(worker[w].from)
    /\ End(w)
    /\ UNCHANGED <<tables, mode, updates, history>>

Discard(w) ==
    /\ At(w, "handle")
    /\ worker[w].kind = "discard"
    /\ draft' = [draft EXCEPT ![worker[w].from] = None]
    /\ End(w)
    /\ UNCHANGED <<tables, mode, updates, history>>

-----------------------------------------------------------------------------
(***************************************************************************)
(* The panel's one-statement requests, and a crash                         *)
(***************************************************************************)

\* The form of the panel: any Telegram id.
CreateInPanel ==
    \E c \in Complaints, t \in TgIds :
      /\ complaint[c] = NoComplaint
      /\ updates < MaxUpdates /\ updates' = updates + 1
      /\ complaint' = [complaint EXCEPT ![c] =
           [NoComplaint EXCEPT !.status = "new", !.author = t]]
      /\ UNCHANGED <<account, memory, worker, history>>

\* The id of a deleted row is not used again.
DeleteComplaint ==
    \E c \in Complaints :
      /\ Exists(c)
      /\ updates < MaxUpdates /\ updates' = updates + 1
      /\ complaint' = [complaint EXCEPT ![c].status = "deleted"]
      /\ UNCHANGED <<account, memory, worker, history>>

Crash ==
    /\ updates < MaxUpdates /\ updates' = updates + 1
    /\ worker' = [w \in Workers |-> IdleWorker]
    /\ mode' = [t \in TgIds |-> NoMode]
    /\ draft' = [a \in Admins |-> None]
    /\ UNCHANGED <<tables, history>>

Next ==
    \/ \E w \in Workers :
         \/ Receive(w) \/ PressReply(w)
         \/ FindAccount(w) \/ CreateAccount(w) \/ FindAgain(w)
         \/ OpenMode(w) \/ RouteMessage(w) \/ Cancel(w) \/ Forget(w)
         \/ InsertComplaint(w) \/ Upload(w) \/ SetPhoto(w) \/ Created(w)
         \/ CloseDialog(w) \/ Confirm(w) \/ NotifyAdmins(w)
         \/ ReadState(w) \/ LookUp(w) \/ StoreReply(w) \/ CheckReply(w)
         \/ ReadRecipient(w) \/ CloseReply(w) \/ Deliver(w)
         \/ WriteDraft(w) \/ TakeDraft(w) \/ ListUsers(w) \/ SendBroadcast(w)
         \/ FinishBroadcast(w) \/ Discard(w)
    \/ CreateInPanel \/ DeleteComplaint \/ Crash

Spec == Init /\ [][Next]_vars

-----------------------------------------------------------------------------
(***************************************************************************)
(* Properties                                                              *)
(***************************************************************************)

\* Every variable has values of its type; a Telegram id has at most one row.
TypeOK ==
    /\ account \in [TgIds -> Account]
    /\ complaint \in [Complaints -> Complaint]
    /\ mode \in [TgIds -> Mode]
    /\ draft \in [Admins -> Drafts \cup {None}]
    /\ worker \in [Workers -> Worker]
    /\ updates \in 0..MaxUpdates
    /\ announced \subseteq Complaints
    /\ stored \subseteq Complaints \X Answers
    /\ delivered \subseteq
         [to : TgIds \cup {None}, complaint : Complaints \cup {None}, text : Answers]
    /\ heard \in [Drafts -> [TgIds -> Nat]]
    /\ overlapped \subseteq Drafts

\* However many updates of a new account are handled at once (EnsureTelegramUser runs for each
\* of them), it gets one user, and no user is left behind without a Telegram account.
OneUserPerAccount ==
    \A t \in TgIds : account[t].users = account[t].telegrams

\* Who gets a reply, from the bot or the panel, is the author of the complaint that it was
\* stored for, whatever the admin opens meanwhile and whoever else answers, erases or
\* deletes.  What the panel publishes for nobody names no complaint either.
RepliesReachTheAuthor ==
    \A r \in delivered :
      \/ r.to = None /\ r.complaint = None
      \/ <<r.complaint, r.text>> \in stored /\ r.to = complaint[r.complaint].author

\* A goroutine is about to store this reply to c.
Storing(w, c, x) ==
    At(w, "store") /\ worker[w].complaint = c /\ worker[w].text = x

\* Reply and status change only by an answer to this very complaint, and a resolved one is
\* opened again only by UpdateComplaint: a photo stored late undoes neither.  An empty reply
\* replaces another only when a request of the panel brings it.  A photo stays, a deleted
\* complaint does not come back, and a complaint never gets another author.
NothingStoredIsUndone ==
    [][\A c \in Complaints :
         LET old == complaint[c]  new == complaint'[c] IN
         /\ old.reply # new.reply =>
              \E w \in Workers : /\ Storing(w, c, new.reply)
                                 /\ new.reply = None => worker[w].kind \in PanelKinds
         /\ old.status = "resolved" /\ new.status \notin {"resolved", "deleted"} =>
              \E w \in Workers : Storing(w, c, new.reply) /\ worker[w].kind = "update"
         /\ old.photo => new.photo
         /\ old.status = "deleted" => new = old
         /\ old.author # None => new.author = old.author]_complaint

\* An account hears a broadcast again only when the admin pressed "confirm" while it was being
\* sent: a broadcast that ended or was discarded is not there to be sent again.
HeardOnce ==
    \A d \in Drafts \ overlapped, t \in TgIds : heard[d][t] <= 1
=============================================================================
