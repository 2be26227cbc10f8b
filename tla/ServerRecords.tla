---------------------------- MODULE ServerRecords ----------------------------
(***************************************************************************)
(* What the registry of VPN servers promises to those who read it, without *)
(* queues, consumers and transactions: a record for each server and its    *)
(* last report, which a report, a request of an administrator and the      *)
(* archiving of silent servers each change in one step.                    *)
(*                                                                         *)
(* The promises are the guards: no report is replaced by an older one, or  *)
(* dated before it was sent, and only those discovered servers are         *)
(* archived by themselves of which nothing was heard for longer than       *)
(* StaleAfter.                                                             *)
(*                                                                         *)
(* NodeRegistry implements this module.                                    *)
(***************************************************************************)
EXTENDS Integers

CONSTANTS
    Servers,
    Inbounds,
    Contents,    \* what a report says: fit, inbounds
    StaleAfter,
    None         \* the missing value

VARIABLES
    server,      \* server -> known, discovered, enabled, archived
    report,      \* server -> what it reported last, and what enabled was then
    clock

recordVars == <<server, report, clock>>

NoInbounds == [i \in Inbounds |-> None]

RecordsInit ==
    /\ \E migrated \in SUBSET Servers :
          /\ server = [s \in Servers |->
                [known |-> s \in migrated, discovered |-> s \notin migrated,
                 enabled |-> TRUE, archived |-> FALSE]]
          /\ report = [s \in Servers |->
                [fit |-> "none", enabled |-> s \in migrated, seen |-> 0,
                 sent |-> IF s \in migrated THEN 0 ELSE None, inbounds |-> NoInbounds]]
    /\ clock = 0

-----------------------------------------------------------------------------

\* The record r with new switches.
Switched(r, enabled, archived) ==
    [known |-> TRUE, discovered |-> r.discovered, enabled |-> enabled,
     archived |-> archived]

\* An inbound that is not reported stays as it was.
Merged(inbounds, content) ==
    [i \in Inbounds |-> IF content.inbounds[i] = None THEN inbounds[i]
                        ELSE content.inbounds[i]]

\* The report was sent at t and received at now.
Report(s, t, now, content) ==
    /\ report[s].sent = None \/ report[s].sent <= t
    /\ t <= now /\ now <= clock
    /\ server' = [server EXCEPT ![s] = Switched(server[s], server[s].enabled, FALSE)]
    /\ report' = [report EXCEPT ![s] =
          [fit |-> content.fit, enabled |-> server[s].enabled, seen |-> now, sent |-> t,
           inbounds |-> Merged(report[s].inbounds, content)]]
    /\ UNCHANGED clock

\* An administrator disables, enables, archives or restores a known server.
Administer(s) ==
    /\ server[s].known
    /\ \E enabled, archived \in BOOLEAN :
          /\ \/ archived = server[s].archived
             \/ archived /\ enabled = server[s].enabled
             \/ ~archived /\ enabled
          /\ server' = [server EXCEPT ![s] = Switched(server[s], enabled, archived)]
    /\ UNCHANGED <<report, clock>>

\* Nothing was received from it, and nothing that it sent was received, since.
Silent(s) ==
    /\ server[s].known /\ server[s].discovered
    /\ report[s].seen < clock - StaleAfter
    /\ report[s].sent # None /\ report[s].sent < clock - StaleAfter

ArchiveSilent(doomed) ==
    /\ \A s \in doomed : Silent(s)
    /\ server' = [s \in Servers |-> IF s \in doomed
                     THEN Switched(server[s], server[s].enabled, TRUE) ELSE server[s]]
    /\ UNCHANGED <<report, clock>>

Pass == clock' = clock + 1 /\ UNCHANGED <<server, report>>

RecordsNext ==
    \/ \E doomed \in SUBSET Servers : ArchiveSilent(doomed)
    \/ Pass
    \/ \E s \in Servers :
          \/ Administer(s)
          \/ \E t, now \in 0..clock, content \in Contents : Report(s, t, now, content)

RecordsSpec == RecordsInit /\ [][RecordsNext]_recordVars
=============================================================================
