----------------------------- MODULE Deployment -----------------------------
(***************************************************************************)
(* What provisioning promises to the rest of the panel about the servers   *)
(* of one VPN profile, without queues, retries, copies and goroutines.     *)
(*                                                                         *)
(* Planning and administrators' requests make a deployment pending at any  *)
(* time; agents report what they did; a deployment is settled by an        *)
(* outcome.  The promises are the guards: an agent is only made to do what *)
(* somebody asked for, an outcome other than a failure rests on a report   *)
(* of that server's own agent, a success fails only where an administrator *)
(* has asked for something, and no deployment disappears.                  *)
(*                                                                         *)
(* Provisioning implements this module; MobileConnect is built on it.      *)
(***************************************************************************)
EXTENDS Integers

CONSTANTS
    Servers,    \* the servers of the profile's endpoint group
    NamesAction \* do results name the command they answer?

ASSUME DeploymentAssumption == NamesAction \in BOOLEAN

VARIABLES
    status,     \* server -> status of its deployment
    reported,   \* server -> actions its agent reported done
    requested   \* server -> actions administrators asked for

deploymentVars == <<status, reported, requested>>

Statuses     == {"none", "pending", "success", "failed", "disabled", "deleted"}
Settled      == {"success", "failed", "disabled", "deleted"}
AskedActions == {"enable_client", "disable_client", "delete_client"}
AllActions   == AskedActions \cup {"create_client"}

DeploymentInit ==
    /\ status = [s \in Servers |-> "none"]
    /\ reported = [s \in Servers |-> {}]
    /\ requested = [s \in Servers |-> {}]

\* A create request, or a publish that failed: some deployments are pending.
Plan(S) ==
    /\ status' = [s \in Servers |-> IF s \in S THEN "pending" ELSE status[s]]
    /\ UNCHANGED <<reported, requested>>

\* An administrator, or the revocation of the device, asks for an action.
Ask(s, a) ==
    /\ status[s] # "none"
    /\ status' = [status EXCEPT ![s] = "pending"]
    /\ requested' = [requested EXCEPT ![s] = @ \cup {a}]
    /\ UNCHANGED reported

\* The agent of s reports that it did a; only deployments go unasked.
Report(s, a) ==
    /\ a \in requested[s] \cup {"create_client"}
    /\ reported' = [reported EXCEPT ![s] = @ \cup {a}]
    /\ UNCHANGED <<status, requested>>

\* What the agent's reports must say before a deployment is settled as st.
Supports(s, st) ==
    LET proof(a) == IF NamesAction THEN a \in reported[s] ELSE reported[s] # {}
    IN  /\ st = "success"  => reported[s] # {}
        /\ st = "disabled" => proof("disable_client")
        /\ st = "deleted"  => proof("delete_client")
        /\ st = "failed" /\ status[s] = "success" => requested[s] # {}

Settle(s, st) ==
    /\ status[s] # "none"
    /\ Supports(s, st)
    /\ status' = [status EXCEPT ![s] = st]
    /\ UNCHANGED <<reported, requested>>

DeploymentNext ==
    \/ \E S \in SUBSET Servers : Plan(S)
    \/ \E s \in Servers, a \in AskedActions : Ask(s, a)
    \/ \E s \in Servers, a \in AllActions : Report(s, a)
    \/ \E s \in Servers, st \in Settled : Settle(s, st)

DeploymentSpec == DeploymentInit /\ [][DeploymentNext]_deploymentVars
=============================================================================
