------------------------------ MODULE OrgQuota ------------------------------
(***************************************************************************)
(* The quota a gateway charges a request to: OrgQuota in                   *)
(* src/crates/gateway/src/lib.rs, as open_org_quota of gateway/src/main.rs *)
(* opens it. With a platform database the pods of a deployment count       *)
(* together, without one each process counts by itself; there is no way    *)
(* from the one to the other while a process runs.                         *)
(***************************************************************************)
EXTENDS PlatformQuota

CONSTANTS Calls,      \* calls of the in-process admit that may be under way at once
          Tenants,    \* organizations of a deployment of one process
          Limit,      \* requests a tenant may make in a window
          Window,     \* the length of a window, in ticks
          MaxLag,     \* bound: ticks between reading the clock and the lock
          MaxInstant, \* bound on the process's clock
          Absent      \* no call, no window

ASSUME InProcessAssumption ==
    /\ Limit \in Nat \ {0} /\ Window \in Nat \ {0}
    /\ MaxLag \in Nat /\ MaxInstant \in Nat
    /\ Absent \notin [started_at : 0..MaxInstant, count : 1..Limit]
    /\ Absent \notin [org : Tenants, now : 0..MaxInstant]

VARIABLES backend,  \* the variant of OrgQuota: "in process" or "platform"
          instant,  \* the process's clock, Instant::now()
          windows, call, charged

inProcessVars == <<instant, windows, call, charged>>
orgVars == <<backend, vars, inProcessVars>>

InProcess == INSTANCE InProcessQuota WITH
    clock <- instant, Orgs <- Tenants, MaxClock <- MaxInstant
-----------------------------------------------------------------------------
\* With --platform-database-url or without it.
OpenOrgQuota ==
    /\ backend \in {"in process", "platform"}
    /\ Init
    /\ InProcess!Init

\* admit and, for the platform only, the sweeper that was spawned with it.
Charges ==
    \/ backend = "platform" /\ Next /\ UNCHANGED <<backend, inProcessVars>>
    \/ backend = "in process" /\ InProcess!Next /\ UNCHANGED <<backend, vars>>

OrgSpec == OpenOrgQuota /\ [][Charges]_orgVars
-----------------------------------------------------------------------------
\* Whatever calls race, no span shorter than a window sees two windows' worth of a
\* tenant's requests, up to the time a call may wait for the lock ("under
\* 2 * limit requests", lib.rs:946-947).
BurstIsBounded == backend = "in process" => InProcess!BurstIsBounded

\* A tenant is refused for its own recent requests only.
RefusalIsEarned == InProcess!RefusalIsEarned
=============================================================================
