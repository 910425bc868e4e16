------------------------------ MODULE Gateway ------------------------------
(***************************************************************************)
(* The life of a request in an authenticated gateway with a request quota, *)
(* an audit log and a usage log: proxy_request, audited, PermitBody,       *)
(* UsageBody and serve in src/crates/gateway/src/lib.rs, and the shutdown  *)
(* order in gateway/src/main.rs.                                           *)
(*                                                                         *)
(* Every await of the handler is a place where the connection may be lost  *)
(* or reach its wall-clock cap; its task then drops the handler, or the    *)
(* response body, where it stands. Selector capacity is SelectorCapacity's  *)
(* subject, here an outcome; each request has a connection of its own.     *)
(***************************************************************************)
EXTENDS Integers, Sequences, FiniteSets

CONSTANTS Requests,    \* requests, each on its own connection
          MaxInFlight  \* permits of the in-flight admission semaphore

ASSUME GatewayAssumption == IsFiniteSet(Requests) /\ MaxInFlight \in Nat \ {0}

VARIABLES phase,  \* the process: "serving", "draining" or "flushed"
          pc,     \* where each request's handler is
          kind,   \* where a routed request goes: to a pool, or answered here
          conn,   \* each connection: "open", "lost" (by the client) or "expired"
          marker, \* ConnectionTermination: was the cap announced?
          quota,  \* each request's charge: "none", "sent" or "charged"
          free,   \* permits left in the admission semaphore
          permit, \* the requests that hold one
          open,   \* the requests with an exchange open at a replica
          body,   \* each response body: "open", "ended" or "failed"
          record, \* the requests whose UsageTracker still has its record
          audit,  \* what the audit log was given for each request
          usage,  \* what the usage log was given for each request
          sent    \* the requests a replica has seen (history)

connVars == <<conn, marker>>
workVars == <<free, permit, open, sent>>
logVars  == <<audit, usage, record, body>>
vars == <<phase, pc, kind, quota, connVars, workVars, logVars>>
-----------------------------------------------------------------------------
\* Refusals before a request has proved routable and within quota; they are free
\* and leave no usage record.
EarlyReasons == {"authentication", "selection", "organization_quota_exceeded",
                 "quota_store_unavailable"}

\* What the audit line of a request past its quota says.
LateReasons == {"gateway_overloaded", "local", "upstream_uri_invalid",
                "upstream_unavailable", "forwarded"}

Outcomes == {"completed", "body_error", "incomplete", "gateway_timeout"}

Handling == {"authenticate", "select", "quota", "admit", "admitted", "forward"}

TypeOK ==
    /\ phase \in {"serving", "draining", "flushed"}
    /\ pc \in [Requests -> Handling \cup {"idle", "body", "over"}]
    /\ kind \in [Requests -> {"forward", "local"}]
    /\ conn \in [Requests -> {"open", "lost", "expired"}]
    /\ marker \in [Requests -> BOOLEAN]
    /\ quota \in [Requests -> {"none", "sent", "charged"}]
    /\ free \in 0..MaxInFlight
    /\ permit \subseteq Requests /\ open \subseteq Requests /\ sent \subseteq Requests
    /\ body \in [Requests -> {"open", "ended", "failed"}]
    /\ record \subseteq Requests
    /\ audit \in [Requests -> Seq(EarlyReasons \cup LateReasons)]
    /\ usage \in [Requests -> Seq(Outcomes)]

Init ==
    /\ phase = "serving"
    /\ pc = [r \in Requests |-> "idle"] /\ kind = [r \in Requests |-> "forward"]
    /\ conn = [r \in Requests |-> "open"] /\ marker = [r \in Requests |-> FALSE]
    /\ quota = [r \in Requests |-> "none"]
    /\ free = MaxInFlight /\ permit = {} /\ open = {} /\ sent = {}
    /\ body = [r \in Requests |-> "open"] /\ record = {}
    /\ audit = [r \in Requests |-> <<>>] /\ usage = [r \in Requests |-> <<>>]
-----------------------------------------------------------------------------
\* The handler of r is polled at p.
At(r, p) == pc[r] = p /\ conn[r] = "open"

Goto(r, p) == pc' = [pc EXCEPT ![r] = p]

\* Taking a permit, and giving back those of a set of requests.
Acquire(r) == free > 0 /\ free' = free - 1 /\ permit' = permit \cup {r}
GiveBack(S) ==
    /\ free' = free + Cardinality(permit \cap S)
    /\ permit' = permit \ S

\* audited, the one way out of the handler: the audit line, and for a request
\* past its quota a usage record that its body will own.
Return(r, reason) ==
    /\ audit' = [audit EXCEPT ![r] = Append(@, reason)]
    /\ record' = IF reason \in LateReasons THEN record \cup {r} ELSE record
    /\ Goto(r, "body")

\* write_usage_record, for the record r's tracker still has.
Finish(r, outcome) ==
    /\ record' = record \ {r}
    /\ usage' = IF r \in record THEN [usage EXCEPT ![r] = Append(@, outcome)] ELSE usage
-----------------------------------------------------------------------------
(* The handler, up to admission *)

Arrive(r) ==
    /\ phase = "serving" /\ At(r, "idle")
    /\ Goto(r, "authenticate")
    /\ UNCHANGED <<phase, kind, quota, connVars, workVars, logVars>>

AuthFails_Unaudited(r) ==
    /\ At(r, "authenticate")
    /\ Goto(r, "body")
    /\ UNCHANGED <<phase, kind, quota, connVars, workVars, logVars>>

\* No usable token, or the identity store could not be asked.
AuthFails(r) ==
    /\ At(r, "authenticate")
    /\ Return(r, "authentication")
    /\ UNCHANGED <<phase, kind, quota, connVars, workVars, usage, body>>

Authenticated(r) ==
    /\ At(r, "authenticate")
    /\ Goto(r, "select")
    /\ UNCHANGED <<phase, kind, quota, connVars, workVars, logVars>>

\* Refused from its head, for want of selector capacity, or for its body.
SelectionRefused(r) ==
    /\ At(r, "select")
    /\ Return(r, "selection")
    /\ UNCHANGED <<phase, kind, quota, connVars, workVars, usage, body>>

\* Routable; the quota is asked.
Routed(r, k) ==
    /\ At(r, "select")
    /\ kind' = [kind EXCEPT ![r] = k]
    /\ quota' = [quota EXCEPT ![r] = "sent"]
    /\ Goto(r, "quota")
    /\ UNCHANGED <<phase, connVars, workVars, logVars>>

\* The store charges the request, whether or not anybody still waits for it.
StoreCharges(r) ==
    /\ quota[r] = "sent"
    /\ quota' = [quota EXCEPT ![r] = "charged"]
    /\ UNCHANGED <<phase, pc, kind, connVars, workVars, logVars>>

QuotaExceeded(r) ==
    /\ At(r, "quota") /\ quota[r] = "sent"
    /\ quota' = [quota EXCEPT ![r] = "none"]
    /\ Return(r, "organization_quota_exceeded")
    /\ UNCHANGED <<phase, kind, connVars, workVars, usage, body>>

QuotaUnavailable_FailsOpen(r) ==
    /\ At(r, "quota")
    /\ Goto(r, "admit")
    /\ UNCHANGED <<phase, kind, quota, connVars, workVars, logVars>>

\* No answer from a shared store, charged or not: fail closed.
QuotaUnavailable(r) ==
    /\ At(r, "quota")
    /\ Return(r, "quota_store_unavailable")
    /\ UNCHANGED <<phase, kind, quota, connVars, workVars, usage, body>>

QuotaAdmits(r) ==
    /\ At(r, "quota") /\ quota[r] = "charged"
    /\ Goto(r, "admit")
    /\ UNCHANGED <<phase, kind, quota, connVars, workVars, logVars>>
-----------------------------------------------------------------------------
(* Admission and forwarding *)

Overloaded(r) ==
    /\ At(r, "admit") /\ free = 0
    /\ Return(r, "gateway_overloaded")
    /\ UNCHANGED <<phase, kind, quota, connVars, workVars, usage, body>>

Admit_Queued(r) ==
    /\ At(r, "admit")
    /\ free' = free - 1 /\ permit' = permit \cup {r}
    /\ Goto(r, "admitted")
    /\ UNCHANGED <<phase, kind, quota, connVars, open, sent, logVars>>

\* try_acquire_owned
Admit(r) ==
    /\ At(r, "admit") /\ Acquire(r)
    /\ Goto(r, "admitted")
    /\ UNCHANGED <<phase, kind, quota, connVars, open, sent, logVars>>

\* Answered here: catalog discovery gives its permit back at once, and so does a
\* request whose upstream URI cannot be built.
Answer(r) ==
    /\ At(r, "admitted")
    /\ GiveBack({r})
    /\ \/ kind[r] = "local" /\ Return(r, "local")
       \/ kind[r] = "forward" /\ Return(r, "upstream_uri_invalid")
    /\ UNCHANGED <<phase, kind, quota, connVars, open, sent, usage, body>>

\* client.request: from here on a replica may have seen the request.
Forward(r) ==
    /\ At(r, "admitted") /\ kind[r] = "forward"
    /\ open' = open \cup {r} /\ sent' = sent \cup {r}
    /\ Goto(r, "forward")
    /\ UNCHANGED <<phase, kind, quota, connVars, free, permit, logVars>>

UpstreamFails(r) ==
    /\ At(r, "forward")
    /\ GiveBack({r})
    /\ open' = open \ {r}
    /\ Return(r, "upstream_unavailable")
    /\ UNCHANGED <<phase, kind, quota, connVars, sent, usage, body>>

UpstreamResponds_PermitForHeadOnly(r) ==
    /\ At(r, "forward")
    /\ GiveBack({r})
    /\ Return(r, "forwarded")
    /\ UNCHANGED <<phase, kind, quota, connVars, open, sent, usage, body>>

\* The head is there; its body takes the permit along (PermitBody::new).
UpstreamResponds(r) ==
    /\ At(r, "forward")
    /\ Return(r, "forwarded")
    /\ UNCHANGED <<phase, kind, quota, connVars, workVars, usage, body>>

\* A head whose body has already ended keeps neither permit nor record.
UpstreamRespondsEmpty(r) ==
    /\ At(r, "forward")
    /\ GiveBack({r})
    /\ open' = open \ {r}
    /\ audit' = [audit EXCEPT ![r] = Append(@, "forwarded")]
    /\ usage' = [usage EXCEPT ![r] = Append(@, "completed")]
    /\ body' = [body EXCEPT ![r] = "ended"]
    /\ Goto(r, "body")
    /\ UNCHANGED <<phase, kind, quota, connVars, sent, record>>
-----------------------------------------------------------------------------
(* The response body: PermitBody inside UsageBody *)

BodyEnds_KeepsRecord(r) ==
    /\ At(r, "body") /\ body[r] = "open"
    /\ body' = [body EXCEPT ![r] = "ended"]
    /\ GiveBack({r}) /\ open' = open \ {r}
    /\ usage' = IF r \in record THEN [usage EXCEPT ![r] = Append(@, "completed")] ELSE usage
    /\ UNCHANGED <<phase, pc, kind, quota, connVars, sent, audit, record>>

BodyEnds(r) ==
    /\ At(r, "body") /\ body[r] = "open"
    /\ body' = [body EXCEPT ![r] = "ended"]
    /\ GiveBack({r}) /\ open' = open \ {r}
    /\ Finish(r, "completed")
    /\ UNCHANGED <<phase, pc, kind, quota, connVars, sent, audit>>

\* Only a replica's body can fail.
BodyFails(r) ==
    /\ At(r, "body") /\ body[r] = "open" /\ r \in open
    /\ body' = [body EXCEPT ![r] = "failed"]
    /\ GiveBack({r}) /\ open' = open \ {r}
    /\ Finish(r, "body_error")
    /\ UNCHANGED <<phase, pc, kind, quota, connVars, sent, audit>>

\* The response has been written, or its body has failed, and is dropped.
DropResponse(r) ==
    /\ At(r, "body") /\ body[r] # "open"
    /\ GiveBack({r}) /\ open' = open \ {r}
    /\ Finish(r, "incomplete")
    /\ Goto(r, "over")
    /\ UNCHANGED <<phase, kind, quota, connVars, sent, audit, body>>
-----------------------------------------------------------------------------
(* The connection *)

ClientLeaves(r) ==
    /\ pc[r] \in Handling \cup {"body"} /\ conn[r] = "open"
    /\ conn' = [conn EXCEPT ![r] = "lost"]
    /\ UNCHANGED <<phase, pc, kind, quota, marker, workVars, logVars>>

Expire_DropsFirst(r) ==
    /\ pc[r] \in Handling \cup {"body"} /\ conn[r] = "open"
    /\ conn' = [conn EXCEPT ![r] = "expired"]
    /\ UNCHANGED <<phase, pc, kind, quota, marker, workVars, logVars>>

\* max_connection_duration has passed: the marker is set, and from here the task
\* polls the connection no more.
Expire(r) ==
    /\ pc[r] \in Handling \cup {"body"} /\ conn[r] = "open"
    /\ conn' = [conn EXCEPT ![r] = "expired"]
    /\ marker' = [marker EXCEPT ![r] = TRUE]
    /\ UNCHANGED <<phase, pc, kind, quota, workVars, logVars>>

DropConnection_LeaksPermit(r) ==
    /\ pc[r] \in Handling \cup {"body"} /\ conn[r] # "open"
    /\ IF pc[r] = "body" THEN GiveBack({r}) ELSE UNCHANGED <<free, permit>>
    /\ open' = open \ {r}
    /\ Finish(r, IF marker[r] THEN "gateway_timeout" ELSE "incomplete")
    /\ Goto(r, "over")
    /\ UNCHANGED <<phase, kind, quota, connVars, sent, audit, body>>

\* The connection's future is dropped with the handler or the response it holds:
\* permits return, a tracker writes the record it still has, a handler that has
\* not returned writes nothing.
DropConnection(r) ==
    /\ pc[r] \in Handling \cup {"body"} /\ conn[r] # "open"
    /\ GiveBack({r}) /\ open' = open \ {r}
    /\ Finish(r, IF marker[r] THEN "gateway_timeout" ELSE "incomplete")
    /\ Goto(r, "over")
    /\ UNCHANGED <<phase, kind, quota, connVars, sent, audit, body>>
-----------------------------------------------------------------------------
(* Shutdown *)

Shutdown ==
    /\ phase = "serving"
    /\ phase' = "draining"
    /\ UNCHANGED <<pc, kind, quota, connVars, workVars, logVars>>

FlushLogs_BesideTheDrain ==
    /\ phase = "draining"
    /\ phase' = "flushed"
    /\ UNCHANGED <<pc, kind, quota, connVars, workVars, logVars>>

\* serve returns once every connection is gone; only then are the logs flushed
\* and stopped.
FlushLogs ==
    /\ phase = "draining"
    /\ \A r \in Requests : pc[r] \in {"idle", "over"}
    /\ phase' = "flushed"
    /\ UNCHANGED <<pc, kind, quota, connVars, workVars, logVars>>
-----------------------------------------------------------------------------
Handle(r) ==
    \/ Arrive(r) \/ AuthFails(r) \/ Authenticated(r)
    \/ SelectionRefused(r) \/ \E k \in {"forward", "local"} : Routed(r, k)
    \/ StoreCharges(r) \/ QuotaExceeded(r) \/ QuotaUnavailable(r) \/ QuotaAdmits(r)
    \/ Overloaded(r) \/ Admit(r) \/ Answer(r) \/ Forward(r)
    \/ UpstreamFails(r) \/ UpstreamResponds(r) \/ UpstreamRespondsEmpty(r)
    \/ BodyEnds(r) \/ BodyFails(r) \/ DropResponse(r)

Next ==
    \/ \E r \in Requests : Handle(r) \/ ClientLeaves(r) \/ Expire(r) \/ DropConnection(r)
    \/ Shutdown \/ FlushLogs

Spec == Init /\ [][Next]_vars

\* The cap on connections fires and tasks run. Nothing is owed by clients,
\* replicas, or the stores: any of them may stall for ever.
FairSpec ==
    /\ Spec
    /\ \A r \in Requests : WF_vars(Expire(r)) /\ WF_vars(DropConnection(r))
    /\ WF_vars(FlushLogs)
-----------------------------------------------------------------------------
(* Safety *)

\* Permits are neither lost nor made, whichever way a request ends, and none
\* outlives its request.
PermitsAddUp ==
    /\ free + Cardinality(permit) = MaxInFlight
    /\ \A r \in permit : pc[r] \in {"admitted", "forward", "body"}

\* A permit covers the whole exchange with a replica, to the end of the body
\* (deploy/README.md:322-324), so replicas never see more than MaxInFlight.
WorkIsAdmitted == open \subseteq permit /\ Cardinality(open) <= MaxInFlight

\* Every response has exactly one audit line, and only a handler dropped before
\* it returned has none.
AuditedOnce(r) ==
    /\ Len(audit[r]) <= 1
    /\ pc[r] = "body" => audit[r] # <<>>
    /\ pc[r] = "over" /\ audit[r] = <<>> => conn[r] # "open"

\* One terminal usage record for every response past the quota, none for any
\* other, however the body and the connection end.
UsageFollowsAudit(r) ==
    pc[r] = "over" =>
        Len(usage[r]) = Cardinality({i \in DOMAIN audit[r] : audit[r][i] \in LateReasons})

\* The record says what happened: the body's own end, else the gateway's cap,
\* else the unexplained.
UsageTellsTheFate(r) ==
    usage[r] # <<>> =>
        usage[r][1] = CASE body[r] = "ended"  -> "completed"
                        [] body[r] = "failed" -> "body_error"
                        [] OTHER -> IF conn[r] = "expired" THEN "gateway_timeout"
                                    ELSE "incomplete"

\* The evidence of a request is written once, agrees between the two logs, and
\* is true.
EvidenceIsTrue ==
    \A r \in Requests : AuditedOnce(r) /\ UsageFollowsAudit(r) /\ UsageTellsTheFate(r)

\* A replica works only for a charged request.
WorkIsCharged == \A r \in sent : quota[r] = "charged"

\* Nothing is logged behind the flush.
EvidenceBeforeFlush == [][phase = "flushed" => audit' = audit /\ usage' = usage]_vars
-----------------------------------------------------------------------------
(* Liveness *)

\* A stalled client or replica pins a permit no longer than its connection's cap.
PermitsReturn == \A r \in Requests : (r \in permit) ~> (r \notin permit)
=============================================================================
