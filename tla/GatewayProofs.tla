--------------------------- MODULE GatewayProofs ---------------------------
(***************************************************************************)
(* What Gateway guarantees for any requests and any admission limit, and   *)
(* GatewayLog for any number of tasks, flushers and records and any        *)
(* channel capacity.                                                       *)
(***************************************************************************)
EXTENDS Gateway, GatewayLog, FiniteSetTheorems, SequenceTheorems, TLAPS

\* The types the argument needs; the logs play no part in it.
Places == Handling \cup {"idle", "body", "over"}

WorkTypes ==
    /\ pc \in [Requests -> Places]
    /\ quota \in [Requests -> {"none", "sent", "charged"}]
    /\ free \in Nat
    /\ permit \subseteq Requests

\* An admitted request has its permit; an exchange at a replica is open under a
\* permit only, and only once the request has been forwarded.
OpenInv ==
    /\ \A r \in Requests : pc[r] = "admitted" => r \in permit
    /\ open \subseteq permit
    /\ \A r \in open : pc[r] \in {"forward", "body"}

\* Past the quota check, and at a replica, a request has been charged; and a
\* request a replica has seen never goes back to a place before that.
ChargeInv ==
    /\ \A r \in Requests : pc[r] \in {"admit", "admitted"} => quota[r] = "charged"
    /\ \A r \in sent \cap Requests :
           pc[r] \in {"forward", "body", "over"} /\ quota[r] = "charged"
    /\ sent \subseteq Requests

GatewayInv == WorkTypes /\ PermitsAddUp /\ OpenInv /\ ChargeInv

LEMMA ConstantFacts == IsFiniteSet(Requests) /\ MaxInFlight \in Nat /\ MaxInFlight >= 1
    BY GatewayAssumption DEF GatewayAssumption

LEMMA GatewayInit == Init => GatewayInv
    <1> SUFFICES ASSUME Init PROVE GatewayInv
        OBVIOUS
    <1>1. WorkTypes
        BY ConstantFacts DEF Init, WorkTypes, Places
    <1>2. Cardinality(permit) = 0
        BY FS_EmptySet DEF Init
    <1>3. PermitsAddUp
        BY <1>2, ConstantFacts DEF Init, PermitsAddUp
    <1>4. OpenInv /\ ChargeInv
        BY DEF Init, OpenInv, ChargeInv
    <1>5. QED
        BY <1>1, <1>3, <1>4 DEF GatewayInv
-----------------------------------------------------------------------------
(* What the two permit operations do to the count *)

\* A permit taken for a request that has none leaves the sum as it was.
LEMMA AcquireAddsUp ==
    ASSUME WorkTypes, NEW r \in Requests, r \notin permit, Acquire(r)
    PROVE  /\ free' \in Nat /\ permit' \subseteq Requests
           /\ free' + Cardinality(permit') = free + Cardinality(permit)
    <1>1. IsFiniteSet(permit)
        BY ConstantFacts, FS_Subset DEF WorkTypes
    <1>2. Cardinality(permit') = Cardinality(permit) + 1
        BY <1>1, FS_AddElement DEF Acquire
    <1>3. Cardinality(permit) \in Nat
        BY <1>1, FS_CardinalityType
    <1>4. QED
        BY <1>2, <1>3 DEF Acquire, WorkTypes

\* Giving back the permit of a request, if it has one, does too.
LEMMA GiveBackAddsUp ==
    ASSUME WorkTypes, NEW r \in Requests, GiveBack({r})
    PROVE  /\ free' \in Nat /\ permit' = permit \ {r}
           /\ free' + Cardinality(permit') = free + Cardinality(permit)
    <1>1. IsFiniteSet(permit)
        BY ConstantFacts, FS_Subset DEF WorkTypes
    <1>2. /\ Cardinality(permit \ {r}) = Cardinality(permit) - Cardinality(permit \cap {r})
          /\ Cardinality(permit) \in Nat
        BY <1>1, FS_Difference, FS_CardinalityType
    <1>3. Cardinality(permit \cap {r}) \in Nat
        BY <1>1, FS_Intersection, FS_CardinalityType
    <1>4. free' = free + Cardinality(permit \cap {r}) /\ permit' = permit \ {r}
        BY DEF GiveBack
    <1>5. QED
        BY <1>2, <1>3, <1>4 DEF WorkTypes
-----------------------------------------------------------------------------
(* The kinds of step *)

\* A step of r up to the quota, or away from one of its refusals: r holds no
\* permit, and goes to a place where it needs none.
LEMMA EarlyStep ==
    ASSUME GatewayInv, NEW r \in Requests,
           pc[r] \in {"idle", "authenticate", "select", "quota", "admit"},
           NEW p \in {"authenticate", "select", "quota", "admit", "body"}, Goto(r, p),
           quota' \in [Requests -> {"none", "sent", "charged"}],
           \A q \in Requests \ {r} : quota'[q] = quota[q],
           p = "admit" => quota'[r] = "charged",
           UNCHANGED workVars
    PROVE  GatewayInv'
    <1> USE DEF GatewayInv, workVars
    <1>1. /\ pc' \in [Requests -> Places] /\ pc'[r] = p
          /\ \A q \in Requests \ {r} : pc'[q] = pc[q]
        BY DEF WorkTypes, Goto, Places, Handling
    <1>2. WorkTypes'
        BY <1>1 DEF WorkTypes
    <1>3. r \notin permit
        BY DEF PermitsAddUp
    <1>4. PermitsAddUp' /\ OpenInv'
        BY <1>1, <1>3 DEF PermitsAddUp, OpenInv, WorkTypes
    <1>5. r \notin sent
        BY DEF ChargeInv
    <1>6. ChargeInv'
        BY <1>1, <1>5 DEF ChargeInv
    <1>7. QED
        BY <1>2, <1>4, <1>6

\* A step that gives r's permit back, closes its exchange and leaves it at its
\* response's body or behind it.
LEMMA ReleaseStep ==
    ASSUME GatewayInv, NEW r \in Requests, GiveBack({r}), open' = open \ {r},
           UNCHANGED <<quota, sent>>,
           \/ UNCHANGED pc /\ pc[r] = "body"
           \/ \E p \in {"body", "over"} : Goto(r, p)
    PROVE  GatewayInv'
    <1> USE DEF GatewayInv
    <1>1. /\ pc' \in [Requests -> Places] /\ pc'[r] \in {"body", "over"}
          /\ \A q \in Requests \ {r} : pc'[q] = pc[q]
        BY DEF WorkTypes, Goto, Places
    <1>2. /\ free' \in Nat /\ permit' = permit \ {r}
          /\ free' + Cardinality(permit') = free + Cardinality(permit)
        BY GiveBackAddsUp
    <1>3. WorkTypes'
        BY <1>1, <1>2 DEF WorkTypes
    <1>4. PermitsAddUp'
        BY <1>1, <1>2 DEF PermitsAddUp, WorkTypes
    <1>5. OpenInv'
        BY <1>1, <1>2 DEF OpenInv, WorkTypes
    <1>6. ChargeInv'
        BY <1>1 DEF ChargeInv
    <1>7. QED
        BY <1>3, <1>4, <1>5, <1>6
-----------------------------------------------------------------------------
(* Every step *)

LEMMA BeforeAdmission ==
    ASSUME GatewayInv, NEW r \in Requests,
           \/ Arrive(r) \/ AuthFails(r) \/ Authenticated(r) \/ SelectionRefused(r)
           \/ \E k \in {"forward", "local"} : Routed(r, k)
           \/ QuotaExceeded(r) \/ QuotaUnavailable(r) \/ QuotaAdmits(r) \/ Overloaded(r)
    PROVE  GatewayInv'
    <1>0. quota \in [Requests -> {"none", "sent", "charged"}]
        BY DEF GatewayInv, WorkTypes
    <1>1. CASE Arrive(r) \/ Authenticated(r)
        BY <1>0, <1>1, EarlyStep DEF Arrive, Authenticated, At
    <1>2. CASE AuthFails(r) \/ SelectionRefused(r) \/ QuotaUnavailable(r) \/ Overloaded(r)
        <2>1. /\ UNCHANGED <<quota, workVars>> /\ Goto(r, "body")
              /\ pc[r] \in {"authenticate", "select", "quota", "admit"}
            BY <1>2 DEF AuthFails, SelectionRefused, QuotaUnavailable, Overloaded, Return, At
        <2>2. QED
            BY <1>0, <2>1, EarlyStep
    <1>3. CASE \E k \in {"forward", "local"} : Routed(r, k)
        BY <1>0, <1>3, EarlyStep DEF Routed, At
    <1>4. CASE QuotaExceeded(r)
        BY <1>0, <1>4, EarlyStep DEF QuotaExceeded, Return, At
    <1>5. CASE QuotaAdmits(r)
        BY <1>0, <1>5, EarlyStep DEF QuotaAdmits, At
    <1>6. QED
        BY <1>1, <1>2, <1>3, <1>4, <1>5

LEMMA Releases ==
    ASSUME GatewayInv, NEW r \in Requests,
           \/ UpstreamFails(r) \/ UpstreamRespondsEmpty(r) \/ BodyEnds(r)
           \/ BodyFails(r) \/ DropResponse(r) \/ DropConnection(r)
    PROVE  GatewayInv'
    <1>1. CASE UpstreamFails(r) \/ UpstreamRespondsEmpty(r)
        BY <1>1, ReleaseStep DEF UpstreamFails, UpstreamRespondsEmpty, Return
    <1>2. CASE BodyEnds(r) \/ BodyFails(r)
        BY <1>2, ReleaseStep DEF BodyEnds, BodyFails, At
    <1>3. CASE DropResponse(r) \/ DropConnection(r)
        BY <1>3, ReleaseStep DEF DropResponse, DropConnection
    <1>4. QED
        BY <1>1, <1>2, <1>3

\* An answer from the gateway itself gives the permit back; no exchange is open.
LEMMA AnswerStep ==
    ASSUME GatewayInv, NEW r \in Requests, Answer(r)
    PROVE  GatewayInv'
    <1>1. GiveBack({r}) /\ Goto(r, "body") /\ UNCHANGED <<quota, sent, open>>
        BY DEF Answer, Return
    <1>2. open' = open \ {r}
        BY <1>1 DEF Answer, At, GatewayInv, OpenInv
    <1>3. QED
        BY <1>1, <1>2, ReleaseStep

LEMMA AdmitStep ==
    ASSUME GatewayInv, NEW r \in Requests, Admit(r)
    PROVE  GatewayInv'
    <1> USE DEF GatewayInv
    <1>1. r \notin permit /\ pc[r] = "admit"
        BY DEF Admit, At, PermitsAddUp
    <1>2. /\ free' \in Nat /\ permit' = permit \cup {r}
          /\ free' + Cardinality(permit') = free + Cardinality(permit)
        BY <1>1, AcquireAddsUp DEF Admit, Acquire
    <1>3. /\ pc' \in [Requests -> Places] /\ pc'[r] = "admitted"
          /\ \A q \in Requests \ {r} : pc'[q] = pc[q]
        BY DEF Admit, Goto, WorkTypes, Places, Handling
    <1>4. WorkTypes'
        BY <1>2, <1>3 DEF WorkTypes, Admit
    <1>5. PermitsAddUp'
        BY <1>2, <1>3 DEF PermitsAddUp, WorkTypes
    <1>6. OpenInv'
        BY <1>1, <1>2, <1>3 DEF OpenInv, WorkTypes, Admit
    <1>7. ChargeInv'
        BY <1>1, <1>3 DEF ChargeInv, Admit
    <1>8. QED
        BY <1>4, <1>5, <1>6, <1>7

\* An admitted request has been charged and has its permit, so the exchange that
\* opens and the replica that now sees it are within the invariant.
LEMMA ForwardStep ==
    ASSUME GatewayInv, NEW r \in Requests, Forward(r)
    PROVE  GatewayInv'
    <1> USE DEF GatewayInv, Forward
    <1>1. /\ pc' \in [Requests -> Places] /\ pc'[r] = "forward"
          /\ \A q \in Requests \ {r} : pc'[q] = pc[q]
        BY DEF Goto, WorkTypes, Places, Handling
    <1>2. WorkTypes' /\ PermitsAddUp'
        BY <1>1 DEF WorkTypes, PermitsAddUp
    <1>3. r \in permit
        BY DEF OpenInv, At
    <1>4. OpenInv'
        BY <1>1, <1>3 DEF OpenInv, WorkTypes
    <1>5. quota[r] = "charged"
        BY DEF ChargeInv, At
    <1>6. ChargeInv'
        BY <1>1, <1>5 DEF ChargeInv
    <1>7. QED
        BY <1>2, <1>4, <1>6

\* The head of a replica's response: pc moves, everything held stays.
LEMMA ResponseStep ==
    ASSUME GatewayInv, NEW r \in Requests, UpstreamResponds(r)
    PROVE  GatewayInv'
    <1> USE DEF GatewayInv, UpstreamResponds, workVars
    <1>1. /\ pc' \in [Requests -> Places] /\ pc'[r] = "body"
          /\ \A q \in Requests \ {r} : pc'[q] = pc[q]
        BY DEF Return, Goto, WorkTypes, Places
    <1>2. WorkTypes' /\ PermitsAddUp'
        BY <1>1 DEF WorkTypes, PermitsAddUp
    <1>3. OpenInv'
        BY <1>1 DEF OpenInv, WorkTypes
    <1>4. ChargeInv'
        BY <1>1 DEF ChargeInv
    <1>5. QED
        BY <1>2, <1>3, <1>4

\* The store's own step, in whatever place the request is by then.
LEMMA StoreStep ==
    ASSUME GatewayInv, NEW r \in Requests, StoreCharges(r)
    PROVE  GatewayInv'
    <1> USE DEF GatewayInv, StoreCharges, workVars
    <1>1. /\ quota' \in [Requests -> {"none", "sent", "charged"}]
          /\ quota'[r] = "charged" /\ \A q \in Requests \ {r} : quota'[q] = quota[q]
        BY DEF WorkTypes
    <1>2. WorkTypes' /\ PermitsAddUp' /\ OpenInv'
        BY <1>1 DEF WorkTypes, PermitsAddUp, OpenInv
    <1>3. ChargeInv'
        BY <1>1 DEF ChargeInv
    <1>4. QED
        BY <1>2, <1>3

\* What touches neither requests' places nor what they hold.
LEMMA IdleStep ==
    ASSUME GatewayInv, UNCHANGED <<pc, quota, workVars>>
    PROVE  GatewayInv'
    BY DEF GatewayInv, WorkTypes, PermitsAddUp, OpenInv, ChargeInv, workVars

LEMMA GatewayStep ==
    ASSUME GatewayInv, [Next]_vars
    PROVE  GatewayInv'
    <1>1. ASSUME NEW r \in Requests, Handle(r)
          PROVE  GatewayInv'
        BY <1>1, BeforeAdmission, Releases, AnswerStep, AdmitStep, ForwardStep,
           ResponseStep, StoreStep DEF Handle
    <1>2. ASSUME NEW r \in Requests, ClientLeaves(r) \/ Expire(r)
          PROVE  GatewayInv'
        BY <1>2, IdleStep DEF ClientLeaves, Expire
    <1>3. ASSUME NEW r \in Requests, DropConnection(r)
          PROVE  GatewayInv'
        BY <1>3, Releases
    <1>4. CASE Shutdown \/ FlushLogs
        BY <1>4, IdleStep DEF Shutdown, FlushLogs
    <1>5. CASE UNCHANGED vars
        BY <1>5, IdleStep DEF vars
    <1>6. QED
        BY <1>1, <1>2, <1>3, <1>4, <1>5 DEF Next

LEMMA GatewayInvariant == Spec => []GatewayInv
    <1>1. GatewayInv /\ [Next]_vars => GatewayInv'
        BY GatewayStep
    <1>2. QED
        BY GatewayInit, <1>1, PTL DEF Spec
-----------------------------------------------------------------------------
(* The theorems *)

\* Permits are conserved and owned, however handlers, bodies and connections end
\* (PermitBody and the permit proxy_request holds).
THEOREM PermitsAreConserved == Spec => []PermitsAddUp
    BY GatewayInvariant, PTL DEF GatewayInv

\* The admission limit bounds the exchanges at the replicas, bodies included.
THEOREM ReplicasAreProtected == Spec => []WorkIsAdmitted
    <1>1. GatewayInv => WorkIsAdmitted
        <2> SUFFICES ASSUME GatewayInv PROVE WorkIsAdmitted
            OBVIOUS
        <2>1. IsFiniteSet(permit) /\ open \subseteq permit
            BY ConstantFacts, FS_Subset DEF GatewayInv, WorkTypes, OpenInv
        <2>2. /\ Cardinality(open) <= Cardinality(permit)
              /\ Cardinality(open) \in Nat /\ Cardinality(permit) \in Nat
            BY <2>1, FS_Subset, FS_CardinalityType
        <2>3. free + Cardinality(permit) = MaxInFlight /\ free \in Nat
            BY DEF GatewayInv, PermitsAddUp, WorkTypes
        <2>4. QED
            BY <2>1, <2>2, <2>3, ConstantFacts DEF WorkIsAdmitted
    <1>2. QED
        BY GatewayInvariant, <1>1, PTL

\* No replica sees a request its organization was not charged for, whatever the
\* store's answers do.
THEOREM NothingIsServedFree == Spec => []WorkIsCharged
    <1>1. GatewayInv => WorkIsCharged
        BY DEF GatewayInv, ChargeInv, WorkIsCharged
    <1>2. QED
        BY GatewayInvariant, <1>1, PTL
-----------------------------------------------------------------------------
(* The evidence: the audit and the usage log *)

LogTypes ==
    /\ kind \in [Requests -> {"forward", "local"}]
    /\ conn \in [Requests -> {"open", "lost", "expired"}]
    /\ marker \in [Requests -> BOOLEAN]
    /\ body \in [Requests -> {"open", "ended", "failed"}]
    /\ record \subseteq Requests
    /\ audit \in [Requests -> Seq(EarlyReasons \cup LateReasons)]
    /\ usage \in [Requests -> Seq(Outcomes)]

\* The record's outcome, from what became of the body and of the connection.
Fate(r) ==
    IF body[r] = "ended" THEN "completed"
    ELSE IF body[r] = "failed" THEN "body_error"
    ELSE IF conn[r] = "expired" THEN "gateway_timeout" ELSE "incomplete"

\* Nothing in the usage log, nothing that could still be written to it.
Unrecorded(r) == usage[r] = <<>> /\ r \notin record

RefusedEarly(r) == \E reason \in EarlyReasons : audit[r] = <<reason>>
AnsweredLate(r) == \E reason \in LateReasons : audit[r] = <<reason>>

\* Before the handler returns there is no evidence; behind it the audit line is
\* there, and exactly the responses past the quota own a usage record until it is
\* written, with their fate.
Evidence(r) ==
    /\ marker[r] <=> conn[r] = "expired"
    /\ pc[r] = "idle" => conn[r] = "open"
    /\ pc[r] \in Handling \cup {"idle"} =>
           audit[r] = <<>> /\ Unrecorded(r) /\ body[r] = "open"
    /\ pc[r] = "body" =>
           \/ RefusedEarly(r) /\ Unrecorded(r)
           \/ AnsweredLate(r) /\ body[r] = "open" /\ usage[r] = <<>> /\ r \in record
           \/ AnsweredLate(r) /\ body[r] # "open" /\ usage[r] = <<Fate(r)>> /\ r \notin record
    /\ pc[r] = "over" =>
           \/ audit[r] = <<>> /\ conn[r] # "open" /\ Unrecorded(r)
           \/ RefusedEarly(r) /\ Unrecorded(r)
           \/ AnsweredLate(r) /\ usage[r] = <<Fate(r)>> /\ r \notin record

\* The logs are flushed behind the last connection, and none arrives after that.
FlushInv ==
    /\ phase \in {"serving", "draining", "flushed"}
    /\ phase = "flushed" => \A r \in Requests : pc[r] \in {"idle", "over"}

EvidenceInv == GatewayInv /\ LogTypes /\ (\A r \in Requests : Evidence(r)) /\ FlushInv

LEMMA AppendToEmpty == \A e : Append(<<>>, e) = <<e>>
    OBVIOUS

\* What a step of r leaves as it was, for every other request.
OthersStay(r) ==
    \A q \in Requests \ {r} :
        /\ pc'[q] = pc[q] /\ conn'[q] = conn[q] /\ marker'[q] = marker[q]
        /\ body'[q] = body[q] /\ (q \in record' <=> q \in record)
        /\ audit'[q] = audit[q] /\ usage'[q] = usage[q]

LEMMA OthersKeepEvidence ==
    ASSUME NEW r \in Requests, OthersStay(r), \A q \in Requests : Evidence(q), Evidence(r)'
    PROVE  \A q \in Requests : Evidence(q)'
    <1> SUFFICES ASSUME NEW q \in Requests, q # r PROVE Evidence(q)'
        OBVIOUS
    <1>1. Evidence(q)
        OBVIOUS
    <1>2. QED
        BY <1>1 DEF OthersStay, Evidence, Unrecorded, RefusedEarly, AnsweredLate, Fate

\* A step within the handler: no evidence yet.
QuietStep(r) ==
    /\ pc' = pc \/ (pc[r] \in Handling \cup {"idle"} /\ \E p \in Handling : Goto(r, p))
    /\ kind' \in [Requests -> {"forward", "local"}]
    /\ UNCHANGED <<connVars, logVars>>

LEMMA HandlerMoves ==
    ASSUME WorkTypes, LogTypes, NEW r \in Requests, Evidence(r), QuietStep(r)
    PROVE  LogTypes' /\ OthersStay(r) /\ Evidence(r)'
    <1>1. LogTypes' /\ OthersStay(r)
        BY DEF WorkTypes, LogTypes, OthersStay, QuietStep, Goto, connVars, logVars
    <1>2. /\ conn'[r] = conn[r] /\ marker'[r] = marker[r] /\ body'[r] = body[r]
          /\ audit'[r] = audit[r] /\ usage'[r] = usage[r] /\ record' = record
        BY DEF QuietStep, connVars, logVars
    <1>3. \/ pc'[r] = pc[r]
          \/ pc[r] \in Handling \cup {"idle"} /\ pc'[r] \in Handling
        BY DEF QuietStep, Goto, WorkTypes
    <1>4. CASE pc'[r] = pc[r]
        <2>1. /\ Unrecorded(r)' <=> Unrecorded(r)
              /\ RefusedEarly(r)' <=> RefusedEarly(r)
              /\ AnsweredLate(r)' <=> AnsweredLate(r)
              /\ Fate(r)' = Fate(r) /\ (marker'[r] <=> conn'[r] = "expired")
            BY <1>2 DEF Unrecorded, RefusedEarly, AnsweredLate, Fate, Evidence
        <2>2. QED
            BY <1>1, <1>2, <1>4, <2>1 DEF Evidence
    <1>5. CASE pc[r] \in Handling \cup {"idle"} /\ pc'[r] \in Handling
        <2>1. audit'[r] = <<>> /\ Unrecorded(r)' /\ body'[r] = "open"
            BY <1>2, <1>5 DEF Evidence, Unrecorded
        <2>2. pc'[r] \notin {"idle", "body", "over"}
            BY <1>5 DEF Handling
        <2>3. (marker'[r] <=> conn'[r] = "expired") /\ (pc[r] = "idle" => conn[r] = "open")
            BY <1>2 DEF Evidence
        <2>4. QED
            BY <1>1, <2>1, <2>2, <2>3 DEF Evidence
    <1>6. QED
        BY <1>1, <1>3, <1>4, <1>5

\* The handler returns: the audit line, and a usage record for a late reason.
LEMMA HandlerReturns ==
    ASSUME WorkTypes, LogTypes, NEW r \in Requests, Evidence(r), pc[r] \in Handling,
           NEW reason \in EarlyReasons \cup LateReasons, Return(r, reason),
           UNCHANGED <<kind, connVars, usage, body>>
    PROVE  LogTypes' /\ OthersStay(r) /\ Evidence(r)'
    <1>1. /\ audit[r] = <<>> /\ usage[r] = <<>> /\ r \notin record /\ body[r] = "open"
          /\ marker[r] <=> conn[r] = "expired"
        BY DEF Evidence, Unrecorded
    <1>2. /\ audit' = [audit EXCEPT ![r] = <<reason>>]
          /\ pc' = [pc EXCEPT ![r] = "body"]
          /\ record' = IF reason \in LateReasons THEN record \cup {r} ELSE record
          /\ conn' = conn /\ marker' = marker /\ usage' = usage /\ body' = body
        BY <1>1, AppendToEmpty DEF Return, Goto, connVars
    <1>3. <<reason>> \in Seq(EarlyReasons \cup LateReasons)
        OBVIOUS
    <1>4. LogTypes' /\ OthersStay(r)
        BY <1>2, <1>3 DEF LogTypes, WorkTypes, OthersStay
    <1>5. pc'[r] = "body" /\ audit'[r] = <<reason>>
        BY <1>2 DEF LogTypes, WorkTypes
    <1>6. CASE reason \in LateReasons
        <2>1. AnsweredLate(r)' /\ r \in record' /\ usage'[r] = <<>> /\ body'[r] = "open"
            BY <1>1, <1>2, <1>5, <1>6 DEF AnsweredLate
        <2>2. marker'[r] <=> conn'[r] = "expired"
            BY <1>1, <1>2
        <2>3. QED
            BY <1>4, <1>5, <2>1, <2>2 DEF Evidence, Handling
    <1>7. CASE reason \notin LateReasons
        <2>1. RefusedEarly(r)' /\ Unrecorded(r)'
            BY <1>1, <1>2, <1>5, <1>7 DEF RefusedEarly, Unrecorded
        <2>2. marker'[r] <=> conn'[r] = "expired"
            BY <1>1, <1>2
        <2>3. QED
            BY <1>4, <1>5, <2>1, <2>2 DEF Evidence, Handling
    <1>8. QED
        BY <1>4, <1>6, <1>7

\* The body reaches its end, or fails, or a head comes without one: a record that
\* is still owed is written with that.
LEMMA BodyIsOver ==
    ASSUME WorkTypes, LogTypes, NEW r \in Requests, Evidence(r),
           BodyEnds(r) \/ BodyFails(r) \/ UpstreamRespondsEmpty(r)
    PROVE  LogTypes' /\ OthersStay(r) /\ Evidence(r)'
    <1>1. CASE (BodyEnds(r) \/ BodyFails(r)) /\ r \in record
        <2>1. PICK end \in {"ended", "failed"} :
                  /\ pc[r] = "body" /\ body[r] = "open" /\ body' = [body EXCEPT ![r] = end]
                  /\ usage' = [usage EXCEPT ![r] = Append(@, IF end = "ended" THEN "completed" ELSE "body_error")]
                  /\ record' = record \ {r}
                  /\ UNCHANGED <<pc, kind, conn, marker, audit>>
            BY <1>1 DEF BodyEnds, BodyFails, Finish, At, connVars
        <2>2. AnsweredLate(r) /\ usage[r] = <<>> /\ (marker[r] <=> conn[r] = "expired")
            BY <1>1, <2>1 DEF Evidence, Unrecorded
        <2>3. usage' = [usage EXCEPT ![r] = <<IF end = "ended" THEN "completed" ELSE "body_error">>]
            BY <2>1, <2>2, AppendToEmpty
        <2>4. <<IF end = "ended" THEN "completed" ELSE "body_error">> \in Seq(Outcomes)
            BY DEF Outcomes
        <2>5. LogTypes' /\ OthersStay(r)
            BY <2>1, <2>3, <2>4 DEF LogTypes, OthersStay
        <2>6. body'[r] = end /\ usage'[r] = <<Fate(r)'>> /\ r \notin record'
            BY <2>1, <2>3 DEF LogTypes, Fate
        <2>7. AnsweredLate(r)'
            BY <2>1, <2>2 DEF AnsweredLate
        <2>8. Evidence(r)'
            BY <2>1, <2>2, <2>6, <2>7 DEF Evidence, Handling
        <2>9. QED
            BY <2>5, <2>8
    <1>2. CASE (BodyEnds(r) \/ BodyFails(r)) /\ r \notin record
        <2>1. /\ pc[r] = "body" /\ body[r] = "open" /\ usage' = usage /\ record' = record
              /\ \E end \in {"ended", "failed"} : body' = [body EXCEPT ![r] = end]
              /\ UNCHANGED <<pc, kind, conn, marker, audit>>
            BY <1>2 DEF BodyEnds, BodyFails, Finish, At, connVars
        <2>2. RefusedEarly(r) /\ Unrecorded(r) /\ (marker[r] <=> conn[r] = "expired")
            BY <1>2, <2>1 DEF Evidence
        <2>3. RefusedEarly(r)' /\ Unrecorded(r)'
            BY <2>1, <2>2 DEF RefusedEarly, Unrecorded
        <2>4. LogTypes' /\ OthersStay(r)
            BY <2>1 DEF LogTypes, OthersStay
        <2>5. QED
            BY <2>1, <2>2, <2>3, <2>4 DEF Evidence, Handling
    <1>3. CASE UpstreamRespondsEmpty(r)
        <2>1. /\ audit[r] = <<>> /\ usage[r] = <<>> /\ r \notin record
              /\ marker[r] <=> conn[r] = "expired"
            BY <1>3 DEF UpstreamRespondsEmpty, At, Evidence, Unrecorded, Handling
        <2>2. /\ audit' = [audit EXCEPT ![r] = <<"forwarded">>]
              /\ usage' = [usage EXCEPT ![r] = <<"completed">>]
              /\ body' = [body EXCEPT ![r] = "ended"] /\ pc' = [pc EXCEPT ![r] = "body"]
              /\ UNCHANGED <<kind, conn, marker, record>>
            BY <1>3, <2>1, AppendToEmpty DEF UpstreamRespondsEmpty, Goto, connVars
        <2>3. /\ <<"forwarded">> \in Seq(EarlyReasons \cup LateReasons)
              /\ <<"completed">> \in Seq(Outcomes) /\ "forwarded" \in LateReasons
            BY DEF LateReasons, Outcomes
        <2>4. LogTypes' /\ OthersStay(r)
            BY <2>2, <2>3 DEF LogTypes, WorkTypes, OthersStay
        <2>5. /\ pc'[r] = "body" /\ body'[r] = "ended" /\ usage'[r] = <<Fate(r)'>>
              /\ audit'[r] = <<"forwarded">>
            BY <2>2 DEF LogTypes, WorkTypes, Fate
        <2>6. AnsweredLate(r)'
            BY <2>3, <2>5 DEF AnsweredLate
        <2>7. QED
            BY <2>1, <2>2, <2>4, <2>5, <2>6 DEF Evidence, Handling
    <1>4. QED
        BY <1>1, <1>2, <1>3

\* The response, or the connection with whatever it holds, is dropped.
LEMMA Dropped ==
    ASSUME WorkTypes, LogTypes, NEW r \in Requests, Evidence(r),
           DropResponse(r) \/ DropConnection(r)
    PROVE  LogTypes' /\ OthersStay(r) /\ Evidence(r)'
    <1>1. /\ pc' = [pc EXCEPT ![r] = "over"] /\ record' = record \ {r}
          /\ UNCHANGED <<kind, conn, marker, audit, body>>
          /\ pc[r] \in Handling \cup {"body"} /\ pc[r] # "idle" /\ pc[r] # "over"
        BY DEF DropResponse, DropConnection, Goto, Finish, At, connVars, Handling
    <1>2. marker[r] <=> conn[r] = "expired"
        BY DEF Evidence
    <1>3. CASE r \in record
        <2>1. AnsweredLate(r) /\ body[r] = "open" /\ usage[r] = <<>>
            BY <1>1, <1>3 DEF Evidence, Unrecorded
        <2>2. usage' = [usage EXCEPT ![r] = Append(@, Fate(r))]
            BY <1>2, <1>3, <2>1 DEF DropResponse, DropConnection, Finish, Fate
        <2>3. usage' = [usage EXCEPT ![r] = <<Fate(r)>>]
            BY <2>1, <2>2, AppendToEmpty
        <2>4. Fate(r) \in Outcomes /\ Fate(r)' = Fate(r)
            BY <1>1 DEF Fate, Outcomes
        <2>5. <<Fate(r)>> \in Seq(Outcomes)
            BY <2>4
        <2>6. LogTypes' /\ OthersStay(r)
            BY <1>1, <2>3, <2>5 DEF LogTypes, WorkTypes, OthersStay
        <2>7. usage'[r] = <<Fate(r)'>> /\ pc'[r] = "over" /\ r \notin record'
            BY <1>1, <2>3, <2>4 DEF LogTypes, WorkTypes
        <2>8. AnsweredLate(r)'
            BY <1>1, <2>1 DEF AnsweredLate
        <2>9. QED
            BY <1>1, <1>2, <2>6, <2>7, <2>8 DEF Evidence, Handling
    <1>4. CASE r \notin record
        <2>1. usage' = usage /\ record' = record
            BY <1>1, <1>4 DEF DropResponse, DropConnection, Finish
        <2>2. LogTypes' /\ OthersStay(r) /\ pc'[r] = "over"
            BY <1>1, <2>1 DEF LogTypes, WorkTypes, OthersStay
        <2>3. \/ audit[r] = <<>> /\ conn[r] # "open" /\ Unrecorded(r)
              \/ RefusedEarly(r) /\ Unrecorded(r)
              \/ AnsweredLate(r) /\ usage[r] = <<Fate(r)>> /\ r \notin record
            BY <1>1, <1>4 DEF Evidence, DropResponse, DropConnection, At, Handling
        <2>4. \/ audit'[r] = <<>> /\ conn'[r] # "open" /\ Unrecorded(r)'
              \/ RefusedEarly(r)' /\ Unrecorded(r)'
              \/ AnsweredLate(r)' /\ usage'[r] = <<Fate(r)'>> /\ r \notin record'
            BY <1>1, <2>1, <2>3 DEF Unrecorded, RefusedEarly, AnsweredLate, Fate
        <2>5. QED
            BY <1>1, <1>2, <2>2, <2>4 DEF Evidence, Handling
    <1>5. QED
        BY <1>3, <1>4

\* The connection is lost, or its cap is announced and then reached.
LEMMA ConnectionGoes ==
    ASSUME WorkTypes, LogTypes, NEW r \in Requests, Evidence(r), ClientLeaves(r) \/ Expire(r)
    PROVE  LogTypes' /\ OthersStay(r) /\ Evidence(r)'
    <1>1. /\ pc' = pc /\ kind' = kind /\ UNCHANGED logVars /\ pc[r] \in Handling \cup {"body"}
          /\ \/ conn' = [conn EXCEPT ![r] = "lost"] /\ marker' = marker
             \/ conn' = [conn EXCEPT ![r] = "expired"] /\ marker' = [marker EXCEPT ![r] = TRUE]
          /\ conn[r] = "open"
        BY DEF ClientLeaves, Expire
    <1>2. LogTypes' /\ OthersStay(r)
        BY <1>1 DEF LogTypes, OthersStay, logVars
    <1>3. marker'[r] <=> conn'[r] = "expired"
        BY <1>1 DEF LogTypes, Evidence
    <1>4. pc'[r] = pc[r] /\ pc[r] # "idle" /\ pc[r] # "over"
        BY <1>1 DEF Handling
    <1>5. /\ Unrecorded(r)' <=> Unrecorded(r)
          /\ RefusedEarly(r)' <=> RefusedEarly(r)
          /\ AnsweredLate(r)' <=> AnsweredLate(r)
          /\ audit'[r] = audit[r] /\ usage'[r] = usage[r] /\ record' = record /\ body'[r] = body[r]
        BY <1>1 DEF Unrecorded, RefusedEarly, AnsweredLate, logVars
    <1>6. body[r] # "open" => Fate(r)' = Fate(r)
        BY <1>5 DEF Fate, LogTypes
    <1>7. QED
        BY <1>2, <1>3, <1>4, <1>5, <1>6 DEF Evidence
-----------------------------------------------------------------------------
(* Every step of a request is one of these *)

LEMMA EvidenceOfOne ==
    ASSUME WorkTypes, LogTypes, NEW r \in Requests, Evidence(r),
           Handle(r) \/ ClientLeaves(r) \/ Expire(r) \/ DropConnection(r)
    PROVE  LogTypes' /\ OthersStay(r) /\ Evidence(r)'
    <1> USE DEF At, Handling
    <1>1. CASE \/ Arrive(r) \/ Authenticated(r) \/ StoreCharges(r) \/ QuotaAdmits(r)
               \/ Admit(r) \/ Forward(r) \/ \E k \in {"forward", "local"} : Routed(r, k)
        <2>1. QuietStep(r)
            <3>1. CASE Arrive(r) \/ Authenticated(r)
                BY <3>1 DEF QuietStep, LogTypes, Arrive, Authenticated
            <3>2. CASE StoreCharges(r) \/ QuotaAdmits(r)
                BY <3>2 DEF QuietStep, LogTypes, StoreCharges, QuotaAdmits
            <3>3. CASE Admit(r) \/ Forward(r)
                BY <3>3 DEF QuietStep, LogTypes, Admit, Forward
            <3>4. CASE \E k \in {"forward", "local"} : Routed(r, k)
                BY <3>4 DEF QuietStep, LogTypes, Routed
            <3>5. QED
                BY <1>1, <3>1, <3>2, <3>3, <3>4
        <2>2. QED
            BY <2>1, HandlerMoves
    <1>2. CASE \/ AuthFails(r) \/ SelectionRefused(r) \/ QuotaExceeded(r) \/ QuotaUnavailable(r)
               \/ Overloaded(r) \/ Answer(r) \/ UpstreamFails(r) \/ UpstreamResponds(r)
        <2>1. /\ UNCHANGED <<kind, connVars, usage, body>> /\ pc[r] \in Handling
              /\ \E reason \in EarlyReasons \cup LateReasons : Return(r, reason)
            <3> USE DEF EarlyReasons, LateReasons
            <3>1. CASE AuthFails(r) \/ SelectionRefused(r)
                BY <3>1 DEF AuthFails, SelectionRefused
            <3>2. CASE QuotaExceeded(r) \/ QuotaUnavailable(r)
                BY <3>2 DEF QuotaExceeded, QuotaUnavailable
            <3>3. CASE Overloaded(r) \/ Answer(r)
                BY <3>3 DEF Overloaded, Answer
            <3>4. CASE UpstreamFails(r) \/ UpstreamResponds(r)
                BY <3>4 DEF UpstreamFails, UpstreamResponds
            <3>5. QED
                BY <1>2, <3>1, <3>2, <3>3, <3>4
        <2>2. QED
            BY <2>1, HandlerReturns
    <1>3. CASE BodyEnds(r) \/ BodyFails(r) \/ UpstreamRespondsEmpty(r)
        BY <1>3, BodyIsOver
    <1>4. CASE DropResponse(r) \/ DropConnection(r)
        BY <1>4, Dropped
    <1>5. CASE ClientLeaves(r) \/ Expire(r)
        BY <1>5, ConnectionGoes
    <1>6. QED
        BY <1>1, <1>2, <1>3, <1>4, <1>5 DEF Handle

\* A request moves from idle only while the process serves.
LEMMA FlushStep ==
    ASSUME WorkTypes, FlushInv, [Next]_vars
    PROVE  FlushInv'
    <1>1. ASSUME NEW r \in Requests,
                 Handle(r) \/ ClientLeaves(r) \/ Expire(r) \/ DropConnection(r)
          PROVE  FlushInv'
        <2>1. phase' = phase
            BY <1>1 DEF Handle, Arrive, AuthFails, Authenticated, SelectionRefused, Routed,
               StoreCharges, QuotaExceeded, QuotaUnavailable, QuotaAdmits, Overloaded, Admit,
               Answer, Forward, UpstreamFails, UpstreamResponds, UpstreamRespondsEmpty,
               BodyEnds, BodyFails, DropResponse, ClientLeaves, Expire, DropConnection
        <2>2. CASE phase # "flushed"
            BY <2>1, <2>2 DEF FlushInv
        <2>3. CASE phase = "flushed"
            <3>1. pc[r] \in {"idle", "over"}
                BY <2>3 DEF FlushInv
            <3>2. StoreCharges(r)
                BY <1>1, <2>3, <3>1 DEF At, Handling, Handle, Arrive, AuthFails, Authenticated,
                   SelectionRefused, Routed, QuotaExceeded, QuotaUnavailable, QuotaAdmits,
                   Overloaded, Admit, Answer, Forward, UpstreamFails, UpstreamResponds,
                   UpstreamRespondsEmpty, BodyEnds, BodyFails, DropResponse, ClientLeaves,
                   Expire, DropConnection
            <3>3. QED
                BY <2>1, <3>2 DEF FlushInv, StoreCharges
        <2>4. QED
            BY <2>2, <2>3
    <1>2. CASE Shutdown \/ FlushLogs \/ UNCHANGED vars
        BY <1>2 DEF FlushInv, Shutdown, FlushLogs, vars
    <1>3. QED
        BY <1>1, <1>2 DEF Next

LEMMA EvidenceInit == Init => EvidenceInv
    <1> SUFFICES ASSUME Init PROVE EvidenceInv
        OBVIOUS
    <1>1. LogTypes /\ FlushInv
        BY DEF Init, LogTypes, FlushInv
    <1>2. ASSUME NEW r \in Requests PROVE Evidence(r)
        BY DEF Init, Evidence, Unrecorded
    <1>3. QED
        BY <1>1, <1>2, GatewayInit DEF EvidenceInv

LEMMA EvidenceStep ==
    ASSUME EvidenceInv, [Next]_vars
    PROVE  EvidenceInv'
    <1>1. GatewayInv' /\ FlushInv'
        BY GatewayStep, FlushStep DEF EvidenceInv, GatewayInv
    <1>2. ASSUME NEW r \in Requests,
                 Handle(r) \/ ClientLeaves(r) \/ Expire(r) \/ DropConnection(r)
          PROVE  LogTypes' /\ \A q \in Requests : Evidence(q)'
        <2>1. LogTypes' /\ OthersStay(r) /\ Evidence(r)'
            BY <1>2, EvidenceOfOne DEF EvidenceInv, GatewayInv
        <2>2. QED
            BY <2>1, OthersKeepEvidence DEF EvidenceInv
    <1>3. CASE Shutdown \/ FlushLogs \/ UNCHANGED vars
        <2>1. UNCHANGED <<pc, kind, connVars, logVars>>
            BY <1>3 DEF Shutdown, FlushLogs, vars
        <2>2. LogTypes'
            BY <2>1 DEF EvidenceInv, LogTypes, connVars, logVars
        <2>3. ASSUME NEW q \in Requests PROVE Evidence(q)'
            BY <2>1 DEF EvidenceInv, Evidence, Unrecorded, RefusedEarly, AnsweredLate, Fate,
               connVars, logVars
        <2>4. QED
            BY <1>1, <2>2, <2>3 DEF EvidenceInv
    <1>4. QED
        BY <1>1, <1>2, <1>3 DEF Next, EvidenceInv

LEMMA EvidenceInvariant == Spec => []EvidenceInv
    <1>1. EvidenceInv /\ [Next]_vars => EvidenceInv'
        BY EvidenceStep
    <1>2. QED
        BY EvidenceInit, <1>1, PTL DEF Spec
-----------------------------------------------------------------------------
(* The theorems about the evidence *)

\* Every variable of Gateway keeps its type: the semaphore never has more permits than the
\* limit or fewer than none, and the logs hold records alone (gateway/src/lib.rs).
THEOREM TypeCorrect == Spec => []TypeOK
    <1>1. EvidenceInv => TypeOK
        <2> SUFFICES ASSUME EvidenceInv PROVE TypeOK
            OBVIOUS
        <2>1. free \in 0..MaxInFlight
            <3>1. Cardinality(permit) \in Nat
                BY ConstantFacts, FS_Subset, FS_CardinalityType DEF EvidenceInv, GatewayInv, WorkTypes
            <3>2. QED
                BY <3>1, ConstantFacts DEF EvidenceInv, GatewayInv, WorkTypes, PermitsAddUp
        <2>2. open \subseteq Requests /\ sent \subseteq Requests /\ permit \subseteq Requests
            BY DEF EvidenceInv, GatewayInv, WorkTypes, OpenInv, ChargeInv
        <2>3. QED
            BY <2>1, <2>2 DEF EvidenceInv, GatewayInv, WorkTypes, LogTypes, FlushInv, TypeOK, Places
    <1>2. QED
        BY EvidenceInvariant, <1>1, PTL

\* The audit log and the usage log say of every request, once, the same thing and
\* what happened to it, wherever its connection was lost or capped (audited,
\* UsageTracker and ConnectionTermination).
THEOREM EvidenceOfEveryRequest == Spec => []EvidenceIsTrue
    <1>1. EvidenceInv => EvidenceIsTrue
        <2> SUFFICES ASSUME EvidenceInv, NEW r \in Requests
                     PROVE  AuditedOnce(r) /\ UsageFollowsAudit(r) /\ UsageTellsTheFate(r)
            BY DEF EvidenceIsTrue
        <2>1. Evidence(r) /\ pc[r] \in Handling \cup {"idle", "body", "over"}
            BY DEF EvidenceInv, GatewayInv, WorkTypes, Places
        <2>2. audit[r] = <<>> \/ \E reason : audit[r] = <<reason>>
            BY <2>1 DEF Evidence, RefusedEarly, AnsweredLate
        <2>3. AuditedOnce(r)
            <3>1. Len(audit[r]) <= 1
                <4>1. CASE audit[r] = <<>>
                    BY <4>1
                <4>2. ASSUME NEW reason, audit[r] = <<reason>>
                      PROVE  Len(audit[r]) <= 1
                    <5>1. Len(<<reason>>) = 1
                        OBVIOUS
                    <5>2. QED
                        BY <4>2, <5>1
                <4>3. QED
                    BY <2>2, <4>1, <4>2
            <3>2. RefusedEarly(r) \/ AnsweredLate(r) => audit[r] # <<>>
                BY DEF RefusedEarly, AnsweredLate
            <3>3. QED
                BY <2>1, <3>1, <3>2 DEF Evidence, AuditedOnce
        <2>4. UsageTellsTheFate(r)
            <3>1. usage[r] = <<>> \/ usage[r] = <<Fate(r)>>
                BY <2>1 DEF Evidence, Unrecorded
            <3>2. QED
                BY <3>1 DEF UsageTellsTheFate, Fate
        <2>5. ASSUME pc[r] = "over"
              PROVE  Len(usage[r]) = Cardinality({i \in DOMAIN audit[r] : audit[r][i] \in LateReasons})
            <3> DEFINE late == {i \in DOMAIN audit[r] : audit[r][i] \in LateReasons}
            <3>1. CASE audit[r] = <<>> /\ Unrecorded(r)
                BY <3>1, FS_EmptySet DEF Unrecorded
            <3>2. CASE RefusedEarly(r) /\ Unrecorded(r)
                <4>1. PICK reason \in EarlyReasons : audit[r] = <<reason>>
                    BY <3>2 DEF RefusedEarly
                <4>2. late = {}
                    BY <4>1 DEF EarlyReasons, LateReasons
                <4>3. QED
                    BY <3>2, <4>2, FS_EmptySet DEF Unrecorded
            <3>3. CASE AnsweredLate(r) /\ usage[r] = <<Fate(r)>>
                <4>1. late = {1}
                    BY <3>3 DEF AnsweredLate
                <4>2. Cardinality({1}) = 1
                    BY FS_Singleton
                <4>3. QED
                    BY <3>3, <4>1, <4>2
            <3>4. QED
                BY <2>1, <2>5, <3>1, <3>2, <3>3 DEF Evidence
        <2>6. QED
            BY <2>3, <2>4, <2>5 DEF UsageFollowsAudit
    <1>2. QED
        BY EvidenceInvariant, <1>1, PTL

\* No record is written behind the flush that ends the process (serve, main).
THEOREM FlushIsLast == Spec => EvidenceBeforeFlush
    <1>1. ASSUME EvidenceInv, [Next]_vars, phase = "flushed"
          PROVE  audit' = audit /\ usage' = usage
        <2>1. \A r \in Requests : pc[r] \in {"idle", "over"}
            BY <1>1 DEF EvidenceInv, FlushInv
        <2>2. ASSUME NEW r \in Requests,
                     Handle(r) \/ ClientLeaves(r) \/ Expire(r) \/ DropConnection(r)
              PROVE  StoreCharges(r)
            BY <1>1, <2>1, <2>2 DEF At, Handling, Handle, Arrive, AuthFails, Authenticated,
               SelectionRefused, Routed, QuotaExceeded, QuotaUnavailable, QuotaAdmits,
               Overloaded, Admit, Answer, Forward, UpstreamFails, UpstreamResponds,
               UpstreamRespondsEmpty, BodyEnds, BodyFails, DropResponse, ClientLeaves,
               Expire, DropConnection
        <2>3. QED
            BY <1>1, <2>2 DEF Next, StoreCharges, Shutdown, FlushLogs, vars, logVars
    <1>2. QED
        BY EvidenceInvariant, <1>1, PTL DEF Spec, EvidenceBeforeFlush
-----------------------------------------------------------------------------
(* The log *)

\* The lock is held across a step only between a send and its count, and only
\* while the sender is in its slot.
LockInv ==
    /\ lock \in Tasks => taskPc[lock] = "counting" /\ sender = "slot"
    /\ \A t \in Tasks : taskPc[t] = "counting" => lock = t

\* Where the accepted records are, as numbers.
CountInv ==
    /\ Len(accepted) = queued + Uncounted
    /\ Len(file) = written + (IF writerPc = "count" THEN 1 ELSE 0)
    /\ Len(writing) = (IF writerPc = "write" THEN 1 ELSE 0)
    /\ Len(accepted) = Len(file) + Len(writing) + Len(buffer)

\* The sender is dropped before the writer stops, by the one flusher that took it.
StopInv ==
    /\ writerPc \in {"stopping", "stopped"} => sender = "dropped" /\ buffer = <<>>
    /\ \A f \in Flushers :
          /\ flushPc[f] = "took" => sender = "taken"
          /\ flushPc[f] \in {"waiting", "Drained", "TimedOut"} => sender = "dropped"
          /\ flushPc[f] = "Drained" => writerPc = "stopped"
    /\ \A f, g \in Flushers : flushPc[f] = "took" /\ flushPc[g] = "took" => f = g

LogInv == LogTypeOK /\ LockInv /\ CountInv /\ StopInv /\ PendingBoundsTheLoss

LEMMA LogInvInit == LogInit => LogInv
    <1> SUFFICES ASSUME LogInit PROVE LogInv
        OBVIOUS
    <1> USE LogAssumption DEF LogInit
    <1>1. LogTypeOK
        BY DEF LogTypeOK, TaskPcs, WriterPcs, FlushPcs
    <1>2. LockInv /\ StopInv /\ PendingBoundsTheLoss
        BY DEF LockInv, StopInv, PendingBoundsTheLoss
    <1>3. CountInv
        BY DEF CountInv, Uncounted
    <1>4. QED
        BY <1>1, <1>2, <1>3 DEF LogInv

LEMMA HeadOfOne == ASSUME NEW S, NEW q \in Seq(S), Len(q) = 1 PROVE Head(q) \in S
    <1>1. q # <<>>
        BY EmptySeq
    <1>2. QED
        BY <1>1, HeadTailProperties

LEMMA TypeStep == LogTypeOK /\ CountInv /\ [LogNext]_sinkVars => LogTypeOK'
    <1> SUFFICES ASSUME LogTypeOK, CountInv, [LogNext]_sinkVars PROVE LogTypeOK'
        OBVIOUS
    <1> USE LogAssumption DEF LogTypeOK, TaskPcs, WriterPcs, FlushPcs, taskVars, writerVars, flushVars
    <1>1. ASSUME NEW t \in Tasks, Send(t) PROVE LogTypeOK'
        <2>1. wrote[t] + 1 \in 1..MaxRecords /\ <<t, wrote[t] + 1>> \in Records
            BY <1>1 DEF Send, Accept, Submit, Records
        <2>2. QED
            BY <1>1, <2>1 DEF Send, Accept, Submit
    <1>2. ASSUME NEW t \in Tasks, Count(t) \/ RecordDrop(t) PROVE LogTypeOK'
        <2>1. CASE Count(t)
            BY <2>1 DEF Count
        <2>2. CASE RecordDrop(t)
            BY <2>2 DEF RecordDrop
        <2>3. QED
            BY <1>2, <2>1, <2>2
    <1>3. ASSUME NEW t \in Tasks, Refuse(t) PROVE LogTypeOK'
        BY <1>3 DEF Refuse, Submit
    <1>4. ASSUME Receive PROVE LogTypeOK'
        <2>1. Head(buffer) \in Records /\ Tail(buffer) \in Seq(Records)
            BY <1>4, HeadTailProperties DEF Receive
        <2>2. <<Head(buffer)>> \in Seq(Records)
            BY <2>1
        <2>3. QED
            BY <1>4, <2>1, <2>2 DEF Receive
    <1>5. ASSUME NEW ok \in BOOLEAN, WriteAll(ok) PROVE LogTypeOK'
        <2>0. Len(writing) = 1
            BY <1>5 DEF WriteAll, CountInv
        <2>1. writing \in Seq(Records)
            OBVIOUS
        <2>2. Head(writing) \in Records
            BY <2>0, <2>1, HeadOfOne
        <2>3. QED
            BY <1>5, <2>2 DEF WriteAll
    <1>6. ASSUME CountWritten \/ Disconnect \/ SignalStopped PROVE LogTypeOK'
        BY <1>6 DEF CountWritten, Disconnect, SignalStopped
    <1>7. ASSUME NEW f \in Flushers, Take(f) \/ DropSender(f) \/ Drained(f) PROVE LogTypeOK'
        BY <1>7 DEF Take, DropSender, Drained
    <1>8. ASSUME NEW f \in Flushers, TimedOut(f) PROVE LogTypeOK'
        BY <1>8 DEF TimedOut
    <1>9. CASE UNCHANGED sinkVars
        BY <1>9 DEF sinkVars
    <1>10. QED
        BY <1>1, <1>2, <1>3, <1>4, <1>5, <1>6, <1>7, <1>8, <1>9
           DEF LogNext, TaskReturns, WriterStep, FlusherReturns

LEMMA LockStep == LogTypeOK /\ LockInv /\ StopInv /\ [LogNext]_sinkVars => LockInv'
    <1> SUFFICES ASSUME LogTypeOK, LockInv, StopInv, [LogNext]_sinkVars PROVE LockInv'
        OBVIOUS
    <1> USE LogAssumption DEF LockInv, LogTypeOK, taskVars, writerVars, flushVars
    <1>1. ASSUME NEW t \in Tasks, Send(t) \/ Count(t) \/ Refuse(t) \/ RecordDrop(t)
          PROVE  LockInv'
        BY <1>1 DEF Send, Accept, Submit, Count, Refuse, RecordDrop
    <1>2. ASSUME WriterStep PROVE LockInv'
        BY <1>2 DEF WriterStep, Receive, WriteAll, CountWritten, Disconnect, SignalStopped
    <1>3. ASSUME NEW f \in Flushers, Take(f) \/ Drained(f) \/ TimedOut(f) PROVE LockInv'
        BY <1>3 DEF Take, Drained, TimedOut
    <1>4. ASSUME NEW f \in Flushers, DropSender(f) PROVE LockInv'
        BY <1>4 DEF DropSender, StopInv
    <1>5. CASE UNCHANGED sinkVars
        BY <1>5 DEF sinkVars
    <1>6. QED
        BY <1>1, <1>2, <1>3, <1>4, <1>5 DEF LogNext, TaskReturns, FlusherReturns

\* Each step moves a record from one term of CountInv to the next.
LEMMA CountStep == LogTypeOK /\ LockInv /\ CountInv /\ [LogNext]_sinkVars => CountInv'
    <1> SUFFICES ASSUME LogTypeOK, LockInv, CountInv, [LogNext]_sinkVars PROVE CountInv'
        OBVIOUS
    <1> USE DEF taskVars, writerVars, flushVars
    <1>a. /\ Len(accepted) \in Nat /\ Len(file) \in Nat /\ Len(writing) \in Nat
          /\ Len(buffer) \in Nat /\ queued \in Nat /\ written \in Nat
        BY DEF LogTypeOK
    <1>b. NoOne \notin Tasks
        BY LogAssumption DEF LogAssumption
    <1>1. ASSUME NEW t \in Tasks, Send(t) PROVE CountInv'
        <2>1. /\ lock = NoOne /\ lock' = t
              /\ UNCHANGED <<queued, written, file, writing, writerPc>>
            BY <1>1 DEF Send, Accept
        <2>2. Uncounted = 0 /\ Uncounted' = 1
            BY <1>b, <2>1 DEF Uncounted
        <2>3. Len(accepted') = Len(accepted) + 1 /\ Len(buffer') = Len(buffer) + 1
            <3>1. \E r \in Records : accepted' = Append(accepted, r) /\ buffer' = Append(buffer, r)
                <4>1. <<t, wrote[t] + 1>> \in Records
                    BY <1>1, LogAssumption
                       DEF LogAssumption, Send, Accept, Submit, Records, LogTypeOK
                <4>2. QED
                    BY <1>1, <4>1 DEF Send, Accept
            <3>2. QED
                BY <3>1, AppendProperties DEF LogTypeOK
        <2>4. Len(accepted') = queued' + Uncounted'
            BY <1>a, <2>1, <2>2, <2>3 DEF CountInv
        <2>5. Len(accepted') = Len(file') + Len(writing') + Len(buffer')
            <3>1. Len(accepted) = Len(file) + Len(writing) + Len(buffer)
                BY DEF CountInv
            <3>2. Len(file') = Len(file) /\ Len(writing') = Len(writing)
                BY <2>1
            <3>3. QED
                BY <1>a, <2>3, <3>1, <3>2
        <2>6. QED
            BY <2>1, <2>4, <2>5 DEF CountInv
    <1>2. ASSUME NEW t \in Tasks, Count(t) PROVE CountInv'
        <2>1. /\ lock = t /\ lock' = NoOne /\ queued' = queued + 1
              /\ UNCHANGED <<accepted, buffer, written, file, writing, writerPc>>
            BY <1>2 DEF Count, LockInv
        <2>2. Uncounted = 1 /\ Uncounted' = 0
            BY <1>b, <2>1 DEF Uncounted
        <2>3. Len(accepted') = queued' + Uncounted'
            BY <1>a, <2>1, <2>2 DEF CountInv
        <2>4. QED
            BY <2>1, <2>3 DEF CountInv
    <1>3. ASSUME NEW t \in Tasks, Refuse(t) \/ RecordDrop(t) PROVE CountInv'
        BY <1>3 DEF Refuse, Submit, RecordDrop, CountInv, Uncounted
    <1>4. ASSUME Receive PROVE CountInv'
        <2>1. Len(Tail(buffer)) = Len(buffer) - 1
            BY <1>4, HeadTailProperties DEF Receive, LogTypeOK
        <2>2. /\ Len(writing') = 1 /\ Len(buffer') = Len(buffer) - 1
              /\ writerPc = "recv" /\ writerPc' = "write"
              /\ UNCHANGED <<lock, queued, accepted, file, written>>
            BY <1>4, <2>1 DEF Receive
        <2>3. Uncounted' = Uncounted /\ Uncounted \in Nat
            BY <2>2 DEF Uncounted
        <2>4. QED
            BY <1>a, <2>2, <2>3 DEF CountInv
    <1>5. ASSUME NEW ok \in BOOLEAN, WriteAll(ok) PROVE CountInv'
        <2>1. Len(file') = Len(file) + 1
            BY <1>5 DEF WriteAll, LogTypeOK
        <2>2. /\ Len(writing') = 0 /\ writerPc = "write" /\ writerPc' = "count"
              /\ UNCHANGED <<lock, queued, accepted, buffer, written>>
            BY <1>5 DEF WriteAll
        <2>3. Uncounted' = Uncounted /\ Uncounted \in Nat
            BY <2>2 DEF Uncounted
        <2>4. QED
            BY <1>a, <2>1, <2>2, <2>3 DEF CountInv
    <1>6. ASSUME CountWritten \/ Disconnect \/ SignalStopped PROVE CountInv'
        BY <1>6, <1>a DEF CountWritten, Disconnect, SignalStopped, CountInv, Uncounted
    <1>7. ASSUME NEW f \in Flushers, Take(f) \/ DropSender(f) \/ Drained(f) \/ TimedOut(f)
          PROVE  CountInv'
        BY <1>7 DEF Take, DropSender, Drained, TimedOut, CountInv, Uncounted
    <1>8. CASE UNCHANGED sinkVars
        BY <1>8 DEF sinkVars, CountInv, Uncounted
    <1>9. QED
        BY <1>1, <1>2, <1>3, <1>4, <1>5, <1>6, <1>7, <1>8
           DEF LogNext, TaskReturns, WriterStep, FlusherReturns

LEMMA StopStep == LogTypeOK /\ StopInv /\ [LogNext]_sinkVars => StopInv'
    <1> SUFFICES ASSUME LogTypeOK, StopInv, [LogNext]_sinkVars PROVE StopInv'
        OBVIOUS
    <1> USE DEF StopInv, LogTypeOK, taskVars, writerVars, flushVars
    <1>1. ASSUME NEW t \in Tasks, Send(t) PROVE StopInv'
        <2>1. sender = "slot" /\ writerPc \notin {"stopping", "stopped"}
            BY <1>1 DEF Send
        <2>2. QED
            BY <1>1, <2>1 DEF Send, Accept
    <1>2. ASSUME NEW t \in Tasks, Count(t) \/ Refuse(t) \/ RecordDrop(t) PROVE StopInv'
        BY <1>2 DEF Count, Refuse, Submit, RecordDrop
    <1>3. ASSUME WriterStep PROVE StopInv'
        BY <1>3 DEF WriterStep, Receive, WriteAll, CountWritten, Disconnect, SignalStopped
    <1>4. ASSUME NEW f \in Flushers, Take(f) PROVE StopInv'
        BY <1>4 DEF Take
    <1>5. ASSUME NEW f \in Flushers, DropSender(f) PROVE StopInv'
        BY <1>5 DEF DropSender
    <1>6. ASSUME NEW f \in Flushers, Drained(f) \/ TimedOut(f) PROVE StopInv'
        BY <1>6 DEF Drained, TimedOut
    <1>7. CASE UNCHANGED sinkVars
        BY <1>7 DEF sinkVars
    <1>8. QED
        BY <1>1, <1>2, <1>3, <1>4, <1>5, <1>6, <1>7 DEF LogNext, TaskReturns, FlusherReturns

\* The file only grows, and once the sender has left its slot nothing more is
\* accepted: what a flush reported stays an upper bound.
LEMMA PendingStep == LogInv /\ [LogNext]_sinkVars => PendingBoundsTheLoss'
    <1> SUFFICES ASSUME LogInv, [LogNext]_sinkVars, NEW f \in Flushers, flushPc'[f] = "TimedOut"
                 PROVE  Len(accepted') - Len(file') <= pending'[f]
        BY DEF PendingBoundsTheLoss
    <1>a. /\ Len(accepted) \in Nat /\ Len(file) \in Nat /\ Len(buffer) \in Nat
          /\ queued \in Nat /\ written \in Nat /\ pending[f] \in Nat
        BY DEF LogInv, LogTypeOK
    <1>1. ASSUME flushPc[f] = "TimedOut", accepted' = accepted, Len(file') >= Len(file),
                 pending'[f] = pending[f], Len(file') \in Nat
          PROVE  Len(accepted') - Len(file') <= pending'[f]
        BY <1>1, <1>a DEF LogInv, PendingBoundsTheLoss
    <1>2. flushPc[f] = "TimedOut" => sender = "dropped"
        BY DEF LogInv, StopInv
    <1>3. ASSUME NEW t \in Tasks, Send(t) \/ Count(t) \/ Refuse(t) \/ RecordDrop(t)
          PROVE  Len(accepted') - Len(file') <= pending'[f]
        BY <1>1, <1>2, <1>3, <1>a
           DEF Send, Accept, Submit, Count, Refuse, RecordDrop, writerVars, flushVars, taskVars
    <1>4. ASSUME NEW ok \in BOOLEAN, WriteAll(ok)
          PROVE  Len(accepted') - Len(file') <= pending'[f]
        <2>1. Len(file') = Len(file) + 1
            BY <1>4 DEF WriteAll, LogInv, LogTypeOK
        <2>2. QED
            BY <1>1, <1>4, <1>a, <2>1 DEF WriteAll, flushVars, taskVars
    <1>5. ASSUME Receive \/ CountWritten \/ Disconnect \/ SignalStopped
          PROVE  Len(accepted') - Len(file') <= pending'[f]
        BY <1>1, <1>5, <1>a
           DEF Receive, CountWritten, Disconnect, SignalStopped, flushVars, taskVars
    <1>6. ASSUME NEW g \in Flushers, Take(g) \/ DropSender(g) \/ Drained(g)
          PROVE  Len(accepted') - Len(file') <= pending'[f]
        BY <1>1, <1>6, <1>a
           DEF Take, DropSender, Drained, taskVars, writerVars, LogInv, LogTypeOK
    <1>7. ASSUME NEW g \in Flushers, TimedOut(g)
          PROVE  Len(accepted') - Len(file') <= pending'[f]
        <2>1. accepted' = accepted /\ file' = file
            BY <1>7 DEF TimedOut, taskVars, writerVars
        <2>2. CASE g # f
            BY <1>1, <1>7, <1>a, <2>1, <2>2 DEF TimedOut, LogInv, LogTypeOK
        <2>3. CASE g = f
            <3>1. lock \notin Tasks
                BY <1>7, <2>3 DEF TimedOut, LogInv, StopInv, LockInv
            <3>2. Len(accepted) = queued /\ Len(file) >= written
                BY <1>a, <3>1 DEF LogInv, CountInv, Uncounted
            <3>3. pending'[f] = IF queued >= written THEN queued - written ELSE 0
                BY <1>7, <2>3 DEF TimedOut, LogInv, LogTypeOK
            <3>4. Len(accepted) >= Len(file)
                BY <1>a DEF LogInv, CountInv
            <3>5. QED
                BY <1>a, <2>1, <3>2, <3>3, <3>4
        <2>4. QED
            BY <2>2, <2>3
    <1>8. CASE UNCHANGED sinkVars
        BY <1>1, <1>8, <1>a DEF sinkVars, taskVars, writerVars, flushVars
    <1>9. QED
        BY <1>3, <1>4, <1>5, <1>6, <1>7, <1>8
           DEF LogNext, TaskReturns, WriterStep, FlusherReturns

LEMMA LogInvariant == LogSpec => []LogInv
    <1>1. LogInv /\ [LogNext]_sinkVars => LogInv'
        BY TypeStep, LockStep, CountStep, StopStep, PendingStep DEF LogInv
    <1>2. QED
        BY LogInvInit, <1>1, PTL DEF LogSpec
-----------------------------------------------------------------------------
\* Every variable keeps its type, with no underflow in pending_at_deadline.
THEOREM LogTypeCorrect == LogSpec => []LogTypeOK
    BY LogInvariant, PTL DEF LogInv

\* The counters and the places a record can be in always agree.
THEOREM CountsAgree == LogSpec => []CountsAddUp
    <1>1. LogInv => CountsAddUp
        BY DEF LogInv, LogTypeOK, WriterPcs, CountInv, Uncounted, CountsAddUp, InHand
    <1>2. QED
        BY LogInvariant, <1>1, PTL

\* A flush that reports Drained has left nothing behind.
THEOREM DrainedIsComplete == LogSpec => []DrainedMeansWritten
    <1>1. ASSUME LogInv, NEW f \in Flushers, flushPc[f] = "Drained"
          PROVE  /\ sender = "dropped" /\ writerPc = "stopped" /\ buffer = <<>>
                 /\ queued = written /\ Len(file) = Len(accepted)
        <2>1. sender = "dropped" /\ writerPc = "stopped" /\ buffer = <<>>
            BY <1>1 DEF LogInv, StopInv
        <2>2. lock \notin Tasks
            BY <1>1, <2>1 DEF LogInv, LockInv
        <2>3. Len(buffer) = 0
            BY <2>1, EmptySeq
        <2>4. QED
            BY <1>1, <2>1, <2>2, <2>3 DEF LogInv, LogTypeOK, CountInv, Uncounted
    <1>2. LogInv => DrainedMeansWritten
        BY <1>1 DEF DrainedMeansWritten
    <1>3. QED
        BY LogInvariant, <1>2, PTL

\* What a timed-out flush reports bounds the accepted records the writer may
\* still lose, whenever the process exits.
THEOREM PendingIsAnUpperBound == LogSpec => []PendingBoundsTheLoss
    BY LogInvariant, PTL DEF LogInv

\* After a flush has taken the sender the totals are final.
THEOREM TotalsAreFinal == LogSpec => NothingAcceptedAfterFlush
    <1>1. LogInv /\ [LogNext]_sinkVars =>
             [sender # "slot" => accepted' = accepted /\ queued' = queued]_sinkVars
        <2> SUFFICES ASSUME LogInv, [LogNext]_sinkVars, sender # "slot"
                     PROVE  accepted' = accepted /\ queued' = queued
            OBVIOUS
        <2>1. ASSUME NEW t \in Tasks, Send(t) \/ Count(t) \/ Refuse(t) \/ RecordDrop(t)
              PROVE  accepted' = accepted /\ queued' = queued
            BY <2>1 DEF Send, Count, Refuse, RecordDrop, LogInv, LockInv
        <2>2. ASSUME WriterStep PROVE accepted' = accepted /\ queued' = queued
            BY <2>2 DEF WriterStep, Receive, WriteAll, CountWritten, Disconnect,
                        SignalStopped, taskVars
        <2>3. ASSUME NEW f \in Flushers, Take(f) \/ DropSender(f) \/ Drained(f) \/ TimedOut(f)
              PROVE  accepted' = accepted /\ queued' = queued
            BY <2>3 DEF Take, DropSender, Drained, TimedOut, taskVars
        <2>4. CASE UNCHANGED sinkVars
            BY <2>4 DEF sinkVars, taskVars
        <2>5. QED
            BY <2>1, <2>2, <2>3, <2>4 DEF LogNext, TaskReturns, FlusherReturns
    <1>2. QED
        BY LogInvariant, <1>1, PTL DEF LogSpec, NothingAcceptedAfterFlush
=============================================================================
