-------------------------- MODULE SelectorCapacity --------------------------
(***************************************************************************)
(* The capacity a catalog-mode request must hold while the gateway reads   *)
(* its body for the `model` selector: OrgSelectionAdmission,               *)
(* acquire_selection_capacity and the bounded body read in                 *)
(* src/crates/gateway/src/lib.rs, with identity enabled.                   *)
(*                                                                         *)
(* A request takes one permit of its organization's semaphore, then one of *)
(* the global semaphore, under one deadline; it gives both back, one after *)
(* the other, when the body has been read, has failed, has timed out, or   *)
(* when its task is dropped. A map from organizations to semaphores is     *)
(* filled on demand and swept. Semaphores are first in, first out, as      *)
(* tokio's are.                                                            *)
(***************************************************************************)
EXTENDS Integers, FiniteSets, SequencesExt

CONSTANTS Requests,       \* requests that reach selector admission
          Orgs,           \* organizations
          OrgOf,          \* the organization each request authenticated as
          MaxConcurrent,  \* selector slots of the process: budget / (2 * max body)
          OrgLimit,       \* selector slots of one organization
          AcquireTimeout, \* ticks a request may wait for both permits
          ReadTimeout,    \* ticks a request may hold them
          Global,         \* the global semaphore
          NoSlot          \* no semaphore

ASSUME SelectorAssumption ==
    /\ IsFiniteSet(Requests) /\ OrgOf \in [Requests -> Orgs]
    /\ MaxConcurrent \in Nat \ {0} /\ OrgLimit \in Nat \ {0}
    /\ AcquireTimeout \in Nat /\ ReadTimeout \in Nat
    /\ Global \notin Requests /\ NoSlot \notin Requests /\ NoSlot # Global

VARIABLES pc,      \* where each request is
          slots,   \* OrgSelectionAdmission.slots: each organization's semaphore
          arc,     \* the semaphore whose Arc each request owns
          holders, \* the requests holding a permit of each semaphore
          queue,   \* the requests waiting for each semaphore, in order
          timer,   \* ticks since each request's running timer started
          waited   \* ticks it has waited for capacity so far (history)

vars == <<pc, slots, arc, holders, queue, timer, waited>>
-----------------------------------------------------------------------------
\* An organization's semaphore is named after the request that created it.
Semaphores == Requests \cup {Global}

Waiting  == {"cloned", "waitOrg", "waitGlobal"}
Refusals == {"organization_model_selection_overloaded",
             "gateway_model_selection_overloaded", "model_selection_body_timeout"}
Outcomes == Refusals \cup {"resolved", "cancelled"}

TypeOK ==
    /\ pc \in [Requests -> {"idle", "reading", "over"} \cup Waiting \cup Outcomes]
    /\ slots \in [Orgs -> Requests \cup {NoSlot}]
    /\ arc \in [Requests -> Requests \cup {NoSlot}]
    /\ holders \in [Semaphores -> SUBSET Requests]
    /\ queue \in [Semaphores -> Seq(Requests)]
    /\ timer \in [Requests -> Nat] /\ waited \in [Requests -> Nat]
    /\ \A r \in Requests :
          /\ pc[r] \in {"idle", "over"} => arc[r] = NoSlot
          /\ pc[r] \in Waiting \cup {"reading"} => arc[r] # NoSlot

Limit(s) == IF s = Global THEN MaxConcurrent ELSE OrgLimit
Free(s)  == Limit(s) - Cardinality(holders[s])

Granted_OneTooMany(s, r) == \E i \in DOMAIN queue[s] \cap 1..Free(s) + 1 : queue[s][i] = r

\* A released permit goes to the head of the queue, so the first `Free` waiters
\* have theirs as soon as they are polled.
Granted(s, r) == \E i \in DOMAIN queue[s] \cap 1..Free(s) : queue[s][i] = r

\* A queue its waiter has left: a request stands in a queue once at most.
Without(q, r) ==
    IF \E i \in DOMAIN q : q[i] = r
    THEN RemoveAt(q, CHOOSE i \in DOMAIN q : q[i] = r) ELSE q

\* Arc::strong_count: does any request own the semaphore, besides the map?
InUse(s) == \E r \in Requests : arc[r] = s

Init ==
    /\ pc = [r \in Requests |-> "idle"]
    /\ slots = [o \in Orgs |-> NoSlot]
    /\ arc = [r \in Requests |-> NoSlot]
    /\ holders = [s \in Semaphores |-> {}]
    /\ queue = [s \in Semaphores |-> <<>>]
    /\ timer = [r \in Requests |-> 0] /\ waited = [r \in Requests |-> 0]
-----------------------------------------------------------------------------
(* Waiting for both permits: acquire_selection_capacity *)

Sweep_Unheld(o, r) ==
    [p \in Orgs |-> IF p = o THEN r
                    ELSE IF slots[p] # NoSlot /\ holders[slots[p]] # {} THEN slots[p]
                    ELSE NoSlot]

\* A new entry for `o`; every semaphore only the map owns is dropped.
Sweep(o, r) ==
    [p \in Orgs |-> IF p = o THEN r
                    ELSE IF slots[p] # NoSlot /\ InUse(slots[p]) THEN slots[p]
                    ELSE NoSlot]

\* The deadline starts; under the map's lock the request clones the Arc of its
\* organization's semaphore, creating it, and sweeping, if there is none.
Slot(r) ==
    /\ pc[r] = "idle"
    /\ pc' = [pc EXCEPT ![r] = "cloned"]
    /\ slots' = IF slots[OrgOf[r]] # NoSlot THEN slots ELSE Sweep(OrgOf[r], r)
    /\ arc' = [arc EXCEPT ![r] = slots'[OrgOf[r]]]
    /\ UNCHANGED <<holders, queue, timer, waited>>

\* acquire_owned on that semaphore.
AskOrg(r) ==
    /\ pc[r] = "cloned"
    /\ pc' = [pc EXCEPT ![r] = "waitOrg"]
    /\ queue' = [queue EXCEPT ![arc[r]] = Append(@, r)]
    /\ UNCHANGED <<slots, arc, holders, timer, waited>>

TakePermit(s, r) ==
    /\ Granted(s, r)
    /\ holders' = [holders EXCEPT ![s] = @ \cup {r}]

AcquireOrg_NewDeadline(r) ==
    /\ pc[r] = "waitOrg" /\ TakePermit(arc[r], r)
    /\ pc' = [pc EXCEPT ![r] = "waitGlobal"]
    /\ queue' = [queue EXCEPT ![arc[r]] = Without(@, r), ![Global] = Append(@, r)]
    /\ timer' = [timer EXCEPT ![r] = 0]
    /\ UNCHANGED <<slots, arc, waited>>

\* The organization's permit is there; the request asks for a global one, under
\* the same deadline.
AcquireOrg(r) ==
    /\ pc[r] = "waitOrg" /\ TakePermit(arc[r], r)
    /\ pc' = [pc EXCEPT ![r] = "waitGlobal"]
    /\ queue' = [queue EXCEPT ![arc[r]] = Without(@, r), ![Global] = Append(@, r)]
    /\ UNCHANGED <<slots, arc, timer, waited>>

\* Both permits are held, and the bounded body read starts.
AcquireGlobal(r) ==
    /\ pc[r] = "waitGlobal" /\ TakePermit(Global, r)
    /\ pc' = [pc EXCEPT ![r] = "reading"]
    /\ queue' = [queue EXCEPT ![Global] = Without(@, r)]
    /\ timer' = [timer EXCEPT ![r] = 0]
    /\ UNCHANGED <<slots, arc, waited>>
-----------------------------------------------------------------------------
(* Giving them back: two semaphores, two steps, between which others act *)

Finish(r, outcome) ==
    /\ pc' = [pc EXCEPT ![r] = outcome]
    /\ timer' = [timer EXCEPT ![r] = 0] /\ waited' = [waited EXCEPT ![r] = 0]
    /\ UNCHANGED slots

\* The acquisition in flight is dropped: first its place in the queue, and the permit
\* that may have come to it there.
LeaveQueue(s, r) ==
    /\ queue' = [queue EXCEPT ![s] = Without(@, r)]
    /\ UNCHANGED <<holders, arc>>

\* SelectionPermits is dropped: first the organization's permit, and its Arc.
ReleaseOrg(r) ==
    /\ holders' = [holders EXCEPT ![arc[r]] = @ \ {r}]
    /\ arc' = [arc EXCEPT ![r] = NoSlot]
    /\ UNCHANGED queue

Release_KeepsGlobal(r) ==
    /\ pc[r] \in Outcomes
    /\ pc' = [pc EXCEPT ![r] = "over"]
    /\ holders' = [s \in Semaphores |-> IF s = Global THEN holders[s] ELSE holders[s] \ {r}]
    /\ arc' = [arc EXCEPT ![r] = NoSlot]
    /\ UNCHANGED <<slots, queue, timer, waited>>

\* Then what is left: the global permit of a request that read its body, the
\* organization's of one that waited for the global one, or the Arc alone.
Release(r) ==
    /\ pc[r] \in Outcomes
    /\ pc' = [pc EXCEPT ![r] = "over"]
    /\ holders' = [s \in Semaphores |-> holders[s] \ {r}]
    /\ arc' = [arc EXCEPT ![r] = NoSlot]
    /\ UNCHANGED <<slots, queue, timer, waited>>

\* timeout_at polls the acquisition first: a permit already granted is taken.
OrgTimesOut(r) ==
    /\ pc[r] = "waitOrg" /\ timer[r] >= AcquireTimeout /\ ~Granted(arc[r], r)
    /\ LeaveQueue(arc[r], r)
    /\ Finish(r, "organization_model_selection_overloaded")

GlobalTimesOut_DeadlineFirst(r) ==
    /\ pc[r] = "waitGlobal" /\ timer[r] >= AcquireTimeout
    /\ LeaveQueue(Global, r)
    /\ Finish(r, "gateway_model_selection_overloaded")

GlobalTimesOut(r) ==
    /\ pc[r] = "waitGlobal" /\ timer[r] >= AcquireTimeout /\ ~Granted(Global, r)
    /\ LeaveQueue(Global, r)
    /\ Finish(r, "gateway_model_selection_overloaded")

\* The body is there, or is refused as unreadable, too large, malformed, or for
\* the model it names: the client's doing, at any moment of the read.
BodyResolves(r) ==
    /\ pc[r] = "reading"
    /\ ReleaseOrg(r)
    /\ Finish(r, "resolved")

BodyTimesOut_Never(r) == pc[r] = "reading" /\ FALSE /\ UNCHANGED vars

BodyTimesOut(r) ==
    /\ pc[r] = "reading" /\ timer[r] >= ReadTimeout
    /\ ReleaseOrg(r)
    /\ Finish(r, "model_selection_body_timeout")

\* The connection goes away and its task is dropped at an await.
Cancel(r) ==
    /\ \/ pc[r] = "waitOrg" /\ LeaveQueue(arc[r], r)
       \/ pc[r] = "waitGlobal" /\ LeaveQueue(Global, r)
       \/ pc[r] = "reading" /\ ReleaseOrg(r)
    /\ Finish(r, "cancelled")
-----------------------------------------------------------------------------
Budget(r) == IF pc[r] = "reading" THEN ReadTimeout ELSE AcquireTimeout

Running(r) == pc[r] \in Waiting \cup {"reading"}

\* Time passes for every running timer, also while others are between their two
\* releases. Timers are prompt: none runs past its deadline before its request has
\* been polled.
Tick ==
    /\ \E r \in Requests : Running(r)
    /\ \A r \in Requests : Running(r) => timer[r] < Budget(r)
    /\ timer' = [r \in Requests |-> IF Running(r) THEN timer[r] + 1 ELSE timer[r]]
    /\ waited' = [r \in Requests |-> IF pc[r] \in Waiting THEN waited[r] + 1 ELSE waited[r]]
    /\ UNCHANGED <<pc, slots, arc, holders, queue>>

\* What the gateway does of itself for a request that has asked.
Poll(r) ==
    \/ AskOrg(r) \/ AcquireOrg(r) \/ AcquireGlobal(r) \/ Release(r)
    \/ OrgTimesOut(r) \/ GlobalTimesOut(r) \/ BodyTimesOut(r)

Next ==
    \/ \E r \in Requests : Slot(r) \/ Poll(r) \/ BodyResolves(r) \/ Cancel(r)
    \/ Tick

Spec == Init /\ [][Next]_vars

\* Polled tasks and a clock that runs. Clients owe nothing: a body may never
\* arrive.
FairSpec ==
    /\ Spec
    /\ \A r \in Requests : WF_vars(Poll(r))
    /\ WF_vars(Tick)
-----------------------------------------------------------------------------
(* Safety *)

\* The requests that read a body under a global permit or are in line for one.
Claimants == {q \in Requests : pc[q] \in {"waitGlobal", "reading"}}

ClaimsOf(o) == {r \in Claimants : OrgOf[r] = o}

\* The requests that have given back their organization's permit and are about to give
\* back the global one.
Returning == holders[Global] \ Claimants

\* However the map is swept and refilled, every semaphore a request still uses
\* is the one the map hands to its organization (lib.rs:908-913).
LiveSemaphoreIsMapped ==
    \A r \in Requests : arc[r] # NoSlot => slots[OrgOf[r]] = arc[r]

\* No organization reads more bodies at once, or is in line to, than its share, and all
\* of them together no more than the memory budget allows. The global permits that an
\* organization has may be more than its share: one whose body has been read is given
\* back after the organization's, which another request may have by then.
SharesAreKept ==
    /\ \A o \in Orgs : Cardinality(ClaimsOf(o)) <= OrgLimit
    /\ Cardinality(holders[Global]) <= MaxConcurrent

\* A tenant is refused for want of global capacity only when the shares of the tenants
\* that claim it at that moment, with the permits that are being given back at that
\* moment, do not fit the budget: stalled bodies of one tenant, however many, never
\* cost another its request.
NobodyIsShedForAnother ==
    [][\A r \in Requests :
           pc[r] = "waitGlobal" /\ pc'[r] = "gateway_model_selection_overloaded" =>
               OrgLimit * Cardinality({OrgOf[q] : q \in Claimants}) + Cardinality(Returning)
                   > MaxConcurrent]_vars

\* "One deadline covers both acquisitions rather than one each" (lib.rs:1551).
WaitIsOneBudget == \A r \in Requests : waited[r] <= AcquireTimeout
-----------------------------------------------------------------------------
(* Liveness *)

\* A request that asks for capacity is over in the end and holds nothing of it, though no
\* client ever completes its body.
EveryRequestIsAnswered ==
    \A r \in Requests :
        (pc[r] = "cloned") ~> (pc[r] = "over" /\ \A s \in Semaphores : r \notin holders[s])
=============================================================================
