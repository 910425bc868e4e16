----------------------- MODULE SelectorCapacityProofs -----------------------
(***************************************************************************)
(* What SelectorCapacity guarantees for any requests, organizations,       *)
(* shares, budgets and deadlines.                                          *)
(***************************************************************************)
EXTENDS SelectorCapacity, FiniteSetTheorems, FunctionTheorems, SequenceTheorems, TLAPS

Active == Waiting \cup {"reading"}

\* The types the argument needs; what the queues hold plays no part in it.
SlotTypes ==
    /\ pc \in [Requests -> {"idle", "over"} \cup Active \cup Outcomes]
    /\ slots \in [Orgs -> Requests \cup {NoSlot}]
    /\ arc \in [Requests -> Requests \cup {NoSlot}]
    /\ holders \in [Semaphores -> SUBSET Requests]

\* Whom a permit belongs to: a request that has got past a semaphore holds its permit,
\* and a global permit is held while a body is read or on the way out after it.
PermitInv ==
    \A r \in Requests :
        /\ pc[r] \in {"idle", "over"} => arc[r] = NoSlot
        /\ pc[r] \in Active => arc[r] # NoSlot
        /\ pc[r] \in {"waitGlobal", "reading"} => r \in holders[arc[r]]
        /\ r \in holders[Global] => pc[r] \in {"reading"} \cup Outcomes

\* No semaphore gives out more than it has.
BoundInv == \A s \in Semaphores : Cardinality(holders[s]) <= Limit(s)

SelectorInv == SlotTypes /\ PermitInv /\ BoundInv /\ LiveSemaphoreIsMapped

LEMMA ConstantFacts ==
    /\ IsFiniteSet(Requests) /\ OrgOf \in [Requests -> Orgs]
    /\ MaxConcurrent \in Nat /\ OrgLimit \in Nat
    /\ Global \notin Requests /\ NoSlot \notin Requests /\ NoSlot # Global
    BY SelectorAssumption DEF SelectorAssumption

\* The outcomes are places of their own.
LEMMA OutcomesAreOthers ==
    \A outcome \in Outcomes : outcome \notin Active /\ outcome \notin {"idle", "over"}
    BY DEF Outcomes, Active, Waiting, Refusals

LEMMA SelectorInit == Init => SelectorInv
    <1> SUFFICES ASSUME Init PROVE SelectorInv
        OBVIOUS
    <1> USE ConstantFacts DEF Init
    <1>1. SlotTypes
        BY DEF SlotTypes, Semaphores
    <1>2. PermitInv /\ LiveSemaphoreIsMapped
        BY DEF PermitInv, LiveSemaphoreIsMapped, Active, Waiting, Semaphores
    <1>3. BoundInv
        <2>1. ASSUME NEW s \in Semaphores PROVE Limit(s) \in Nat /\ holders[s] = {}
            BY DEF Limit
        <2>2. QED
            BY <2>1, FS_EmptySet DEF BoundInv
    <1>4. QED
        BY <1>1, <1>2, <1>3 DEF SelectorInv
-----------------------------------------------------------------------------
(* Creating and sweeping semaphores *)

\* A sweep keeps every semaphore a request owns, and an organization whose
\* semaphore is in use never gets a second one.
LEMMA SlotStep ==
    ASSUME SelectorInv, NEW r \in Requests, Slot(r)
    PROVE  SelectorInv'
    <1> USE ConstantFacts DEF SelectorInv
    <1>0. OrgOf[r] \in Orgs
        OBVIOUS
    <1>1. /\ pc[r] = "idle" /\ pc' = [pc EXCEPT ![r] = "cloned"]
          /\ holders' = holders /\ arc[r] = NoSlot
          /\ arc' = [arc EXCEPT ![r] = slots'[OrgOf[r]]]
        BY DEF Slot, PermitInv, Active, Waiting
    <1>2. slots' \in [Orgs -> Requests \cup {NoSlot}] /\ slots'[OrgOf[r]] \in Requests
        BY <1>0 DEF Slot, Sweep, SlotTypes
    <1>3. SlotTypes'
        BY <1>1, <1>2 DEF SlotTypes, Active, Waiting
    <1>4. PermitInv'
        <2> SUFFICES ASSUME NEW x \in Requests
                     PROVE  /\ pc'[x] \in {"idle", "over"} => arc'[x] = NoSlot
                            /\ pc'[x] \in Active => arc'[x] # NoSlot
                            /\ pc'[x] \in {"waitGlobal", "reading"} => x \in holders'[arc'[x]]
                            /\ x \in holders'[Global] => pc'[x] \in {"reading"} \cup Outcomes
            BY DEF PermitInv
        <2>1. CASE x = r
            BY <1>1, <1>2, <2>1, OutcomesAreOthers DEF PermitInv, SlotTypes, Active, Waiting
        <2>2. CASE x # r
            BY <1>1, <2>2 DEF PermitInv, SlotTypes
        <2>3. QED
            BY <2>1, <2>2
    <1>5. BoundInv'
        BY <1>1 DEF BoundInv
    <1>6. LiveSemaphoreIsMapped'
        <2> SUFFICES ASSUME NEW x \in Requests, arc'[x] # NoSlot
                     PROVE  slots'[OrgOf[x]] = arc'[x]
            BY DEF LiveSemaphoreIsMapped
        <2>1. CASE x = r
            BY <1>1, <2>1 DEF SlotTypes
        <2>2. CASE x # r
            <3>1. arc'[x] = arc[x] /\ slots[OrgOf[x]] = arc[x] /\ arc[x] # NoSlot
                BY <1>1, <2>2 DEF SlotTypes, LiveSemaphoreIsMapped
            <3>2. InUse(slots[OrgOf[x]]) /\ OrgOf[x] \in Orgs
                BY <3>1 DEF InUse
            <3>3. QED
                BY <3>1, <3>2 DEF Slot, Sweep
        <2>3. QED
            BY <2>1, <2>2
    <1>7. QED
        BY <1>3, <1>4, <1>5, <1>6
-----------------------------------------------------------------------------
(* Taking and returning permits *)

LEMMA HoldersAreFinite ==
    ASSUME SelectorInv, NEW s \in Semaphores
    PROVE  IsFiniteSet(holders[s]) /\ Cardinality(holders[s]) \in Nat /\ Limit(s) \in Nat
    <1>1. holders[s] \in SUBSET Requests
        BY DEF SelectorInv, SlotTypes
    <1>2. IsFiniteSet(holders[s])
        BY <1>1, ConstantFacts, FS_Subset
    <1>3. QED
        BY <1>2, ConstantFacts, FS_CardinalityType DEF Limit

\* A permit is granted only while one is free.
LEMMA TakeStaysWithin ==
    ASSUME SelectorInv, NEW r \in Requests, NEW s \in Semaphores, TakePermit(s, r)
    PROVE  BoundInv'
    <1>1. Cardinality(holders[s]) + 1 <= Limit(s)
        <2>1. PICK i \in 1..Free(s) : TRUE
            BY DEF TakePermit, Granted
        <2>2. QED
            BY <2>1, HoldersAreFinite DEF Free
    <1>2. Cardinality(holders[s] \cup {r}) <= Cardinality(holders[s]) + 1
        <2>1. /\ r \in holders[s] => Cardinality(holders[s] \cup {r}) = Cardinality(holders[s])
              /\ r \notin holders[s] => Cardinality(holders[s] \cup {r}) = Cardinality(holders[s]) + 1
            BY HoldersAreFinite, FS_AddElement
        <2>2. QED
            BY <2>1, HoldersAreFinite
    <1>3. IsFiniteSet(holders[s] \cup {r}) /\ Cardinality(holders[s] \cup {r}) \in Nat
        BY HoldersAreFinite, FS_AddElement, FS_CardinalityType
    <1>4. ASSUME NEW t \in Semaphores PROVE Cardinality(holders'[t]) <= Limit(t)
        <2>1. CASE t = s
            <3>1. holders'[t] = holders[s] \cup {r}
                BY <2>1 DEF TakePermit, SelectorInv, SlotTypes
            <3>2. QED
                BY <1>1, <1>2, <1>3, <2>1, <3>1, HoldersAreFinite
        <2>2. CASE t # s
            BY <2>2 DEF TakePermit, SelectorInv, SlotTypes, BoundInv
        <2>3. QED
            BY <2>1, <2>2
    <1>5. QED
        BY <1>4 DEF BoundInv, Limit

LEMMA AcquireOrgStep ==
    ASSUME SelectorInv, NEW r \in Requests, AcquireOrg(r)
    PROVE  SelectorInv'
    <1> USE ConstantFacts
    <1>1. /\ pc[r] = "waitOrg" /\ pc' = [pc EXCEPT ![r] = "waitGlobal"]
          /\ slots' = slots /\ arc' = arc
          /\ holders' = [holders EXCEPT ![arc[r]] = @ \cup {r}]
        BY DEF AcquireOrg, TakePermit
    <1>2. arc[r] \in Requests /\ arc[r] \in Semaphores /\ arc[r] # Global
        BY <1>1 DEF SelectorInv, SlotTypes, PermitInv, Active, Waiting, Semaphores
    <1>3. SlotTypes'
        BY <1>1, <1>2 DEF SelectorInv, SlotTypes, Active, Waiting
    <1>4. PermitInv'
        <2> SUFFICES ASSUME NEW x \in Requests
                     PROVE  /\ pc'[x] \in {"idle", "over"} => arc'[x] = NoSlot
                            /\ pc'[x] \in Active => arc'[x] # NoSlot
                            /\ pc'[x] \in {"waitGlobal", "reading"} => x \in holders'[arc'[x]]
                            /\ x \in holders'[Global] => pc'[x] \in {"reading"} \cup Outcomes
            BY DEF PermitInv
        <2>1. holders'[Global] = holders[Global] /\ Global \in Semaphores
            BY <1>1, <1>2 DEF SelectorInv, SlotTypes, Semaphores
        <2>2. CASE x = r
            BY <1>1, <1>2, <2>1, <2>2, OutcomesAreOthers
               DEF SelectorInv, SlotTypes, PermitInv, Active, Waiting
        <2>3. CASE x # r
            <3>1. pc'[x] = pc[x] /\ arc'[x] = arc[x] /\ arc[x] \in Requests \cup {NoSlot}
                BY <1>1, <2>3 DEF SelectorInv, SlotTypes
            <3>2. pc[x] \in {"waitGlobal", "reading"} => arc[x] \in Semaphores
                BY <3>1 DEF SelectorInv, PermitInv, Active, Waiting, Semaphores
            <3>3. \A s \in Semaphores : holders[s] \subseteq holders'[s]
                BY <1>1 DEF SelectorInv, SlotTypes
            <3>4. QED
                BY <2>1, <3>1, <3>2, <3>3 DEF SelectorInv, PermitInv
        <2>4. QED
            BY <2>2, <2>3
    <1>5. BoundInv'
        BY <1>2, TakeStaysWithin DEF AcquireOrg
    <1>6. LiveSemaphoreIsMapped'
        BY <1>1 DEF SelectorInv, LiveSemaphoreIsMapped
    <1>7. QED
        BY <1>3, <1>4, <1>5, <1>6 DEF SelectorInv

LEMMA AcquireGlobalStep ==
    ASSUME SelectorInv, NEW r \in Requests, AcquireGlobal(r)
    PROVE  SelectorInv'
    <1> USE ConstantFacts
    <1>1. /\ pc[r] = "waitGlobal" /\ pc' = [pc EXCEPT ![r] = "reading"]
          /\ slots' = slots /\ arc' = arc
          /\ holders' = [holders EXCEPT ![Global] = @ \cup {r}]
        BY DEF AcquireGlobal, TakePermit
    <1>2. Global \in Semaphores
        BY DEF Semaphores
    <1>3. SlotTypes'
        BY <1>1, <1>2 DEF SelectorInv, SlotTypes, Active, Waiting
    <1>4. PermitInv'
        BY <1>1, <1>2 DEF SelectorInv, SlotTypes, PermitInv, Active, Waiting, Semaphores
    <1>5. BoundInv'
        BY <1>2, TakeStaysWithin DEF AcquireGlobal
    <1>6. LiveSemaphoreIsMapped'
        BY <1>1 DEF SelectorInv, LiveSemaphoreIsMapped
    <1>7. QED
        BY <1>3, <1>4, <1>5, <1>6 DEF SelectorInv

\* Giving permits back keeps every semaphore within its bound.
LEMMA GivingBackStaysWithin ==
    ASSUME SelectorInv, \A s \in Semaphores : holders'[s] \subseteq holders[s]
    PROVE  BoundInv'
    <1> SUFFICES ASSUME NEW s \in Semaphores
                 PROVE  Cardinality(holders'[s]) <= Limit(s)
        BY DEF BoundInv, Limit
    <1>1. Cardinality(holders'[s]) <= Cardinality(holders[s]) /\ Cardinality(holders'[s]) \in Nat
        BY HoldersAreFinite, FS_Subset, FS_CardinalityType
    <1>2. Cardinality(holders[s]) <= Limit(s)
        BY DEF SelectorInv, BoundInv
    <1>3. QED
        BY <1>1, <1>2, HoldersAreFinite

\* A request that stops waiting leaves a queue and keeps, for now, what it holds.
LEMMA LeaveStep ==
    ASSUME SelectorInv, NEW r \in Requests, pc[r] \in Waiting, NEW s, LeaveQueue(s, r),
           NEW outcome \in Outcomes, Finish(r, outcome)
    PROVE  SelectorInv'
    <1>1. /\ pc' = [pc EXCEPT ![r] = outcome] /\ slots' = slots
          /\ arc' = arc /\ holders' = holders
        BY DEF Finish, LeaveQueue
    <1>2. SlotTypes' /\ LiveSemaphoreIsMapped'
        BY <1>1 DEF SelectorInv, SlotTypes, LiveSemaphoreIsMapped
    <1>3. PermitInv'
        <2> SUFFICES ASSUME NEW x \in Requests
                     PROVE  /\ pc'[x] \in {"idle", "over"} => arc'[x] = NoSlot
                            /\ pc'[x] \in Active => arc'[x] # NoSlot
                            /\ pc'[x] \in {"waitGlobal", "reading"} => x \in holders'[arc'[x]]
                            /\ x \in holders'[Global] => pc'[x] \in {"reading"} \cup Outcomes
            BY DEF PermitInv
        <2>1. CASE x = r
            BY <1>1, <2>1, OutcomesAreOthers DEF SelectorInv, SlotTypes, Active, Waiting
        <2>2. CASE x # r
            BY <1>1, <2>2 DEF SelectorInv, SlotTypes, PermitInv
        <2>3. QED
            BY <2>1, <2>2
    <1>4. BoundInv'
        BY <1>1 DEF SelectorInv, BoundInv
    <1>5. QED
        BY <1>2, <1>3, <1>4 DEF SelectorInv

\* A request that stops reading gives its organization's permit back and keeps, for now,
\* the global one.
LEMMA ReleaseOrgStep ==
    ASSUME SelectorInv, NEW r \in Requests, pc[r] = "reading", ReleaseOrg(r),
           NEW outcome \in Outcomes, Finish(r, outcome)
    PROVE  SelectorInv'
    <1> USE ConstantFacts
    <1>1. /\ pc' = [pc EXCEPT ![r] = outcome] /\ slots' = slots
          /\ arc' = [arc EXCEPT ![r] = NoSlot]
          /\ holders' = [holders EXCEPT ![arc[r]] = @ \ {r}]
        BY DEF Finish, ReleaseOrg
    <1>2. \A s \in Semaphores :
              /\ holders'[s] \subseteq holders[s]
              /\ \A x \in Requests \ {r} : x \in holders'[s] <=> x \in holders[s]
        BY <1>1 DEF SelectorInv, SlotTypes
    <1>3. SlotTypes' /\ LiveSemaphoreIsMapped'
        BY <1>1 DEF SelectorInv, SlotTypes, LiveSemaphoreIsMapped
    <1>4. PermitInv'
        <2> SUFFICES ASSUME NEW x \in Requests
                     PROVE  /\ pc'[x] \in {"idle", "over"} => arc'[x] = NoSlot
                            /\ pc'[x] \in Active => arc'[x] # NoSlot
                            /\ pc'[x] \in {"waitGlobal", "reading"} => x \in holders'[arc'[x]]
                            /\ x \in holders'[Global] => pc'[x] \in {"reading"} \cup Outcomes
            BY DEF PermitInv
        <2>1. CASE x = r
            BY <1>1, <2>1, OutcomesAreOthers DEF SelectorInv, SlotTypes, Active, Waiting
        <2>2. CASE x # r
            <3>1. pc'[x] = pc[x] /\ arc'[x] = arc[x] /\ arc[x] \in Requests \cup {NoSlot}
                BY <1>1, <2>2 DEF SelectorInv, SlotTypes
            <3>2. pc[x] \in {"waitGlobal", "reading"} => arc[x] \in Semaphores
                BY <3>1 DEF SelectorInv, PermitInv, Active, Waiting, Semaphores
            <3>3. QED
                BY <1>2, <2>2, <3>1, <3>2 DEF SelectorInv, PermitInv, Semaphores
        <2>3. QED
            BY <2>1, <2>2
    <1>5. BoundInv'
        BY <1>2, GivingBackStaysWithin
    <1>6. QED
        BY <1>3, <1>4, <1>5 DEF SelectorInv

\* Then it gives back the rest.
LEMMA ReleaseStep ==
    ASSUME SelectorInv, NEW r \in Requests, Release(r)
    PROVE  SelectorInv'
    <1> USE ConstantFacts
    <1>1. /\ pc' = [pc EXCEPT ![r] = "over"] /\ slots' = slots
          /\ arc' = [arc EXCEPT ![r] = NoSlot]
          /\ holders' = [s \in Semaphores |-> holders[s] \ {r}]
        BY DEF Release
    <1>2. \A s \in Semaphores :
              /\ holders'[s] \subseteq holders[s] /\ r \notin holders'[s]
              /\ \A x \in Requests \ {r} : x \in holders'[s] <=> x \in holders[s]
        BY <1>1
    <1>3. SlotTypes' /\ LiveSemaphoreIsMapped'
        BY <1>1 DEF SelectorInv, SlotTypes, LiveSemaphoreIsMapped
    <1>4. PermitInv'
        <2> SUFFICES ASSUME NEW x \in Requests
                     PROVE  /\ pc'[x] \in {"idle", "over"} => arc'[x] = NoSlot
                            /\ pc'[x] \in Active => arc'[x] # NoSlot
                            /\ pc'[x] \in {"waitGlobal", "reading"} => x \in holders'[arc'[x]]
                            /\ x \in holders'[Global] => pc'[x] \in {"reading"} \cup Outcomes
            BY DEF PermitInv
        <2>1. CASE x = r
            BY <1>1, <1>2, <2>1 DEF SelectorInv, SlotTypes, Active, Waiting, Semaphores
        <2>2. CASE x # r
            <3>1. pc'[x] = pc[x] /\ arc'[x] = arc[x] /\ arc[x] \in Requests \cup {NoSlot}
                BY <1>1, <2>2 DEF SelectorInv, SlotTypes
            <3>2. pc[x] \in {"waitGlobal", "reading"} => arc[x] \in Semaphores
                BY <3>1 DEF SelectorInv, PermitInv, Active, Waiting, Semaphores
            <3>3. QED
                BY <1>2, <2>2, <3>1, <3>2 DEF SelectorInv, PermitInv, Semaphores
        <2>3. QED
            BY <2>1, <2>2
    <1>5. BoundInv'
        BY <1>2, GivingBackStaysWithin
    <1>6. QED
        BY <1>3, <1>4, <1>5 DEF SelectorInv

\* However a request ends, its first step is to leave the queue it waits in, or to give
\* its organization's permit back when it reads.
LEMMA Endings ==
    ASSUME NEW r \in Requests,
           OrgTimesOut(r) \/ GlobalTimesOut(r) \/ BodyTimesOut(r) \/ BodyResolves(r) \/ Cancel(r)
    PROVE  \E outcome \in Outcomes :
              /\ Finish(r, outcome)
              /\ \/ pc[r] = "waitOrg" /\ LeaveQueue(arc[r], r)
                 \/ pc[r] = "waitGlobal" /\ LeaveQueue(Global, r)
                 \/ pc[r] = "reading" /\ ReleaseOrg(r)
    BY DEF OrgTimesOut, GlobalTimesOut, BodyTimesOut, BodyResolves, Cancel, Outcomes, Refusals
-----------------------------------------------------------------------------
LEMMA SelectorStep == SelectorInv /\ [Next]_vars => SelectorInv'
    <1> SUFFICES ASSUME SelectorInv, [Next]_vars PROVE SelectorInv'
        OBVIOUS
    <1>1. ASSUME NEW r \in Requests, AskOrg(r) PROVE SelectorInv'
        <2>1. /\ pc[r] = "cloned" /\ pc' = [pc EXCEPT ![r] = "waitOrg"]
              /\ UNCHANGED <<slots, arc, holders>>
            BY <1>1 DEF AskOrg
        <2>2. SlotTypes' /\ BoundInv' /\ LiveSemaphoreIsMapped'
            BY <2>1 DEF SelectorInv, SlotTypes, BoundInv, LiveSemaphoreIsMapped, Active, Waiting
        <2>3. \A x \in Requests : pc'[x] = IF x = r THEN "waitOrg" ELSE pc[x]
            BY <2>1 DEF SelectorInv, SlotTypes
        <2>4. PermitInv'
            BY <2>1, <2>3, OutcomesAreOthers DEF SelectorInv, PermitInv, Active, Waiting
        <2>5. QED
            BY <2>2, <2>4 DEF SelectorInv
    <1>2. ASSUME NEW r \in Requests,
                 OrgTimesOut(r) \/ GlobalTimesOut(r) \/ BodyTimesOut(r) \/ BodyResolves(r) \/ Cancel(r)
          PROVE  SelectorInv'
        <2>1. PICK outcome \in Outcomes :
                  /\ Finish(r, outcome)
                  /\ \/ pc[r] = "waitOrg" /\ LeaveQueue(arc[r], r)
                     \/ pc[r] = "waitGlobal" /\ LeaveQueue(Global, r)
                     \/ pc[r] = "reading" /\ ReleaseOrg(r)
            BY <1>2, Endings
        <2>2. QED
            BY <2>1, LeaveStep, ReleaseOrgStep DEF Waiting
    <1>3. CASE UNCHANGED <<pc, slots, arc, holders, queue>>
        BY <1>3 DEF SelectorInv, SlotTypes, PermitInv, BoundInv, LiveSemaphoreIsMapped
    <1>4. QED
        BY <1>1, <1>2, <1>3, SlotStep, AcquireOrgStep, AcquireGlobalStep, ReleaseStep
           DEF Next, Poll, Tick, vars

LEMMA SelectorInvariant == Spec => []SelectorInv
    BY SelectorInit, SelectorStep, PTL DEF Spec

\* However the map is swept and refilled, the semaphore a request uses is the one
\* its organization's next request will get.
THEOREM OneSemaphorePerOrg == Spec => []LiveSemaphoreIsMapped
    BY SelectorInvariant, PTL DEF SelectorInv

\* No organization ever reads more bodies, or is in line to, than its share, nor does the
\* process read more than its budget: whoever is past its organization's semaphore holds
\* a permit of the one the map has for it.
THEOREM SharesHold == Spec => []SharesAreKept
    <1>1. SelectorInv => SharesAreKept
        <2> SUFFICES ASSUME SelectorInv PROVE SharesAreKept
            OBVIOUS
        <2>1. Cardinality(holders[Global]) <= MaxConcurrent
            BY DEF SelectorInv, BoundInv, Limit, Semaphores
        <2>2. ASSUME NEW o \in Orgs PROVE Cardinality(ClaimsOf(o)) <= OrgLimit
            <3>1. CASE ClaimsOf(o) = {}
                BY <3>1, ConstantFacts, FS_EmptySet
            <3>2. CASE ClaimsOf(o) # {}
                <4>1. ASSUME NEW r \in ClaimsOf(o)
                      PROVE  r \in holders[slots[o]] /\ slots[o] \in Requests
                    <5>1. r \in Requests /\ pc[r] \in {"waitGlobal", "reading"} /\ OrgOf[r] = o
                        BY DEF ClaimsOf, Claimants
                    <5>2. arc[r] # NoSlot /\ r \in holders[arc[r]]
                        BY <5>1 DEF SelectorInv, PermitInv, Active, Waiting
                    <5>3. arc[r] = slots[o] /\ arc[r] \in Requests
                        BY <5>1, <5>2 DEF SelectorInv, SlotTypes, LiveSemaphoreIsMapped
                    <5>4. QED
                        BY <5>2, <5>3
                <4>2. slots[o] \in Requests /\ slots[o] \in Semaphores /\ slots[o] # Global
                    BY <3>2, <4>1, ConstantFacts DEF Semaphores
                <4>3. Cardinality(ClaimsOf(o)) <= Cardinality(holders[slots[o]])
                      /\ Cardinality(ClaimsOf(o)) \in Nat
                    BY <4>1, <4>2, HoldersAreFinite, FS_Subset, FS_CardinalityType
                <4>4. Cardinality(holders[slots[o]]) <= OrgLimit
                    BY <4>2 DEF SelectorInv, BoundInv, Limit
                <4>5. QED
                    BY <4>2, <4>3, <4>4, HoldersAreFinite, ConstantFacts
            <3>3. QED
                BY <3>1, <3>2
        <2>3. QED
            BY <2>1, <2>2 DEF SharesAreKept
    <1>2. QED
        BY SelectorInvariant, <1>1, PTL
-----------------------------------------------------------------------------
(* One deadline for both permits *)

\* Until a request has both permits its timer is the time it has waited; once it
\* reads, the timer is another one and the wait is over.
WaitInv ==
    /\ timer \in [Requests -> Nat] /\ waited \in [Requests -> Nat]
    /\ \A r \in Requests :
        /\ pc[r] \notin Active => timer[r] = 0 /\ waited[r] = 0
        /\ pc[r] \in Waiting => waited[r] = timer[r]
        /\ waited[r] <= AcquireTimeout

LEMMA WaitStep == SelectorInv /\ WaitInv /\ [Next]_vars => WaitInv'
    <1> SUFFICES ASSUME SelectorInv, WaitInv, [Next]_vars PROVE WaitInv'
        OBVIOUS
    <1>0. /\ pc \in [Requests -> {"idle", "over"} \cup Active \cup Outcomes]
          /\ AcquireTimeout \in Nat
        BY SelectorAssumption DEF SelectorInv, SlotTypes, SelectorAssumption
    <1>1. ASSUME NEW r \in Requests, Slot(r) \/ AskOrg(r) \/ AcquireOrg(r) PROVE WaitInv'
        <2>1. /\ timer' = timer /\ waited' = waited
              /\ \/ pc[r] = "idle" /\ pc' = [pc EXCEPT ![r] = "cloned"]
                 \/ pc[r] = "cloned" /\ pc' = [pc EXCEPT ![r] = "waitOrg"]
                 \/ pc[r] = "waitOrg" /\ pc' = [pc EXCEPT ![r] = "waitGlobal"]
            BY <1>1 DEF Slot, AskOrg, AcquireOrg
        <2>2. QED
            BY <1>0, <2>1 DEF WaitInv, Active, Waiting
    <1>2. ASSUME NEW r \in Requests, AcquireGlobal(r) PROVE WaitInv'
        <2>1. /\ timer' = [timer EXCEPT ![r] = 0] /\ waited' = waited
              /\ pc' = [pc EXCEPT ![r] = "reading"]
            BY <1>2 DEF AcquireGlobal
        <2>2. QED
            BY <1>0, <2>1 DEF WaitInv, Active, Waiting
    <1>3. ASSUME NEW r \in Requests, NEW outcome \in Outcomes, Finish(r, outcome) PROVE WaitInv'
        <2>1. /\ timer' = [timer EXCEPT ![r] = 0] /\ waited' = [waited EXCEPT ![r] = 0]
              /\ pc' = [pc EXCEPT ![r] = outcome]
            BY <1>3 DEF Finish
        <2>2. QED
            BY <1>0, <2>1, OutcomesAreOthers DEF WaitInv, Active
    <1>a. ASSUME NEW r \in Requests, Release(r) PROVE WaitInv'
        <2>1. /\ timer' = timer /\ waited' = waited /\ pc[r] \in Outcomes
              /\ pc' = [pc EXCEPT ![r] = "over"]
            BY <1>a DEF Release
        <2>2. QED
            BY <1>0, <2>1, OutcomesAreOthers DEF WaitInv, Active, Waiting
    <1>4. ASSUME Tick PROVE WaitInv'
        <2>1. /\ pc' = pc
              /\ timer' = [r \in Requests |-> IF Running(r) THEN timer[r] + 1 ELSE timer[r]]
              /\ waited' = [r \in Requests |->
                                IF pc[r] \in Waiting THEN waited[r] + 1 ELSE waited[r]]
            BY <1>4 DEF Tick
        <2>2. ASSUME NEW r \in Requests, pc[r] \in Waiting PROVE timer[r] < AcquireTimeout
            BY <1>4, <2>2 DEF Tick, Running, Budget, Waiting
        <2>3. timer' \in [Requests -> Nat] /\ waited' \in [Requests -> Nat]
            BY <2>1 DEF WaitInv
        <2>4. ASSUME NEW r \in Requests
              PROVE  /\ pc'[r] \notin Active => timer'[r] = 0 /\ waited'[r] = 0
                     /\ pc'[r] \in Waiting => waited'[r] = timer'[r]
                     /\ waited'[r] <= AcquireTimeout
            BY <1>0, <2>1, <2>2 DEF WaitInv, Running, Active
        <2>5. QED
            BY <2>3, <2>4 DEF WaitInv, Active
    <1>5. CASE UNCHANGED vars
        BY <1>5 DEF WaitInv, vars
    <1>6. QED
        BY <1>1, <1>2, <1>3, <1>a, <1>4, <1>5, Endings DEF Next, Poll

\* A request waits for its organization's permit and the global one together no
\* longer than the one budget it was promised.
THEOREM OneDeadline == Spec => []WaitIsOneBudget
    <1>1. Init => WaitInv
        BY SelectorAssumption DEF Init, WaitInv, SelectorAssumption, Active, Waiting
    <1>2. WaitInv => WaitIsOneBudget
        BY DEF WaitInv, WaitIsOneBudget
    <1>3. QED
        BY <1>1, <1>2, SelectorInvariant, WaitStep, PTL DEF Spec
-----------------------------------------------------------------------------
(* Who stands in line for the process's slots *)

\* A queue in which nobody stands twice.
Orderly(q) == \A i, j \in DOMAIN q : q[i] = q[j] => i = j

\* Leaving a queue keeps the others in it, once each.
LEMMA LeavingAQueue ==
    ASSUME NEW S, NEW q \in Seq(S), NEW r
    PROVE  /\ Without(q, r) \in Seq(S)
           /\ Orderly(q) =>
                /\ Orderly(Without(q, r))
                /\ Range(Without(q, r)) = Range(q) \ {r}
    <1> DEFINE w == Without(q, r)
    <1>0. Len(q) \in Nat /\ DOMAIN q = 1..Len(q) /\ \A j \in 1..Len(q) : q[j] \in S
        OBVIOUS
    <1>1. CASE \E i \in DOMAIN q : q[i] = r
        <2> DEFINE i == CHOOSE k \in DOMAIN q : q[k] = r
        <2>1. i \in 1..Len(q) /\ q[i] = r
            BY <1>0, <1>1
        <2>2. w = SubSeq(q, 1, i - 1) \o SubSeq(q, i + 1, Len(q))
            BY <1>1 DEF Without, RemoveAt
        <2> HIDE DEF i, w
        <2>3. /\ SubSeq(q, 1, i - 1) \in Seq(S) /\ Len(SubSeq(q, 1, i - 1)) = i - 1
              /\ \A j \in 1..i - 1 : SubSeq(q, 1, i - 1)[j] = q[j]
            <3>1. \A j \in 1..i - 1 : q[j] \in S
                BY <1>0, <2>1
            <3>2. QED
                BY <2>1, <3>1, SubSeqProperties
        <2>4. /\ SubSeq(q, i + 1, Len(q)) \in Seq(S)
              /\ Len(SubSeq(q, i + 1, Len(q))) = Len(q) - i
              /\ \A j \in 1..Len(q) - i : SubSeq(q, i + 1, Len(q))[j] = q[j + i]
            <3>1. \A j \in i + 1..Len(q) : q[j] \in S
                BY <1>0, <2>1
            <3>2. i + 1 \in Int /\ Len(q) \in Int
                BY <1>0, <2>1
            <3>3. /\ SubSeq(q, i + 1, Len(q)) \in Seq(S)
                  /\ Len(SubSeq(q, i + 1, Len(q))) =
                        IF i + 1 <= Len(q) THEN Len(q) - (i + 1) + 1 ELSE 0
                  /\ \A j \in 1..Len(q) - (i + 1) + 1 :
                        SubSeq(q, i + 1, Len(q))[j] = q[(i + 1) + j - 1]
                BY <3>1, <3>2, SubSeqProperties
            <3>4. Len(SubSeq(q, i + 1, Len(q))) = Len(q) - i
                <4>1. CASE i + 1 <= Len(q)
                    <5>1. Len(q) - (i + 1) + 1 = Len(q) - i
                        BY <1>0, <2>1
                    <5>2. QED
                        BY <3>3, <4>1, <5>1, Zenon
                <4>2. CASE ~(i + 1 <= Len(q))
                    <5>1. Len(q) - i = 0
                        <6>1. \A n \in Nat : \A k \in 1..n : ~(k + 1 <= n) => n - k = 0
                            OBVIOUS
                        <6>2. QED
                            BY <1>0, <2>1, <4>2, <6>1, Zenon
                    <5>2. Len(SubSeq(q, i + 1, Len(q))) = 0
                        BY <3>3, <4>2, Zenon
                    <5>3. QED
                        BY <5>1, <5>2, Zenon
                <4>3. QED
                    BY <4>1, <4>2
            <3>5. ASSUME NEW j \in 1..Len(q) - i
                  PROVE  SubSeq(q, i + 1, Len(q))[j] = q[j + i]
                <4>1. j \in 1..Len(q) - (i + 1) + 1 /\ (i + 1) + j - 1 = j + i
                    BY <1>0, <2>1
                <4>2. QED
                    BY <3>3, <4>1
            <3>6. QED
                BY <3>3, <3>4, <3>5
        <2>5. /\ w \in Seq(S) /\ DOMAIN w = 1..Len(q) - 1
              /\ \A j \in 1..Len(q) - 1 : w[j] = IF j < i THEN q[j] ELSE q[j + 1]
            <3> DEFINE a == SubSeq(q, 1, i - 1)
                       b == SubSeq(q, i + 1, Len(q))
            <3> HIDE DEF a, b
            <3>1. a \in Seq(S) /\ b \in Seq(S) /\ Len(a) = i - 1 /\ Len(b) = Len(q) - i
                BY <2>3, <2>4 DEF a, b
            <3>2. /\ a \o b \in Seq(S) /\ Len(a \o b) = Len(a) + Len(b)
                  /\ \A j \in 1..Len(a) + Len(b) :
                        (a \o b)[j] = IF j <= Len(a) THEN a[j] ELSE b[j - Len(a)]
                BY <3>1, ConcatProperties
            <3>3. Len(a) + Len(b) = Len(q) - 1
                BY <1>0, <2>1, <3>1
            <3>4. w \in Seq(S) /\ Len(w) = Len(q) - 1
                BY <2>2, <3>2, <3>3 DEF a, b
            <3>5. ASSUME NEW j \in 1..Len(q) - 1
                  PROVE  w[j] = IF j < i THEN q[j] ELSE q[j + 1]
                <4>1. w[j] = IF j <= i - 1 THEN a[j] ELSE b[j - (i - 1)]
                    BY <2>2, <3>1, <3>2, <3>3 DEF a, b
                <4>2. CASE j < i
                    BY <1>0, <2>1, <2>3, <4>1, <4>2 DEF a
                <4>3. CASE ~(j < i)
                    <5>1. j - (i - 1) \in 1..Len(q) - i
                        BY <1>0, <2>1, <4>3
                    <5>2. b[j - (i - 1)] = q[(j - (i - 1)) + i]
                        BY <2>4, <5>1 DEF b
                    <5>3. (j - (i - 1)) + i = j + 1
                        BY <2>1
                    <5>4. QED
                        BY <2>1, <4>1, <4>3, <5>2, <5>3
                <4>4. QED
                    BY <4>2, <4>3
            <3>6. QED
                BY <3>4, <3>5
        <2>6. ASSUME Orderly(q)
              PROVE  /\ Orderly(w)
                     /\ \A x : (\E j \in DOMAIN w : w[j] = x)
                                 <=> x # r /\ \E j \in DOMAIN q : q[j] = x
            <3>1. \A j, k \in 1..Len(q) : q[j] = q[k] => j = k
                BY <1>0, <2>6 DEF Orderly
            <3>2. Orderly(w)
                <4> SUFFICES ASSUME NEW j \in 1..Len(q) - 1, NEW k \in 1..Len(q) - 1, w[j] = w[k]
                             PROVE  j = k
                    BY <2>5 DEF Orderly
                <4> DEFINE e(n) == IF n < i THEN n ELSE n + 1
                <4>1. e(j) \in 1..Len(q) /\ e(k) \in 1..Len(q)
                    BY <1>0, <2>1
                <4>2. w[j] = q[e(j)] /\ w[k] = q[e(k)]
                    BY <2>5
                <4>3. e(j) = e(k)
                    BY <3>1, <4>1, <4>2
                <4>4. QED
                    BY <2>1, <4>3
            <3>3. ASSUME NEW j \in 1..Len(q) - 1
                  PROVE  w[j] # r /\ \E k \in 1..Len(q) : q[k] = w[j]
                BY <1>0, <2>1, <2>5, <3>1
            <3>4. ASSUME NEW k \in 1..Len(q), q[k] # r
                  PROVE  \E j \in 1..Len(q) - 1 : w[j] = q[k]
                <4>1. CASE k < i
                    <5>1. k \in 1..Len(q) - 1 /\ w[k] = q[k]
                        BY <1>0, <2>1, <2>5, <4>1
                    <5>2. QED
                        BY <5>1
                <4>2. CASE ~(k < i)
                    <5>1. k # i
                        BY <2>1, <3>4
                    <5>2. k - 1 \in 1..Len(q) - 1 /\ ~(k - 1 < i) /\ (k - 1) + 1 = k
                        BY <1>0, <2>1, <4>2, <5>1
                    <5>3. w[k - 1] = q[k]
                        BY <2>5, <5>2
                    <5>4. QED
                        BY <5>2, <5>3
                <4>3. QED
                    BY <4>1, <4>2
            <3>5. QED
                BY <1>0, <2>5, <3>2, <3>3, <3>4
        <2>7. ASSUME Orderly(q) PROVE Range(w) = Range(q) \ {r}
            <3>1. \A x : x \in Range(w) <=> x \in Range(q) \ {r}
                BY <2>6, <2>7 DEF Range
            <3>2. QED
                BY <3>1
        <2>8. QED
            BY <2>5, <2>6, <2>7 DEF w
    <1>2. CASE ~\E i \in DOMAIN q : q[i] = r
        BY <1>2 DEF Without, Range
    <1>3. QED
        BY <1>1, <1>2

\* Those waiting for a global slot stand in its queue once each, and nobody else
\* stands in it.
QueueInv ==
    /\ queue \in [Semaphores -> Seq(Requests)]
    /\ Orderly(queue[Global])
    /\ Range(queue[Global]) = {r \in Requests : pc[r] = "waitGlobal"}

LEMMA JoiningAQueue ==
    ASSUME NEW S, NEW q \in Seq(S), NEW r \in S, Orderly(q), r \notin Range(q)
    PROVE  /\ Append(q, r) \in Seq(S)
           /\ Orderly(Append(q, r))
           /\ Range(Append(q, r)) = Range(q) \cup {r}
    <1> DEFINE a == Append(q, r)
    <1>1. /\ a \in Seq(S) /\ Len(q) \in Nat /\ DOMAIN q = 1..Len(q)
          /\ DOMAIN a = 1..Len(q) + 1 /\ a[Len(q) + 1] = r
          /\ \A j \in 1..Len(q) : a[j] = q[j]
        OBVIOUS
    <1> HIDE DEF a
    <1>2. Orderly(a)
        BY <1>1 DEF Orderly, Range
    <1>3. \A x : (\E j \in DOMAIN a : a[j] = x) <=> x = r \/ \E j \in DOMAIN q : q[j] = x
        <2> TAKE x
        <2>1. ASSUME NEW j \in DOMAIN q PROVE j \in DOMAIN a /\ a[j] = q[j]
            BY <1>1
        <2>2. ASSUME NEW j \in DOMAIN a PROVE a[j] = r \/ (j \in DOMAIN q /\ a[j] = q[j])
            <3>1. j \in 1..Len(q) \/ j = Len(q) + 1
                BY <1>1
            <3>2. CASE j \in 1..Len(q)
                BY <1>1, <3>2
            <3>3. CASE j = Len(q) + 1
                BY <1>1, <3>3
            <3>4. QED
                BY <3>1, <3>2, <3>3
        <2>3. Len(q) + 1 \in DOMAIN a
            BY <1>1
        <2>4. QED
            BY <1>1, <2>1, <2>2, <2>3
    <1>4. Range(a) = Range(q) \cup {r}
        <2>1. \A x : x \in Range(a) <=> x \in Range(q) \cup {r}
            BY <1>3 DEF Range
        <2>2. QED
            BY <2>1
    <1>5. QED
        BY <1>1, <1>2, <1>4 DEF a

LEMMA QueueStep == SelectorInv /\ QueueInv /\ [Next]_vars => QueueInv'
    <1> SUFFICES ASSUME SelectorInv, QueueInv, [Next]_vars PROVE QueueInv'
        OBVIOUS
    <1> DEFINE line == queue[Global]
    <1>0. /\ pc \in [Requests -> {"idle", "over"} \cup Active \cup Outcomes]
          /\ Global \in Semaphores /\ queue \in [Semaphores -> Seq(Requests)]
          /\ line \in Seq(Requests) /\ Orderly(line)
          /\ Range(line) = {r \in Requests : pc[r] = "waitGlobal"}
        BY DEF SelectorInv, SlotTypes, QueueInv, Semaphores
    <1> HIDE DEF line
    <1>a. line \in Seq(Requests) /\ Orderly(line)
        BY <1>0
    <1>1. ASSUME NEW r \in Requests, Slot(r) PROVE QueueInv'
        <2>1. queue' = queue /\ pc[r] = "idle" /\ pc' = [pc EXCEPT ![r] = "cloned"]
            BY <1>1 DEF Slot
        <2>2. \A x \in Requests : pc'[x] = "waitGlobal" <=> pc[x] = "waitGlobal"
            BY <1>0, <2>1
        <2>3. QED
            BY <2>1, <2>2 DEF QueueInv
    <1>2. ASSUME NEW r \in Requests, AskOrg(r) PROVE QueueInv'
        <2>1. /\ pc[r] = "cloned" /\ pc' = [pc EXCEPT ![r] = "waitOrg"]
              /\ queue' = [queue EXCEPT ![arc[r]] = Append(@, r)]
            BY <1>2 DEF AskOrg
        <2>2. arc[r] \in Semaphores /\ arc[r] # Global
            BY <2>1, ConstantFacts
               DEF SelectorInv, SlotTypes, PermitInv, Active, Waiting, Semaphores
        <2>3. Append(queue[arc[r]], r) \in Seq(Requests)
            BY <1>0, <2>2
        <2>4. queue' \in [Semaphores -> Seq(Requests)] /\ queue'[Global] = queue[Global]
            BY <1>0, <2>1, <2>2, <2>3
        <2>5. \A x \in Requests : pc'[x] = "waitGlobal" <=> pc[x] = "waitGlobal"
            BY <1>0, <2>1
        <2>6. QED
            BY <2>4, <2>5 DEF QueueInv
    <1>3. ASSUME NEW r \in Requests, AcquireOrg(r) PROVE QueueInv'
        <2>1. /\ pc[r] = "waitOrg" /\ pc' = [pc EXCEPT ![r] = "waitGlobal"]
              /\ queue' = [queue EXCEPT ![arc[r]] = Without(@, r), ![Global] = Append(@, r)]
            BY <1>3 DEF AcquireOrg
        <2>2. arc[r] \in Semaphores /\ arc[r] # Global
            BY <2>1, ConstantFacts
               DEF SelectorInv, SlotTypes, PermitInv, Active, Waiting, Semaphores
        <2>3. Without(queue[arc[r]], r) \in Seq(Requests)
            BY <1>0, <2>2, LeavingAQueue
        <2>4. /\ Append(line, r) \in Seq(Requests) /\ Orderly(Append(line, r))
              /\ Range(Append(line, r)) = Range(line) \cup {r}
            <3>1. r \notin Range(line)
                BY <1>0, <2>1
            <3>2. QED
                BY <1>a, <3>1, JoiningAQueue
        <2>5. queue'[Global] = Append(line, r)
            BY <1>0, <2>1, <2>2 DEF line
        <2>6. queue' \in [Semaphores -> Seq(Requests)]
            BY <1>0, <2>1, <2>2, <2>3, <2>4 DEF line
        <2>7. \A x \in Requests : pc'[x] = "waitGlobal" <=> x = r \/ pc[x] = "waitGlobal"
            BY <1>0, <2>1
        <2>8. QED
            BY <1>0, <2>4, <2>5, <2>6, <2>7 DEF QueueInv
    <1>4. ASSUME NEW r \in Requests, AcquireGlobal(r) PROVE QueueInv'
        <2>1. /\ pc[r] = "waitGlobal" /\ pc' = [pc EXCEPT ![r] = "reading"]
              /\ queue' = [queue EXCEPT ![Global] = Without(@, r)]
            BY <1>4 DEF AcquireGlobal
        <2>2. /\ Without(line, r) \in Seq(Requests) /\ Orderly(Without(line, r))
              /\ Range(Without(line, r)) = Range(line) \ {r}
            BY <1>a, LeavingAQueue
        <2>3. queue' \in [Semaphores -> Seq(Requests)] /\ queue'[Global] = Without(line, r)
            BY <1>0, <2>1, <2>2 DEF line
        <2>4. \A x \in Requests : pc'[x] = "waitGlobal" <=> x # r /\ pc[x] = "waitGlobal"
            BY <1>0, <2>1
        <2>5. QED
            BY <1>0, <2>2, <2>3, <2>4 DEF QueueInv
    <1>5. ASSUME NEW r \in Requests, NEW outcome \in Outcomes, Finish(r, outcome),
                 pc[r] = "waitOrg", LeaveQueue(arc[r], r)
          PROVE  QueueInv'
        <2>1. /\ pc' = [pc EXCEPT ![r] = outcome]
              /\ queue' = [queue EXCEPT ![arc[r]] = Without(@, r)]
            BY <1>5 DEF Finish, LeaveQueue
        <2>2. arc[r] \in Semaphores /\ arc[r] # Global
            BY <1>5, ConstantFacts
               DEF SelectorInv, SlotTypes, PermitInv, Active, Waiting, Semaphores
        <2>3. Without(queue[arc[r]], r) \in Seq(Requests)
            BY <1>0, <2>2, LeavingAQueue
        <2>4. queue' \in [Semaphores -> Seq(Requests)] /\ queue'[Global] = queue[Global]
            BY <1>0, <2>1, <2>2, <2>3
        <2>5. \A x \in Requests : pc'[x] = "waitGlobal" <=> pc[x] = "waitGlobal"
            BY <1>0, <1>5, <2>1, OutcomesAreOthers DEF Active, Waiting
        <2>6. QED
            BY <2>4, <2>5 DEF QueueInv
    <1>6. ASSUME NEW r \in Requests, NEW outcome \in Outcomes, Finish(r, outcome),
                 pc[r] = "waitGlobal", LeaveQueue(Global, r)
          PROVE  QueueInv'
        <2>1. /\ pc' = [pc EXCEPT ![r] = outcome]
              /\ queue' = [queue EXCEPT ![Global] = Without(@, r)]
            BY <1>6 DEF Finish, LeaveQueue
        <2>2. /\ Without(line, r) \in Seq(Requests) /\ Orderly(Without(line, r))
              /\ Range(Without(line, r)) = Range(line) \ {r}
            BY <1>a, LeavingAQueue
        <2>3. queue' \in [Semaphores -> Seq(Requests)] /\ queue'[Global] = Without(line, r)
            BY <1>0, <2>1, <2>2 DEF line
        <2>4. \A x \in Requests : pc'[x] = "waitGlobal" <=> x # r /\ pc[x] = "waitGlobal"
            BY <1>0, <2>1, OutcomesAreOthers DEF Active, Waiting
        <2>5. QED
            BY <1>0, <2>2, <2>3, <2>4 DEF QueueInv
    <1>7. ASSUME NEW r \in Requests, NEW outcome \in Outcomes, Finish(r, outcome),
                 pc[r] = "reading", ReleaseOrg(r)
          PROVE  QueueInv'
        <2>1. pc' = [pc EXCEPT ![r] = outcome] /\ queue' = queue
            BY <1>7 DEF Finish, ReleaseOrg
        <2>2. \A x \in Requests : pc'[x] = "waitGlobal" <=> pc[x] = "waitGlobal"
            BY <1>0, <1>7, <2>1, OutcomesAreOthers DEF Active, Waiting
        <2>3. QED
            BY <2>1, <2>2 DEF QueueInv
    <1>8. ASSUME NEW r \in Requests, Release(r) PROVE QueueInv'
        <2>1. pc[r] \in Outcomes /\ pc' = [pc EXCEPT ![r] = "over"] /\ queue' = queue
            BY <1>8 DEF Release
        <2>2. \A x \in Requests : pc'[x] = "waitGlobal" <=> pc[x] = "waitGlobal"
            BY <1>0, <2>1, OutcomesAreOthers DEF Active, Waiting
        <2>3. QED
            BY <2>1, <2>2 DEF QueueInv
    <1>9. CASE UNCHANGED <<pc, queue>>
        BY <1>9 DEF QueueInv
    <1>10. QED
        <2>1. ASSUME NEW r \in Requests,
                     OrgTimesOut(r) \/ GlobalTimesOut(r) \/ BodyTimesOut(r)
                         \/ BodyResolves(r) \/ Cancel(r)
              PROVE  QueueInv'
            BY <1>5, <1>6, <1>7, <2>1, Endings
        <2>2. QED
            BY <1>1, <1>2, <1>3, <1>4, <1>8, <1>9, <2>1 DEF Next, Poll, Tick, vars

LEMMA QueueInit == Init => QueueInv
    <1> SUFFICES ASSUME Init PROVE QueueInv
        OBVIOUS
    <1>1. queue = [s \in Semaphores |-> <<>>] /\ queue[Global] = <<>>
        BY DEF Init, Semaphores
    <1>2. <<>> \in Seq(Requests) /\ DOMAIN <<>> = {}
        OBVIOUS
    <1>3. \A r \in Requests : pc[r] # "waitGlobal"
        BY DEF Init
    <1>4. QED
        BY <1>1, <1>2, <1>3 DEF QueueInv, Orderly, Range

\* Every variable keeps its type; a request owns its organization's semaphore all the
\* while it waits for capacity or reads under it, and none before or when it is over.
THEOREM TypeCorrect == Spec => []TypeOK
    <1>1. Init => WaitInv
        BY SelectorAssumption DEF Init, WaitInv, SelectorAssumption, Active, Waiting
    <1>2. SelectorInv /\ QueueInv /\ WaitInv => TypeOK
        <2> SUFFICES ASSUME SelectorInv, QueueInv, WaitInv PROVE TypeOK
            OBVIOUS
        <2>1. pc \in [Requests -> {"idle", "reading", "over"} \cup Waiting \cup Outcomes]
            BY DEF SelectorInv, SlotTypes, Active
        <2>2. \A r \in Requests :
                  /\ pc[r] \in {"idle", "over"} => arc[r] = NoSlot
                  /\ pc[r] \in Waiting \cup {"reading"} => arc[r] # NoSlot
            BY DEF SelectorInv, PermitInv, Active
        <2>3. QED
            BY <2>1, <2>2 DEF TypeOK, SelectorInv, SlotTypes, QueueInv, WaitInv
    <1>3. QED
        BY <1>1, <1>2, SelectorInit, SelectorStep, QueueInit, QueueStep, WaitStep, PTL DEF Spec

LEMMA CapacityInvariant == Spec => [](SelectorInv /\ QueueInv)
    BY SelectorInit, SelectorStep, QueueInit, QueueStep, PTL DEF Spec
-----------------------------------------------------------------------------
(* Nobody is shed for another tenant *)

\* The organizations that claim a slot of the process.
ClaimingOrgs == {OrgOf[q] : q \in Claimants}

\* No tenant claims more slots of the process than its share: whoever claims one
\* holds a permit of its tenant's semaphore.
LEMMA ClaimsAreWithinShares ==
    ASSUME SelectorInv
    PROVE  /\ IsFiniteSet(Claimants) /\ Cardinality(Claimants) \in Nat
           /\ Cardinality(ClaimingOrgs) \in Nat
           /\ Cardinality(Claimants) <= OrgLimit * Cardinality(ClaimingOrgs)
    <1>1. IsFiniteSet(Claimants) /\ Cardinality(Claimants) \in Nat
        BY ConstantFacts, FS_Subset, FS_CardinalityType DEF Claimants
    <1>2. IsFiniteSet(ClaimingOrgs) /\ Cardinality(ClaimingOrgs) \in Nat
        <2> DEFINE org == [c \in Claimants |-> OrgOf[c]]
        <2>1. org \in Surjection(Claimants, ClaimingOrgs)
            BY Fun_IsSurj DEF ClaimingOrgs
        <2>2. QED
            BY <1>1, <2>1, FS_Surjection, FS_CardinalityType
    <1>3. \A c \in Claimants : c \in holders[slots[OrgOf[c]]] /\ slots[OrgOf[c]] \in Requests
        BY DEF Claimants, SelectorInv, SlotTypes, PermitInv, LiveSemaphoreIsMapped, Active, Waiting
    <1>4. \A o \in ClaimingOrgs : Injection(holders[slots[o]], 1..OrgLimit) # {}
        <2> SUFFICES ASSUME NEW o \in ClaimingOrgs
                     PROVE  ExistsInjection(holders[slots[o]], 1..OrgLimit)
            BY Fun_ExistsInj
        <2> DEFINE held == holders[slots[o]]
                   n == Cardinality(held)
        <2>1. slots[o] \in Semaphores /\ slots[o] # Global
            BY <1>3, ConstantFacts DEF ClaimingOrgs, Semaphores
        <2>2. IsFiniteSet(held) /\ n \in Nat /\ n <= OrgLimit
            BY <2>1, HoldersAreFinite DEF SelectorInv, BoundInv, Limit
        <2> HIDE DEF held
        <2>3. ExistsBijection(held, 1..n)
            BY <2>2, FS_CardinalityType, Fun_ExistsBijSymmetric
        <2>4. ExistsInjection(held, 1..n)
            BY <2>3, Fun_ExistsBijEquiv DEF held
        <2> HIDE DEF n
        <2>5. ExistsInjection(1..n, 1..OrgLimit)
            <3>1. [k \in 1..n |-> k] \in Injection(1..n, 1..OrgLimit)
                BY <2>2, ConstantFacts, Fun_IsInj
            <3>2. QED
                BY <3>1, Fun_ExistsInj
        <2>6. QED
            BY <2>4, <2>5, Fun_ExistsInjTransitive DEF held
    <1> DEFINE number == [o \in ClaimingOrgs |->
                              CHOOSE f \in Injection(holders[slots[o]], 1..OrgLimit) : TRUE]
               claim == [c \in Claimants |-> <<OrgOf[c], number[OrgOf[c]][c]>>]
    <1>5. \A o \in ClaimingOrgs : number[o] \in Injection(holders[slots[o]], 1..OrgLimit)
        BY <1>4
    <1> HIDE DEF number
    <1>6. claim \in Injection(Claimants, ClaimingOrgs \X (1..OrgLimit))
        <2>1. ASSUME NEW c \in Claimants
              PROVE  OrgOf[c] \in ClaimingOrgs /\ number[OrgOf[c]][c] \in 1..OrgLimit
            BY <1>3, <1>5 DEF Injection, ClaimingOrgs
        <2>2. ASSUME NEW c \in Claimants, NEW d \in Claimants, claim[c] = claim[d]
              PROVE  c = d
            <3>1. OrgOf[c] = OrgOf[d] /\ number[OrgOf[c]][c] = number[OrgOf[c]][d]
                BY <2>2
            <3>2. c \in holders[slots[OrgOf[c]]] /\ d \in holders[slots[OrgOf[c]]]
                BY <1>3, <3>1
            <3>3. number[OrgOf[c]] \in Injection(holders[slots[OrgOf[c]]], 1..OrgLimit)
                BY <1>5 DEF ClaimingOrgs
            <3>4. QED
                BY <3>1, <3>2, <3>3 DEF Injection, IsInjective
        <2>3. claim \in [Claimants -> ClaimingOrgs \X (1..OrgLimit)]
            BY <2>1
        <2>4. QED
            BY <2>2, <2>3, Fun_IsInj
    <1> HIDE DEF claim
    <1>7. /\ IsFiniteSet(1..OrgLimit) /\ Cardinality(1..OrgLimit) = OrgLimit
        BY ConstantFacts, SelectorAssumption, FS_Interval DEF SelectorAssumption
    <1>8. /\ IsFiniteSet(ClaimingOrgs \X (1..OrgLimit))
          /\ Cardinality(ClaimingOrgs \X (1..OrgLimit)) = Cardinality(ClaimingOrgs) * OrgLimit
        BY <1>2, <1>7, FS_Product
    <1>9. Cardinality(Claimants) <= Cardinality(ClaimingOrgs) * OrgLimit
        BY <1>6, <1>8, FS_Injection
    <1>10. Cardinality(ClaimingOrgs) * OrgLimit = OrgLimit * Cardinality(ClaimingOrgs)
        BY <1>2, ConstantFacts
    <1>11. QED
        BY <1>1, <1>2, <1>9, <1>10

\* Every permit of the process's semaphore belongs to another claimant or to a request
\* that is giving it back, and every place in its queue to another claimant.
LEMMA HoldersAndWaitersClaim ==
    ASSUME SelectorInv, QueueInv
    PROVE  /\ Cardinality(holders[Global]) \in Nat /\ Len(queue[Global]) \in Nat
           /\ Cardinality(Returning) \in Nat
           /\ Cardinality(holders[Global]) + Len(queue[Global])
                  <= Cardinality(Claimants) + Cardinality(Returning)
    <1> DEFINE held == holders[Global]
               line == queue[Global]
               waiting == Range(line)
    <1>1. /\ IsFiniteSet(held) /\ Cardinality(held) \in Nat
          /\ held \subseteq {c \in Requests : pc[c] \in {"reading"} \cup Outcomes}
          /\ Returning = held \ Claimants
        <2>1. Global \in Semaphores
            BY DEF Semaphores
        <2>2. QED
            BY <2>1, HoldersAreFinite DEF SelectorInv, SlotTypes, PermitInv, Returning
    <1>2. /\ line \in Seq(Requests) /\ Orderly(line)
          /\ waiting = {c \in Requests : pc[c] = "waitGlobal"}
        BY DEF QueueInv, Semaphores
    <1> HIDE DEF line
    <1>3. Len(line) \in Nat /\ DOMAIN line = 1..Len(line)
        BY <1>2
    <1>4. line \in Bijection(1..Len(line), waiting)
        <2>1. line \in [1..Len(line) -> waiting]
            BY <1>2, <1>3 DEF Range
        <2>2. line \in Injection(1..Len(line), waiting)
            BY <1>2, <1>3, <2>1, Fun_IsInj DEF Orderly
        <2>3. line \in Surjection(1..Len(line), waiting)
            BY <1>3, <2>1, Fun_IsSurj DEF Range
        <2>4. QED
            BY <2>2, <2>3 DEF Bijection
    <1> HIDE DEF waiting, held
    <1>5. IsFiniteSet(waiting) /\ Cardinality(waiting) = Len(line)
        <2>1. ExistsBijection(1..Len(line), waiting)
            BY <1>4, Fun_ExistsBij
        <2>2. IsFiniteSet(1..Len(line)) /\ Cardinality(waiting) = Len(line)
            BY <1>3, <2>1, FS_Interval, FS_CountingElements
        <2>3. QED
            BY <2>1, <2>2, FS_Bijection
    <1>6. held \cap waiting = {} /\ held \cup waiting \subseteq Claimants \cup Returning
        BY <1>1, <1>2, OutcomesAreOthers DEF Claimants, Active, Waiting
    <1>7. Cardinality(held \cup waiting) = Cardinality(held) + Len(line)
        <2>1. Cardinality(held \cap waiting) = 0
            BY <1>6, FS_EmptySet
        <2>2. Cardinality(held \cup waiting) = Cardinality(held) + Cardinality(waiting) - 0
            BY <1>1, <1>5, <2>1, FS_Union
        <2>3. QED
            BY <1>1, <1>3, <1>5, <2>2
    <1>8. IsFiniteSet(Returning) /\ Cardinality(Returning) \in Nat
        BY <1>1, FS_Subset, FS_CardinalityType
    <1>9. /\ IsFiniteSet(Claimants \cup Returning)
          /\ Cardinality(Claimants \cup Returning)
                 = Cardinality(Claimants) + Cardinality(Returning)
        <2>1. Cardinality(Claimants \cap Returning) = 0
            BY <1>1, FS_EmptySet
        <2>2. /\ IsFiniteSet(Claimants \cup Returning)
              /\ Cardinality(Claimants \cup Returning)
                     = Cardinality(Claimants) + Cardinality(Returning) - 0
            BY <1>8, <2>1, ClaimsAreWithinShares, FS_Union
        <2>3. QED
            BY <1>8, <2>2, ClaimsAreWithinShares
    <1>10. Cardinality(held \cup waiting) <= Cardinality(Claimants \cup Returning)
        BY <1>6, <1>9, FS_Subset
    <1>11. QED
        BY <1>1, <1>3, <1>7, <1>8, <1>9, <1>10 DEF held, line

\* A request that is refused the process's capacity is refused because the shares of the
\* tenants that claim it do not fit beside the permits that are on their way back.
LEMMA RefusalIsEarnedByMany ==
    ASSUME SelectorInv, QueueInv, NEW r \in Requests, GlobalTimesOut(r)
    PROVE  OrgLimit * Cardinality(ClaimingOrgs) + Cardinality(Returning) > MaxConcurrent
    <1>1. r \in Range(queue[Global]) /\ ~Granted(Global, r)
        BY DEF GlobalTimesOut, QueueInv
    <1>2. PICK i \in DOMAIN queue[Global] : queue[Global][i] = r
        BY <1>1 DEF Range
    <1>3. /\ Len(queue[Global]) \in Nat /\ i \in 1..Len(queue[Global])
          /\ Cardinality(holders[Global]) \in Nat /\ MaxConcurrent \in Nat
        BY <1>2, HoldersAndWaitersClaim, ConstantFacts DEF QueueInv, Semaphores
    <1>4. ~(i <= MaxConcurrent - Cardinality(holders[Global]))
        BY <1>1, <1>2, <1>3 DEF Granted, Free, Limit
    <1>5. MaxConcurrent < Cardinality(holders[Global]) + Len(queue[Global])
        BY <1>3, <1>4
    <1>6. /\ MaxConcurrent < Cardinality(Claimants) + Cardinality(Returning)
          /\ Cardinality(Claimants) \in Nat /\ Cardinality(Returning) \in Nat
        BY <1>3, <1>5, HoldersAndWaitersClaim, ClaimsAreWithinShares
    <1>7. OrgLimit * Cardinality(ClaimingOrgs) \in Int
        BY ConstantFacts, ClaimsAreWithinShares
    <1>8. QED
        BY <1>3, <1>6, <1>7, ClaimsAreWithinShares

\* No tenant's stalled bodies cost another its request: a slot of the process is refused
\* only when the claiming tenants' shares, with the permits that are being given back at
\* that moment, exceed the budget.
THEOREM NobodyShedForAnother == Spec => NobodyIsShedForAnother
    <1> DEFINE Shed ==
          \A r \in Requests :
              pc[r] = "waitGlobal" /\ pc'[r] = "gateway_model_selection_overloaded" =>
                  OrgLimit * Cardinality({OrgOf[q] : q \in Claimants}) + Cardinality(Returning)
                      > MaxConcurrent
    <1>1. SelectorInv /\ QueueInv /\ [Next]_vars => Shed
        <2> SUFFICES ASSUME SelectorInv, QueueInv, [Next]_vars, NEW r \in Requests,
                            pc[r] = "waitGlobal",
                            pc'[r] = "gateway_model_selection_overloaded"
                     PROVE  OrgLimit * Cardinality(ClaimingOrgs) + Cardinality(Returning)
                                > MaxConcurrent
            BY DEF ClaimingOrgs
        <2>1. pc \in [Requests -> {"idle", "over"} \cup Active \cup Outcomes]
            BY DEF SelectorInv, SlotTypes
        <2>2. GlobalTimesOut(r)
            <3>1. ASSUME NEW x \in Requests, NEW v, pc' = [pc EXCEPT ![x] = v]
                  PROVE  x = r /\ v = "gateway_model_selection_overloaded"
                BY <2>1, <3>1
            <3>2. ASSUME NEW x \in Requests,
                         Slot(x) \/ AskOrg(x) \/ AcquireOrg(x) \/ AcquireGlobal(x) \/ Release(x)
                  PROVE  FALSE
                BY <3>1, <3>2 DEF Slot, AskOrg, AcquireOrg, AcquireGlobal, Release
            <3>3. ASSUME NEW x \in Requests,
                         OrgTimesOut(x) \/ BodyTimesOut(x) \/ BodyResolves(x) \/ Cancel(x)
                  PROVE  FALSE
                BY <3>1, <3>3 DEF OrgTimesOut, BodyTimesOut, BodyResolves, Cancel, Finish
            <3>4. ASSUME NEW x \in Requests, GlobalTimesOut(x) PROVE x = r
                BY <3>1, <3>4 DEF GlobalTimesOut, Finish
            <3>5. pc' # pc
                OBVIOUS
            <3>6. QED
                BY <3>2, <3>3, <3>4, <3>5 DEF Next, Poll, Tick, vars
        <2>3. QED
            BY <2>2, RefusalIsEarnedByMany
    <1>2. QED
        BY <1>1, CapacityInvariant, PTL DEF Spec, NobodyIsShedForAnother
=============================================================================
