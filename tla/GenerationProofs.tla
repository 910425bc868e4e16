-------------------------- MODULE GenerationProofs --------------------------
(***************************************************************************)
(* What generation guarantees: the pool, for any number of slots, handles  *)
(* and jobs and any queue depth, and the engine its slots run, for any     *)
(* files, texts, budgets and samples: that a model the loader accepts      *)
(* runs, and that attention reads its own past.                            *)
(***************************************************************************)
EXTENDS GenerationPool, Engine, FiniteSetTheorems, SequenceTheorems, WellFoundedInduction,
        TLAPS

(* Counting: how a thread that changes state moves the sets the invariants  *)
(* count.                                                                   *)

\* One element enters, or leaves, a finite set.
LEMMA CountAdd ==
    ASSUME NEW S, NEW T, IsFiniteSet(S), NEW x, x \notin S, T = S \cup {x}
    PROVE  /\ Cardinality(S) \in Nat /\ Cardinality(T) \in Nat
           /\ Cardinality(T) = Cardinality(S) + 1
    BY FS_AddElement, FS_CardinalityType

LEMMA CountRemove ==
    ASSUME NEW S, NEW T, IsFiniteSet(S), NEW x \in S, T = S \ {x}
    PROVE  /\ Cardinality(S) \in Nat /\ Cardinality(T) \in Nat
           /\ Cardinality(T) = Cardinality(S) - 1
    BY FS_RemoveElement, FS_CardinalityType

\* The sets the invariants count are finite, so their sizes are numbers.
LEMMA CountedSetsAreFinite ==
    /\ IsFiniteSet(Busy) /\ Cardinality(Busy) \in Nat
    /\ Cardinality(Busy) <= Cardinality(Slots) /\ Cardinality(Slots) \in Nat
    /\ IsFiniteSet(Ready) /\ Cardinality(Ready) \in Nat
    /\ IsFiniteSet(Notifying) /\ Cardinality(Notifying) \in Nat
    /\ IsFiniteSet(Counted) /\ Cardinality(Counted) \in Nat
    <1>1. Busy \subseteq Slots /\ Ready \subseteq Slots
        BY DEF Busy, Ready
    <1>2. Notifying \subseteq Handles /\ Counted \subseteq Handles
        BY DEF Notifying, Counted
    <1>3. QED
        BY <1>1, <1>2, FS_Subset, FS_CardinalityType, PoolAssumption
-----------------------------------------------------------------------------
(* The count of accepted jobs *)

\* TypeOK is not inductive: that `depth` stays a natural number when a slot
\* decrements it rests on DepthCountsAcceptedJobs.
CountInv == TypeOK /\ DepthCountsAcceptedJobs /\ Len(queue) <= QueueDepth

LEMMA CountInit == Init => CountInv
    <1> SUFFICES ASSUME Init PROVE CountInv
        OBVIOUS
    <1>1. TypeOK
        BY DEF Init, TypeOK, SlotPcs, HandlePcs, JobStates, Outcomes
    <1>2. Busy = {}
        BY DEF Init, Busy
    <1>3. DepthCountsAcceptedJobs /\ Len(queue) <= QueueDepth
        BY <1>2, FS_EmptySet, EmptySeq, PoolAssumption DEF Init, DepthCountsAcceptedJobs
    <1>4. QED
        BY <1>1, <1>3 DEF CountInv

\* A step preserves TypeOK. Only Release needs more than TypeOK.
LEMMA TypeStep == CountInv /\ [Next]_vars => TypeOK'
    <1> SUFFICES ASSUME CountInv, [Next]_vars PROVE TypeOK'
        OBVIOUS
    <1> USE DEF CountInv, TypeOK, SlotPcs, HandlePcs, JobStates, Outcomes, poolVars, callVars
    <1>1. ASSUME NEW t \in Slots, Take(t) PROVE TypeOK'
        <2>1. Head(queue) \in Jobs /\ Tail(queue) \in Seq(Jobs)
            BY <1>1, HeadTailProperties DEF Take
        <2>2. QED
            BY <1>1, <2>1 DEF Take
    <1>2. ASSUME NEW t \in Slots, Exit(t) \/ Wait(t) \/ SpuriousWake(t) PROVE TypeOK'
        BY <1>2 DEF Exit, Wait, SpuriousWake
    <1>3. ASSUME NEW t \in Slots, NEW result \in {"done", "panicked"}, Finish(t, result)
          PROVE TypeOK'
        BY <1>3 DEF Finish
    <1>4. ASSUME NEW t \in Slots, Release(t) PROVE TypeOK'
        <2>1. t \in Busy
            BY <1>4 DEF Release, Busy
        <2>2. Cardinality(Busy) # 0
            BY <2>1, FS_EmptySet, CountedSetsAreFinite
        <2>3. Len(queue) \in Nat /\ Cardinality(Busy) \in Nat
            BY CountedSetsAreFinite
        <2>4. depth - 1 \in Nat
            BY <2>2, <2>3 DEF DepthCountsAcceptedJobs
        <2>5. QED
            BY <1>4, <2>4 DEF Release
    <1>5. ASSUME NEW h \in Handles, NEW j \in Jobs, PostAccepted(h, j) PROVE TypeOK'
        BY <1>5 DEF PostAccepted, Enqueue
    <1>6. ASSUME NEW h \in Handles, NEW j \in Jobs, PostRefused(h, j) PROVE TypeOK'
        BY <1>6 DEF PostRefused
    <1>7. ASSUME NEW h \in Handles, NEW next \in {"await", "live"}, NotifyOne(h, next)
          PROVE TypeOK'
        BY <1>7 DEF NotifyOne, Waiting
    <1>8. ASSUME NEW h \in Handles, Answer(h) \/ Abandon(h) PROVE TypeOK'
        BY <1>8 DEF Answer, Abandon, Tell
    <1>9. ASSUME NEW h \in Handles,
                 Clone(h) \/ BeginDrop(h) \/ ReadCount(h) \/ Close(h) \/ ReleaseHandle(h)
          PROVE TypeOK'
        BY <1>9 DEF Clone, BeginDrop, ReadCount, Close, ReleaseHandle
    <1>10. ASSUME NEW h \in Handles, NotifyAll(h) PROVE TypeOK'
        BY <1>10 DEF NotifyAll, Waiting
    <1>11. CASE UNCHANGED vars
        BY <1>11 DEF vars
    <1>12. QED
        BY <1>1, <1>2, <1>3, <1>4, <1>5, <1>6, <1>7, <1>8, <1>9, <1>10, <1>11
           DEF Next, SlotStep, HolderStep

\* A step keeps `depth` equal to the jobs queued and being run: what it adds to
\* one side of DepthCountsAcceptedJobs it adds to the other.
LEMMA DepthStep ==
    CountInv /\ [Next]_vars => (DepthCountsAcceptedJobs /\ Len(queue) <= QueueDepth)'
    <1> SUFFICES ASSUME CountInv, [Next]_vars
                 PROVE  (DepthCountsAcceptedJobs /\ Len(queue) <= QueueDepth)'
        OBVIOUS
    <1> USE PoolAssumption DEF CountInv, TypeOK, DepthCountsAcceptedJobs, poolVars, callVars
    <1>a. /\ IsFiniteSet(Busy) /\ Cardinality(Busy) \in Nat /\ Len(queue) \in Nat
        BY CountedSetsAreFinite
    <1>1. ASSUME NEW t \in Slots, Take(t)
          PROVE  (DepthCountsAcceptedJobs /\ Len(queue) <= QueueDepth)'
        <2>1. Busy' = Busy \cup {t} /\ t \notin Busy
            BY <1>1 DEF Take, Busy
        <2>2. Cardinality(Busy') = Cardinality(Busy) + 1
            BY <1>a, <2>1, CountAdd
        <2>3. Len(Tail(queue)) = Len(queue) - 1
            BY <1>1, HeadTailProperties DEF Take
        <2>4. QED
            BY <1>1, <1>a, <2>2, <2>3 DEF Take
    <1>2. ASSUME NEW t \in Slots, Release(t)
          PROVE  (DepthCountsAcceptedJobs /\ Len(queue) <= QueueDepth)'
        <2>1. Busy' = Busy \ {t} /\ t \in Busy
            BY <1>2 DEF Release, Busy
        <2>2. Cardinality(Busy') = Cardinality(Busy) - 1
            BY <1>a, <2>1, CountRemove
        <2>3. QED
            BY <1>2, <1>a, <2>2 DEF Release
    <1>3. ASSUME NEW h \in Handles, NEW j \in Jobs, PostAccepted(h, j)
          PROVE  (DepthCountsAcceptedJobs /\ Len(queue) <= QueueDepth)'
        <2>1. Busy' = Busy
            BY <1>3 DEF PostAccepted, Enqueue, Busy
        <2>2. Cardinality(Busy') = Cardinality(Busy)
            BY <2>1
        <2>3. Len(queue') = Len(queue) + 1 /\ depth' = depth + 1 /\ Len(queue) < QueueDepth
            BY <1>3 DEF PostAccepted, Enqueue
        <2>4. (Len(queue) <= QueueDepth)'
            BY <1>a, <2>3
        <2>5. DepthCountsAcceptedJobs'
            <3>1. depth = Len(queue) + Cardinality(Busy)
                OBVIOUS
            <3>2. QED
                BY <1>a, <2>2, <2>3, <3>1
        <2>6. QED
            BY <2>4, <2>5
    <1>4. ASSUME Busy' = Busy, depth' = depth, queue' = queue
          PROVE  (DepthCountsAcceptedJobs /\ Len(queue) <= QueueDepth)'
        BY <1>4
    <1>5. ASSUME NEW t \in Slots,
                 \/ Exit(t) \/ Wait(t) \/ SpuriousWake(t)
                 \/ \E result \in {"done", "panicked"} : Finish(t, result)
          PROVE  Busy' = Busy /\ depth' = depth /\ queue' = queue
        BY <1>5 DEF Exit, Wait, SpuriousWake, Finish, Busy
    <1>6. ASSUME NEW h \in Handles,
                 \/ \E next \in {"await", "live"} : NotifyOne(h, next)
                 \/ NotifyAll(h)
          PROVE  Busy' = Busy /\ depth' = depth /\ queue' = queue
        BY <1>6 DEF NotifyOne, NotifyAll, Busy, Waiting
    <1>7. ASSUME NEW h \in Handles,
                 \/ Answer(h) \/ Abandon(h) \/ Clone(h) \/ BeginDrop(h)
                 \/ ReadCount(h) \/ Close(h) \/ ReleaseHandle(h)
                 \/ \E j \in Jobs : PostRefused(h, j)
          PROVE  Busy' = Busy /\ depth' = depth /\ queue' = queue
        BY <1>7 DEF Answer, Abandon, Tell, Clone, BeginDrop, ReadCount, Close,
                    ReleaseHandle, PostRefused, Busy
    <1>8. CASE UNCHANGED vars
        BY <1>4, <1>8 DEF vars, Busy
    <1>9. QED
        BY <1>1, <1>2, <1>3, <1>4, <1>5, <1>6, <1>7, <1>8 DEF Next, SlotStep, HolderStep

LEMMA CountInvariant == Spec => []CountInv
    <1>1. CountInv /\ [Next]_vars => CountInv'
        BY TypeStep, DepthStep DEF CountInv
    <1>2. QED
        BY CountInit, <1>1, PTL DEF Spec

\* Every variable keeps its type; `depth` in particular never underflows.
THEOREM TypeCorrect == Spec => []TypeOK
    BY CountInvariant, PTL DEF CountInv

\* `depth` is exactly the queued jobs plus the jobs on a slot.
THEOREM DepthIsExact == Spec => []DepthCountsAcceptedJobs
    BY CountInvariant, PTL DEF CountInv

\* The pool never holds more than its slots and its queue can.
THEOREM AdmissionBounded == Spec => []AdmissionIsBounded
    <1>1. CountInv => AdmissionIsBounded
        BY CountedSetsAreFinite, PoolAssumption
           DEF CountInv, TypeOK, DepthCountsAcceptedJobs, AdmissionIsBounded
    <1>2. QED
        BY CountInvariant, <1>1, PTL
-----------------------------------------------------------------------------
(* The last handle *)

\* ClosedMeansNoCaller is not inductive: Close clears `open` whatever the other
\* handles do. What makes it safe is that the holder that read a count of one
\* is alone from that read on: nobody is left whose handle could be cloned.
ClosingIsAlone ==
    \A h \in Handles : hPc[h] \in {"close", "notify_all"} =>
        \A g \in Handles \ {h} : hPc[g] = "none"

CloseInv == TypeOK /\ ClosingIsAlone /\ ClosedMeansNoCaller

\* A count of at most one, read by a holder, is its own handle's.
LEMMA CountOfOneIsAlone ==
    ASSUME NEW h \in Handles, hPc[h] # "none", ~(Cardinality(Counted) > 1)
    PROVE  \A g \in Handles \ {h} : hPc[g] = "none"
    <1>1. h \in Counted
        BY DEF Counted
    <1>2. Cardinality(Counted) = 1
        BY <1>1, CountedSetsAreFinite, FS_EmptySet
    <1>3. PICK x : Counted = {x}
        BY <1>2, CountedSetsAreFinite, FS_Singleton
    <1>4. QED
        BY <1>1, <1>3 DEF Counted

LEMMA CloseStep == CloseInv /\ [Next]_vars => (ClosingIsAlone /\ ClosedMeansNoCaller)'
    <1> SUFFICES ASSUME CloseInv, [Next]_vars
                 PROVE  (ClosingIsAlone /\ ClosedMeansNoCaller)'
        OBVIOUS
    <1> USE DEF CloseInv, TypeOK, HandlePcs, ClosingIsAlone, ClosedMeansNoCaller,
                poolVars, callVars
    <1>1. ASSUME NEW t \in Slots, SlotStep(t) \/ SpuriousWake(t)
          PROVE  (ClosingIsAlone /\ ClosedMeansNoCaller)'
        BY <1>1 DEF SlotStep, Take, Exit, Wait, Finish, Release, SpuriousWake
    <1>2. ASSUME NEW h \in Handles, NEW j \in Jobs,
                 PostAccepted(h, j) \/ PostRefused(h, j)
          PROVE  (ClosingIsAlone /\ ClosedMeansNoCaller)'
        BY <1>2 DEF PostAccepted, Enqueue, PostRefused
    <1>3. ASSUME NEW h \in Handles, NEW next \in {"await", "live"}, NotifyOne(h, next)
          PROVE  (ClosingIsAlone /\ ClosedMeansNoCaller)'
        BY <1>3 DEF NotifyOne
    <1>4. ASSUME NEW h \in Handles, Answer(h) \/ Abandon(h) \/ BeginDrop(h)
          PROVE  (ClosingIsAlone /\ ClosedMeansNoCaller)'
        BY <1>4 DEF Answer, Abandon, Tell, BeginDrop
    <1>5. ASSUME NEW h \in Handles, Clone(h)
          PROVE  (ClosingIsAlone /\ ClosedMeansNoCaller)'
        BY <1>5 DEF Clone
    <1>6. ASSUME NEW h \in Handles, ReadCount(h)
          PROVE  (ClosingIsAlone /\ ClosedMeansNoCaller)'
        <2>1. CASE Cardinality(Counted) > 1
            BY <1>6, <2>1 DEF ReadCount
        <2>2. CASE ~(Cardinality(Counted) > 1)
            <3>1. \A g \in Handles \ {h} : hPc[g] = "none"
                BY <1>6, <2>2, CountOfOneIsAlone DEF ReadCount
            <3>2. QED
                BY <1>6, <2>2, <3>1 DEF ReadCount
        <2>3. QED
            BY <2>1, <2>2
    <1>7. ASSUME NEW h \in Handles, Close(h) \/ NotifyAll(h) \/ ReleaseHandle(h)
          PROVE  (ClosingIsAlone /\ ClosedMeansNoCaller)'
        BY <1>7 DEF Close, NotifyAll, ReleaseHandle
    <1>8. CASE UNCHANGED vars
        BY <1>8 DEF vars
    <1>9. QED
        BY <1>1, <1>2, <1>3, <1>4, <1>5, <1>6, <1>7, <1>8 DEF Next, HolderStep

\* A closed queue has no caller left, so no live caller is ever told
\* Unavailable by `post` (worker.rs:132-134).
THEOREM ClosedHasNoCaller == Spec => []ClosedMeansNoCaller
    <1>1. Init => ClosingIsAlone /\ ClosedMeansNoCaller
        BY DEF Init, ClosingIsAlone, ClosedMeansNoCaller
    <1>2. QED
        BY <1>1, CloseStep, TypeCorrect, PTL DEF Spec, CloseInv
-----------------------------------------------------------------------------
(* The condition variable *)

\* A step that leaves the queue, the sleeping, the ready and the notifying
\* threads alone keeps NoLostWakeup.
LEMMA WakeStep == TypeOK /\ NoLostWakeup /\ [Next]_vars => NoLostWakeup'
    <1> SUFFICES ASSUME TypeOK, NoLostWakeup, [Next]_vars PROVE NoLostWakeup'
        OBVIOUS
    <1>a. /\ IsFiniteSet(Ready) /\ Cardinality(Ready) \in Nat
          /\ IsFiniteSet(Notifying) /\ Cardinality(Notifying) \in Nat
          /\ Len(queue) \in Nat
        BY CountedSetsAreFinite DEF TypeOK
    <1>b. Waiting # {} => Len(queue) <= Cardinality(Ready) + Cardinality(Notifying)
        BY DEF NoLostWakeup
    <1>1. ASSUME NEW t \in Slots, Take(t) PROVE NoLostWakeup'
        <2>1. /\ Ready' = Ready \ {t} /\ t \in Ready
              /\ Waiting' = Waiting /\ Notifying' = Notifying
            BY <1>1 DEF Take, TypeOK, Ready, Waiting, Notifying, callVars
        <2>2. Len(queue') = Len(queue) - 1
            BY <1>1, HeadTailProperties DEF Take, TypeOK
        <2>3. Cardinality(Ready') = Cardinality(Ready) - 1
            BY <1>a, <2>1, CountRemove
        <2>4. QED
            BY <1>a, <1>b, <2>1, <2>2, <2>3 DEF NoLostWakeup
    <1>2. ASSUME NEW t \in Slots, Exit(t) \/ Wait(t) PROVE NoLostWakeup'
        <2>1. Len(queue') = 0
            BY <1>2, EmptySeq DEF Exit, Wait
        <2>2. Cardinality(Ready') \in Nat /\ Cardinality(Notifying') \in Nat
            <3>1. Ready' \subseteq Slots /\ Notifying' \subseteq Handles
                BY DEF Ready, Notifying
            <3>2. QED
                BY <3>1, FS_Subset, FS_CardinalityType, PoolAssumption
        <2>3. QED
            BY <2>1, <2>2 DEF NoLostWakeup
    <1>3. ASSUME NEW t \in Slots, SpuriousWake(t) \/ Release(t) PROVE NoLostWakeup'
        <2>1. /\ Ready' = Ready \cup {t} /\ t \notin Ready
              /\ Waiting' \subseteq Waiting /\ Notifying' = Notifying /\ queue' = queue
            BY <1>3 DEF SpuriousWake, Release, TypeOK, Ready, Waiting, Notifying, callVars
        <2>2. Cardinality(Ready') = Cardinality(Ready) + 1
            BY <1>a, <2>1, CountAdd
        <2>3. QED
            BY <1>a, <1>b, <2>1, <2>2 DEF NoLostWakeup
    <1>4. ASSUME NEW h \in Handles, NEW j \in Jobs, PostAccepted(h, j) PROVE NoLostWakeup'
        <2>1. /\ Notifying' = Notifying \cup {h} /\ h \notin Notifying
              /\ Waiting' = Waiting /\ Ready' = Ready
            BY <1>4 DEF PostAccepted, Enqueue, TypeOK, Ready, Waiting, Notifying
        <2>2. Len(queue') = Len(queue) + 1
            BY <1>4 DEF PostAccepted, Enqueue, TypeOK
        <2>3. Cardinality(Notifying') = Cardinality(Notifying) + 1
            BY <1>a, <2>1, CountAdd
        <2>4. QED
            BY <1>a, <1>b, <2>1, <2>2, <2>3 DEF NoLostWakeup
    <1>5. ASSUME NEW h \in Handles, NEW next \in {"await", "live"}, NotifyOne(h, next)
          PROVE  NoLostWakeup'
        <2>1. CASE Waiting = {}
            <3>1. Waiting' = {}
                BY <1>5, <2>1 DEF NotifyOne, Waiting
            <3>2. QED
                BY <3>1 DEF NoLostWakeup
        <2>2. CASE Waiting # {}
            <3>1. PICK t \in Waiting : slotPc' = [slotPc EXCEPT ![t] = "ready"]
                BY <1>5, <2>2 DEF NotifyOne
            <3>2. Ready' = Ready \cup {t} /\ t \notin Ready
                BY <3>1 DEF TypeOK, Ready, Waiting
            <3>3. Notifying' = Notifying \ {h} /\ h \in Notifying /\ queue' = queue
                BY <1>5 DEF NotifyOne, TypeOK, Notifying
            <3>4. /\ Cardinality(Ready') = Cardinality(Ready) + 1
                  /\ Cardinality(Notifying') = Cardinality(Notifying) - 1
                BY <1>a, <3>2, <3>3, CountAdd, CountRemove
            <3>5. QED
                BY <1>a, <1>b, <2>2, <3>3, <3>4 DEF NoLostWakeup
        <2>3. QED
            BY <2>1, <2>2
    <1>6. ASSUME NEW h \in Handles, NotifyAll(h) PROVE NoLostWakeup'
        <2>1. Waiting' = {}
            BY <1>6 DEF NotifyAll, TypeOK, Waiting
        <2>2. QED
            BY <2>1 DEF NoLostWakeup
    <1>7. ASSUME Ready' = Ready, Waiting' = Waiting, Notifying' = Notifying, queue' = queue
          PROVE  NoLostWakeup'
        BY <1>b, <1>7 DEF NoLostWakeup
    <1>8. ASSUME NEW t \in Slots, NEW result \in {"done", "panicked"}, Finish(t, result)
          PROVE  /\ Ready' = Ready /\ Waiting' = Waiting
                 /\ Notifying' = Notifying /\ queue' = queue
        BY <1>8 DEF Finish, TypeOK, Ready, Waiting, Notifying, callVars
    <1>9. ASSUME NEW h \in Handles,
                 \/ Answer(h) \/ Abandon(h) \/ Clone(h) \/ BeginDrop(h)
                 \/ ReadCount(h) \/ Close(h) \/ ReleaseHandle(h)
                 \/ \E j \in Jobs : PostRefused(h, j)
          PROVE  /\ Ready' = Ready /\ Waiting' = Waiting
                 /\ Notifying' = Notifying /\ queue' = queue
        BY <1>9 DEF Answer, Abandon, Tell, Clone, BeginDrop, ReadCount, Close,
                    ReleaseHandle, PostRefused, TypeOK, Ready, Waiting, Notifying, poolVars
    <1>10. CASE UNCHANGED vars
        BY <1>7, <1>10 DEF vars, Ready, Waiting, Notifying
    <1>11. QED
        BY <1>1, <1>2, <1>3, <1>4, <1>5, <1>6, <1>7, <1>8, <1>9, <1>10
           DEF Next, SlotStep, HolderStep

\* No interleaving of the unlocked notify_one with the slots' waits, spurious
\* wake-ups and completions loses a wake-up.
THEOREM WakeupsAreNotLost == Spec => []NoLostWakeup
    <1>1. Init => NoLostWakeup
        <2>1. Init => Waiting = {}
            BY DEF Init, Waiting
        <2>2. QED
            BY <2>1 DEF NoLostWakeup
    <1>2. QED
        BY <1>1, WakeStep, TypeCorrect, PTL DEF Spec
-----------------------------------------------------------------------------
(* Where a job is, and what its caller is told *)

\* Each queued job is in the queue once, each running job on one slot, and
\* nothing else is in either place.
PlaceInv ==
    /\ \A i \in DOMAIN queue : job[queue[i]] = "queued"
    /\ \A i, k \in DOMAIN queue : queue[i] = queue[k] => i = k
    /\ \A j \in Jobs : job[j] = "queued" => \E i \in DOMAIN queue : queue[i] = j
    /\ \A t \in Slots : slotPc[t] = "running" =>
          slotJob[t] \in Jobs /\ job[slotJob[t]] = "running"
    /\ \A t, u \in Slots : slotPc[t] = "running" /\ slotPc[u] = "running"
                             /\ slotJob[t] = slotJob[u] => t = u
    /\ \A j \in Jobs : job[j] = "running" =>
          \E t \in Slots : slotPc[t] = "running" /\ slotJob[t] = j

LEMMA PlaceStep == TypeOK /\ PlaceInv /\ [Next]_vars => PlaceInv'
    <1> SUFFICES ASSUME TypeOK, PlaceInv, [Next]_vars PROVE PlaceInv'
        OBVIOUS
    <1> USE DEF TypeOK, PlaceInv
    <1>1. ASSUME NEW t \in Slots, Take(t) PROVE PlaceInv'
        <2> DEFINE j == Head(queue)
        <2>1. /\ j \in Jobs /\ Tail(queue) \in Seq(Jobs) /\ Len(queue) \in Nat \ {0}
              /\ Len(Tail(queue)) = Len(queue) - 1
              /\ \A i \in 1..Len(Tail(queue)) : Tail(queue)[i] = queue[i + 1]
              /\ j = queue[1]
            BY <1>1, HeadTailProperties, EmptySeq DEF Take
        <2>2. DOMAIN queue = 1..Len(queue) /\ DOMAIN Tail(queue) = 1..(Len(queue) - 1)
            BY <2>1, LenProperties
        <2>3. job[j] = "queued" /\ \A i \in DOMAIN Tail(queue) : Tail(queue)[i] # j
            BY <2>1, <2>2
        <2>4. /\ \A i \in DOMAIN queue' : job'[queue'[i]] = "queued"
              /\ \A i, k \in DOMAIN queue' : queue'[i] = queue'[k] => i = k
            BY <1>1, <2>1, <2>2, <2>3 DEF Take
        <2>5. ASSUME NEW k \in Jobs, job'[k] = "queued"
              PROVE  \E i \in DOMAIN queue' : queue'[i] = k
            <3>1. k # j /\ job[k] = "queued"
                BY <1>1, <2>1, <2>5 DEF Take
            <3>2. PICK i \in DOMAIN queue : queue[i] = k
                BY <3>1
            <3>3. i - 1 \in DOMAIN Tail(queue) /\ Tail(queue)[i - 1] = k
                BY <2>1, <2>2, <3>1, <3>2
            <3>4. QED
                BY <1>1, <3>3 DEF Take
        <2>6. /\ \A u \in Slots : slotPc'[u] = "running" =>
                    slotJob'[u] \in Jobs /\ job'[slotJob'[u]] = "running"
              /\ \A u, v \in Slots : slotPc'[u] = "running" /\ slotPc'[v] = "running"
                                       /\ slotJob'[u] = slotJob'[v] => u = v
            BY <1>1, <2>1, <2>3 DEF Take
        <2>7. ASSUME NEW k \in Jobs, job'[k] = "running"
              PROVE  \E u \in Slots : slotPc'[u] = "running" /\ slotJob'[u] = k
            BY <1>1, <2>1, <2>7 DEF Take
        <2>8. QED
            BY <2>4, <2>5, <2>6, <2>7
    <1>2. ASSUME NEW t \in Slots, Exit(t) \/ Wait(t) \/ SpuriousWake(t) PROVE PlaceInv'
        BY <1>2 DEF Exit, Wait, SpuriousWake
    <1>3. ASSUME NEW t \in Slots, NEW result \in {"done", "panicked"}, Finish(t, result)
          PROVE  PlaceInv'
        <2>1. /\ slotJob[t] \in Jobs /\ job[slotJob[t]] = "running"
              /\ job' = [job EXCEPT ![slotJob[t]] = result]
              /\ slotPc' = [slotPc EXCEPT ![t] = "returned"]
              /\ slotJob' = slotJob /\ queue' = queue
            BY <1>3 DEF Finish
        <2>2. /\ \A i \in DOMAIN queue' : job'[queue'[i]] = "queued"
              /\ \A i, k \in DOMAIN queue' : queue'[i] = queue'[k] => i = k
              /\ \A j \in Jobs : job'[j] = "queued" => \E i \in DOMAIN queue' : queue'[i] = j
            BY <2>1
        <2>3. /\ \A u \in Slots : slotPc'[u] = "running" =>
                    slotJob'[u] \in Jobs /\ job'[slotJob'[u]] = "running"
              /\ \A u, v \in Slots : slotPc'[u] = "running" /\ slotPc'[v] = "running"
                                       /\ slotJob'[u] = slotJob'[v] => u = v
            BY <1>3, <2>1 DEF Finish
        <2>4. \A j \in Jobs : job'[j] = "running" =>
                 \E u \in Slots : slotPc'[u] = "running" /\ slotJob'[u] = j
            BY <1>3, <2>1 DEF Finish
        <2>5. QED
            BY <2>2, <2>3, <2>4
    <1>4. ASSUME NEW t \in Slots, Release(t) PROVE PlaceInv'
        BY <1>4 DEF Release
    <1>5. ASSUME NEW h \in Handles, NEW j \in Jobs, PostAccepted(h, j) PROVE PlaceInv'
        <2>1. /\ queue' = Append(queue, j) /\ job[j] = "new"
              /\ job' = [job EXCEPT ![j] = "queued"]
              /\ slotPc' = slotPc /\ slotJob' = slotJob
            BY <1>5 DEF PostAccepted, Enqueue
        <2>2. /\ Len(queue) \in Nat /\ Len(queue') = Len(queue) + 1
              /\ DOMAIN queue = 1..Len(queue) /\ DOMAIN queue' = 1..(Len(queue) + 1)
              /\ \A i \in DOMAIN queue : queue'[i] = queue[i] /\ queue[i] \in Jobs
              /\ queue'[Len(queue) + 1] = j
            BY <2>1
        <2>3. \A i \in DOMAIN queue : queue[i] # j
            BY <2>1
        <2>4. /\ \A i \in DOMAIN queue' : job'[queue'[i]] = "queued"
              /\ \A i, k \in DOMAIN queue' : queue'[i] = queue'[k] => i = k
            BY <2>1, <2>2, <2>3
        <2>5. \A k \in Jobs : job'[k] = "queued" => \E i \in DOMAIN queue' : queue'[i] = k
            BY <2>1, <2>2, SMTT(30)
        <2>6. QED
            BY <2>1, <2>4, <2>5
    <1>6. ASSUME NEW h \in Handles, NEW j \in Jobs, PostRefused(h, j) PROVE PlaceInv'
        BY <1>6 DEF PostRefused, poolVars
    <1>7. ASSUME NEW h \in Handles, NEW next \in {"await", "live"}, NotifyOne(h, next)
          PROVE  PlaceInv'
        BY <1>7 DEF NotifyOne, Waiting
    <1>8. ASSUME NEW h \in Handles,
                 \/ Answer(h) \/ Abandon(h) \/ Clone(h) \/ BeginDrop(h)
                 \/ ReadCount(h) \/ Close(h) \/ ReleaseHandle(h)
          PROVE  PlaceInv'
        BY <1>8 DEF Answer, Abandon, Tell, Clone, BeginDrop, ReadCount, Close,
                    ReleaseHandle, poolVars
    <1>9. ASSUME NEW h \in Handles, NotifyAll(h) PROVE PlaceInv'
        BY <1>9 DEF NotifyAll, Waiting
    <1>10. CASE UNCHANGED vars
        BY <1>10 DEF vars
    <1>11. QED
        BY <1>1, <1>2, <1>3, <1>4, <1>5, <1>6, <1>7, <1>8, <1>9, <1>10
           DEF Next, SlotStep, HolderStep

LEMMA PlaceInvariant == Spec => []PlaceInv
    <1>1. Init => PlaceInv
        BY DEF Init, PlaceInv
    <1>2. QED
        BY <1>1, PlaceStep, TypeCorrect, PTL DEF Spec

\* An accepted job is in exactly one place, so no job runs twice and none is
\* dropped between the queue and a slot.
THEOREM JobsAreHeldOnce == Spec => []AcceptedJobsAreHeldOnce
    <1>1. ASSUME PlaceInv, NEW j \in Jobs
          PROVE  Cardinality({i \in DOMAIN queue : queue[i] = j})
                    = IF job[j] = "queued" THEN 1 ELSE 0
        <2>1. CASE job[j] = "queued"
            <3>1. PICK i \in DOMAIN queue : queue[i] = j
                BY <1>1, <2>1 DEF PlaceInv
            <3>2. {k \in DOMAIN queue : queue[k] = j} = {i}
                BY <1>1, <3>1 DEF PlaceInv
            <3>3. QED
                BY <2>1, <3>2, FS_Singleton
        <2>2. CASE job[j] # "queued"
            <3>1. {k \in DOMAIN queue : queue[k] = j} = {}
                BY <1>1, <2>2 DEF PlaceInv
            <3>2. QED
                BY <2>2, <3>1, FS_EmptySet
        <2>3. QED
            BY <2>1, <2>2
    <1>2. ASSUME PlaceInv, NEW j \in Jobs
          PROVE  Cardinality({t \in Slots : slotPc[t] = "running" /\ slotJob[t] = j})
                    = IF job[j] = "running" THEN 1 ELSE 0
        <2>1. CASE job[j] = "running"
            <3>1. PICK t \in Slots : slotPc[t] = "running" /\ slotJob[t] = j
                BY <1>2, <2>1 DEF PlaceInv
            <3>2. {u \in Slots : slotPc[u] = "running" /\ slotJob[u] = j} = {t}
                BY <1>2, <3>1 DEF PlaceInv
            <3>3. QED
                BY <2>1, <3>2, FS_Singleton
        <2>2. CASE job[j] # "running"
            <3>1. {u \in Slots : slotPc[u] = "running" /\ slotJob[u] = j} = {}
                BY <1>2, <2>2 DEF PlaceInv
            <3>2. QED
                BY <2>2, <3>1, FS_EmptySet
        <2>3. QED
            BY <2>1, <2>2
    <1>3. PlaceInv => AcceptedJobsAreHeldOnce
        BY <1>1, <1>2 DEF AcceptedJobsAreHeldOnce
    <1>4. QED
        BY PlaceInvariant, <1>3, PTL

\* A holder inside a call holds a job that was accepted.
CallsHoldAcceptedJobs ==
    \A h \in Handles : hPc[h] \in {"notify_one", "await"} =>
        hJob[h] \in Jobs /\ job[hJob[h]] \notin {"new", "refused"}

ToldInv == OutcomeIsTruthful /\ CallsHoldAcceptedJobs

LEMMA ToldStep ==
    TypeOK /\ PlaceInv /\ ClosedMeansNoCaller /\ ToldInv /\ [Next]_vars => ToldInv'
    <1> SUFFICES ASSUME TypeOK, PlaceInv, ClosedMeansNoCaller, ToldInv, [Next]_vars
                 PROVE  ToldInv'
        OBVIOUS
    <1> USE DEF TypeOK, ToldInv, OutcomeIsTruthful, CallsHoldAcceptedJobs
    <1>1. ASSUME NEW t \in Slots, Take(t) PROVE ToldInv'
        <2>1. Head(queue) \in Jobs /\ job[Head(queue)] = "queued"
            BY <1>1, HeadTailProperties, LenProperties, EmptySeq DEF Take, PlaceInv
        <2>2. QED
            BY <1>1, <2>1 DEF Take, callVars
    <1>2. ASSUME NEW t \in Slots, NEW result \in {"done", "panicked"}, Finish(t, result)
          PROVE  ToldInv'
        <2>1. slotJob[t] \in Jobs /\ job[slotJob[t]] = "running"
            BY <1>2 DEF Finish, PlaceInv
        <2>2. QED
            BY <1>2, <2>1 DEF Finish, callVars
    <1>3. ASSUME NEW t \in Slots, Exit(t) \/ Wait(t) \/ SpuriousWake(t) \/ Release(t)
          PROVE  ToldInv'
        BY <1>3 DEF Exit, Wait, SpuriousWake, Release, callVars
    <1>4. ASSUME NEW h \in Handles, NEW j \in Jobs, PostAccepted(h, j) PROVE ToldInv'
        BY <1>4 DEF PostAccepted, Enqueue
    <1>5. ASSUME NEW h \in Handles, NEW j \in Jobs, PostRefused(h, j) PROVE ToldInv'
        <2>1. open
            BY <1>5 DEF PostRefused, ClosedMeansNoCaller
        <2>2. QED
            BY <1>5, <2>1 DEF PostRefused
    <1>6. ASSUME NEW h \in Handles, NEW next \in {"await", "live"}, NotifyOne(h, next)
          PROVE  ToldInv'
        BY <1>6 DEF NotifyOne
    <1>7. ASSUME NEW h \in Handles, Answer(h) \/ Abandon(h) PROVE ToldInv'
        BY <1>7 DEF Answer, Abandon, Tell
    <1>8. ASSUME NEW h \in Handles,
                 \/ Clone(h) \/ BeginDrop(h) \/ ReadCount(h) \/ Close(h)
                 \/ NotifyAll(h) \/ ReleaseHandle(h)
          PROVE  ToldInv'
        BY <1>8 DEF Clone, BeginDrop, ReadCount, Close, NotifyAll, ReleaseHandle
    <1>9. CASE UNCHANGED vars
        BY <1>9 DEF vars
    <1>10. QED
        BY <1>1, <1>2, <1>3, <1>4, <1>5, <1>6, <1>7, <1>8, <1>9 DEF Next, SlotStep, HolderStep

\* Callers are told the truth: an answer only of a completed job, Full only of
\* a refused one, and Unavailable only of a job that panicked, because a closed
\* queue has no caller left to refuse.
THEOREM CallersAreToldTheTruth == Spec => []OutcomeIsTruthful
    <1>1. Init => ToldInv
        BY DEF Init, ToldInv, OutcomeIsTruthful, CallsHoldAcceptedJobs
    <1>2. Spec => []ToldInv
        BY <1>1, ToldStep, TypeCorrect, PlaceInvariant, ClosedHasNoCaller, PTL DEF Spec
    <1>3. QED
        BY <1>2, PTL DEF ToldInv
-----------------------------------------------------------------------------
(* The pool implements JobServer *)

\* Whoever is in a call is still owed its end, and calls are about different jobs.
CallInv ==
    /\ \A h \in Handles : hPc[h] \in {"notify_one", "await"} =>
          /\ hJob[h] \in Jobs /\ job[hJob[h]] \notin {"new", "refused"}
          /\ outcome[hJob[h]] = "accepted"
    /\ \A g, h \in Handles :
          /\ hPc[g] \in {"notify_one", "await"} /\ hPc[h] \in {"notify_one", "await"}
          /\ hJob[g] = hJob[h]
          => g = h

LEMMA CallStep == TypeOK /\ PlaceInv /\ CallInv /\ [Next]_vars => CallInv'
    <1> SUFFICES ASSUME TypeOK, PlaceInv, CallInv, [Next]_vars PROVE CallInv'
        OBVIOUS
    <1> USE DEF TypeOK, CallInv
    <1>1. ASSUME NEW t \in Slots, Take(t) PROVE CallInv'
        <2>1. Head(queue) \in Jobs /\ job[Head(queue)] = "queued"
            BY <1>1, HeadTailProperties, LenProperties, EmptySeq DEF Take, PlaceInv
        <2>2. QED
            BY <1>1, <2>1 DEF Take, callVars
    <1>2. ASSUME NEW t \in Slots, NEW result \in {"done", "panicked"}, Finish(t, result)
          PROVE  CallInv'
        <2>1. slotJob[t] \in Jobs /\ job[slotJob[t]] = "running"
            BY <1>2 DEF Finish, PlaceInv
        <2>2. QED
            BY <1>2, <2>1 DEF Finish, callVars
    <1>3. ASSUME NEW t \in Slots, Exit(t) \/ Wait(t) \/ SpuriousWake(t) \/ Release(t)
          PROVE  CallInv'
        BY <1>3 DEF Exit, Wait, SpuriousWake, Release, callVars
    <1>4. ASSUME NEW h \in Handles, NEW j \in Jobs, PostAccepted(h, j) PROVE CallInv'
        BY <1>4 DEF PostAccepted, Enqueue
    <1>5. ASSUME NEW h \in Handles, NEW j \in Jobs, PostRefused(h, j) PROVE CallInv'
        BY <1>5 DEF PostRefused
    <1>6. ASSUME NEW h \in Handles, NEW next \in {"await", "live"}, NotifyOne(h, next)
          PROVE  CallInv'
        BY <1>6 DEF NotifyOne
    <1>7. ASSUME NEW h \in Handles, Answer(h) \/ Abandon(h) PROVE CallInv'
        BY <1>7 DEF Answer, Abandon, Tell
    <1>8. ASSUME NEW h \in Handles,
                 \/ Clone(h) \/ BeginDrop(h) \/ ReadCount(h) \/ Close(h)
                 \/ NotifyAll(h) \/ ReleaseHandle(h)
          PROVE  CallInv'
        BY <1>8 DEF Clone, BeginDrop, ReadCount, Close, NotifyAll, ReleaseHandle
    <1>9. CASE UNCHANGED vars
        BY <1>9 DEF vars
    <1>10. QED
        BY <1>1, <1>2, <1>3, <1>4, <1>5, <1>6, <1>7, <1>8, <1>9 DEF Next, SlotStep, HolderStep

LEMMA CallInvariant == Spec => []CallInv
    <1>1. Init => CallInv
        BY DEF Init, CallInv
    <1>2. QED
        BY <1>1, CallStep, TypeCorrect, PlaceInvariant, PTL DEF Spec

\* The jobs on the slots, as the refinement mapping sees them.
Serving == [t \in Slots |-> IF slotPc[t] = "running" THEN slotJob[t] ELSE NoJob]

LEMMA ServerInit == Init => Server!Init
    <1> SUFFICES ASSUME Init PROVE Server!Init
        OBVIOUS
    <1>1. Serving = [t \in Slots |-> NoJob]
        BY DEF Init, Serving
    <1>2. QED
        BY <1>1 DEF Init, Server!Init, Serving

LEMMA ServerStep ==
    TypeOK /\ CountInv /\ PlaceInv /\ ClosedMeansNoCaller /\ CallInv /\ [Next]_vars
        => [Server!Next]_(Server!vars)
    <1> SUFFICES ASSUME TypeOK, CountInv, PlaceInv, ClosedMeansNoCaller, CallInv, [Next]_vars
                 PROVE  [Server!Next]_(Server!vars)
        OBVIOUS
    <1> USE DEF TypeOK
    <1>0. ASSUME queue' = queue, Serving' = Serving, job' = job, outcome' = outcome
          PROVE  UNCHANGED Server!vars
        BY <1>0 DEF Server!vars, Serving
    <1>1. ASSUME NEW t \in Slots, Take(t) PROVE Server!Start(t)
        <2>1. Serving' = [Serving EXCEPT ![t] = Head(queue)]
            BY <1>1 DEF Take, Serving
        <2>2. Serving[t] = NoJob
            BY <1>1 DEF Take, Serving
        <2>3. QED
            BY <1>1, <2>1, <2>2 DEF Take, callVars, Server!Start, Serving
    <1>2. ASSUME NEW t \in Slots, NEW result \in {"done", "panicked"}, Finish(t, result)
          PROVE  Server!Finish(t, result)
        <2>1. slotJob[t] \in Jobs /\ Serving[t] = slotJob[t] /\ Serving[t] # NoJob
            BY <1>2, PoolAssumption DEF Finish, Serving, PlaceInv
        <2>2. Serving' = [Serving EXCEPT ![t] = NoJob]
            BY <1>2 DEF Finish, Serving
        <2>3. QED
            BY <1>2, <2>1, <2>2 DEF Finish, callVars, Server!Finish, Serving
    <1>3. ASSUME NEW t \in Slots, Exit(t) \/ Wait(t) \/ SpuriousWake(t) \/ Release(t)
          PROVE  UNCHANGED Server!vars
        <2>1. Serving' = Serving
            BY <1>3 DEF Exit, Wait, SpuriousWake, Release, Serving
        <2>2. QED
            BY <1>0, <1>3, <2>1 DEF Exit, Wait, SpuriousWake, Release, callVars
    <1>4. ASSUME NEW h \in Handles, NEW j \in Jobs, PostAccepted(h, j) PROVE Server!Accept(j)
        <2>1. Serving' = Serving
            BY <1>4 DEF PostAccepted, Enqueue, Serving
        <2>2. QED
            BY <1>4, <2>1 DEF PostAccepted, Enqueue, Server!Accept, Serving
    <1>5. ASSUME NEW h \in Handles, NEW j \in Jobs, PostRefused(h, j) PROVE Server!Refuse(j)
        <2>1. open /\ Len(queue) = QueueDepth
            BY <1>5, PoolAssumption DEF PostRefused, ClosedMeansNoCaller, CountInv
        <2>2. Serving' = Serving
            BY <1>5 DEF PostRefused, poolVars, Serving
        <2>3. QED
            BY <1>5, <2>1, <2>2 DEF PostRefused, poolVars, Server!Refuse, Serving
    <1>6. ASSUME NEW h \in Handles, NEW next \in {"await", "live"}, NotifyOne(h, next)
          PROVE  UNCHANGED Server!vars
        <2>1. Serving' = Serving
            BY <1>6 DEF NotifyOne, Waiting, Serving
        <2>2. QED
            BY <1>0, <1>6, <2>1 DEF NotifyOne
    <1>7. ASSUME NEW h \in Handles, Answer(h) PROVE Server!Answer(hJob[h])
        <2>1. Serving' = Serving
            BY <1>7 DEF Answer, Tell, poolVars, Serving
        <2>2. outcome[hJob[h]] = "accepted"
            BY <1>7 DEF Answer, CallInv
        <2>3. QED
            BY <1>7, <2>1, <2>2 DEF Answer, Tell, poolVars, Server!Answer, Serving
    <1>8. ASSUME NEW h \in Handles, Abandon(h) PROVE Server!Leave(hJob[h])
        <2>1. Serving' = Serving
            BY <1>8 DEF Abandon, Tell, poolVars, Serving
        <2>2. outcome[hJob[h]] = "accepted"
            BY <1>8 DEF Abandon, CallInv
        <2>3. QED
            BY <1>8, <2>1, <2>2 DEF Abandon, Tell, poolVars, Server!Leave, Serving
    <1>9. ASSUME NEW h \in Handles, Answer(h) \/ Abandon(h) PROVE hJob[h] \in Jobs
        BY <1>9 DEF Answer, Abandon, CallInv
    <1>10. ASSUME NEW h \in Handles,
                  \/ Clone(h) \/ BeginDrop(h) \/ ReadCount(h) \/ Close(h)
                  \/ NotifyAll(h) \/ ReleaseHandle(h)
           PROVE  UNCHANGED Server!vars
        <2>1. Serving' = Serving
            BY <1>10 DEF Clone, BeginDrop, ReadCount, Close, NotifyAll, ReleaseHandle,
                         poolVars, Waiting, Serving
        <2>2. QED
            BY <1>0, <1>10, <2>1 DEF Clone, BeginDrop, ReadCount, Close, NotifyAll,
                                     ReleaseHandle, poolVars
    <1>11. CASE UNCHANGED vars
        BY <1>0, <1>11 DEF vars, Serving
    <1>12. QED
        BY <1>1, <1>2, <1>3, <1>4, <1>5, <1>6, <1>7, <1>8, <1>9, <1>10, <1>11
           DEF Next, SlotStep, HolderStep, Server!Next

\* Every behaviour of the pool is one of a JobServer: no interleaving of posts,
\* wake-ups, panics, departures, clones and drops makes its callers see a job out of
\* order, twice, lost, refused without need or answered untruly.
THEOREM PoolIsAJobServer == Spec => PoolServes
    BY ServerInit, ServerStep, TypeCorrect, CountInvariant, PlaceInvariant, ClosedHasNoCaller,
       CallInvariant, PTL DEF Spec, PoolServes, Server!Spec

-----------------------------------------------------------------------------
(* Arithmetic. *)

\* What order and products give: the solver uses them where terms are not linear.
LEMMA Products ==
    /\ \A a, b \in Nat : a * b \in Nat
    /\ \A a, b, c \in Nat : a <= b => a * c <= b * c
    /\ \A a, b, c \in Nat : a < b => a * c + c <= b * c
    OBVIOUS

\* How positions, prompts and tokens add up when one more token is made.
LEMMA Counting ==
    ASSUME NEW a \in Nat, NEW b \in Nat, NEW n \in Nat
    PROVE  /\ a + b \in Nat /\ n + 1 \in Nat
           /\ n < a + b => n + 1 < a + b \/ (n + 1 = a + b /\ ~(n + 1 < a + b))
           /\ b < n /\ b + 1 # n => b + 1 < n
           /\ a + b < a + (b + 1) /\ a + b = a + (b + 1) - 1
    OBVIOUS

\* Two numbers written with a digit below n are the same digit by digit.
LEMMA Digits ==
    ASSUME NEW n \in Nat, NEW a \in Nat, NEW b \in Nat,
           NEW x \in 0..(n - 1), NEW y \in 0..(n - 1), a * n + x = b * n + y
    PROVE  a = b /\ x = y
    <1>1. ~(a < b)
        BY Products
    <1>2. ~(b < a)
        BY Products
    <1>3. QED
        BY <1>1, <1>2

\* A number is its quotient by n, times n, and what remains.
LEMMA Divided ==
    ASSUME NEW n \in Nat \ {0}, NEW a \in Nat
    PROVE  /\ (a * n) % n = 0 /\ (a * n) \div n = a
           /\ a \div n \in Nat /\ a % n \in 0..(n - 1)
           /\ a = n * (a \div n) + (a % n)
    OBVIOUS

LEMMA Quotient ==
    ASSUME NEW n \in Nat \ {0}, NEW a \in Nat, a % n = 0
    PROVE  (a \div n) * n = a
    OBVIOUS

LEMMA MultipleOfMultiple ==
    ASSUME NEW n \in Nat \ {0}, NEW a \in Nat, NEW b \in Nat, a % n = 0
    PROVE  (a * b) % n = 0
    <1>1. PICK m \in Nat : a = m * n
        BY Quotient, Divided
    <1>2. m * b \in Nat /\ a * b = (m * b) * n
        BY <1>1
    <1>3. QED
        BY <1>2, Divided

-----------------------------------------------------------------------------
(* A tensor in its file and in memory. *)

\* A descriptor the parser accepts: its dimensions and its size are sound.
Sound(t) ==
    /\ t \in Descriptors
    /\ Len(t.dims) \in 1..MAX_TENSOR_DIMS
    /\ \A k \in DOMAIN t.dims : t.dims[k] >= 0
    /\ Layout(t.type) # NoLayout
    /\ t.dims[1] % Layout(t.type).elements = 0

\* A block of a type with a layout has elements, and bytes.
LEMMA LayoutIs ==
    ASSUME NEW type \in TensorTypes, Layout(type) # NoLayout
    PROVE  /\ Layout(type).elements \in Nat \ {0} /\ Layout(type).bytes \in Nat \ {0}
           /\ DOMAIN Layout(type) = {"elements", "bytes"}
    <1>1. Layout("Unknown") = NoLayout
        BY DEF Layout
    <1>2. type # "Unknown"
        BY <1>1
    <1>3. Layout(type).elements \in {1, 32, 64, 256}
        BY <1>2 DEF Layout, TensorTypes
    <1>4. Layout(type).bytes \in {1, 2, 4, 8, 18, 20, 22, 34, 36, 54, 66, 84, 110, 136, 144, 176, 210, 292}
        BY <1>2 DEF Layout, TensorTypes
    <1>5. DOMAIN Layout(type) = {"elements", "bytes"}
        BY <1>2 DEF Layout, TensorTypes
    <1>6. QED
        BY <1>3, <1>4, <1>5

\* A sound tensor is whole blocks, and a matrix has its rows times its columns.
LEMMA ElementsAre ==
    ASSUME NEW t, Sound(t)
    PROVE  /\ Elements(t) \in Nat
           /\ Elements(t) % Layout(t.type).elements = 0
           /\ NBytes(t) \in Nat
           /\ Len(t.dims) = 1 => Elements(t) = t.dims[1]
           /\ Len(t.dims) = 2 => Elements(t) = t.dims[1] * t.dims[2]
    <1> DEFINE Dim(i) == IF i <= Len(t.dims) THEN t.dims[i] ELSE 1
    <1>1. /\ t.dims \in Seq(Int) /\ Len(t.dims) \in 1..4 /\ DOMAIN t.dims = 1..Len(t.dims)
          /\ t.type \in TensorTypes /\ Layout(t.type) # NoLayout
        BY DEF Sound, Descriptors, MAX_TENSOR_DIMS
    <1>2. \A i \in 1..4 : Dim(i) \in Nat
        BY <1>1 DEF Sound
    <1>3. /\ Elements(t) = Dim(1) * Dim(2) * Dim(3) * Dim(4)
          /\ Dim(1) = t.dims[1] /\ Dim(1) % Layout(t.type).elements = 0
        BY <1>1 DEF Elements, Product, Sound
    <1>4. /\ Len(t.dims) = 1 => Dim(2) = 1 /\ Dim(3) = 1 /\ Dim(4) = 1
          /\ Len(t.dims) = 2 => Dim(2) = t.dims[2] /\ Dim(3) = 1 /\ Dim(4) = 1
        BY <1>1
    <1> HIDE DEF Dim
    <1>5. PICK n \in Nat \ {0}, b \in Nat : n = Layout(t.type).elements /\ b = Layout(t.type).bytes
        BY <1>1, LayoutIs
    <1>6. PICK rest \in Nat : rest = Dim(2) * Dim(3) * Dim(4) /\ Elements(t) = Dim(1) * rest
        BY <1>2, <1>3
    <1>7. Elements(t) \in Nat /\ Elements(t) % n = 0
        BY <1>2, <1>3, <1>5, <1>6, MultipleOfMultiple
    <1>8. NBytes(t) \in Nat
        <2>1. PICK k \in Nat : k = Elements(t) \div n
            BY <1>7, Divided
        <2>2. NBytes(t) = k * b
            BY <1>5, <2>1 DEF NBytes
        <2>3. QED
            BY <1>5, <2>1, <2>2, Products
    <1>9. /\ Len(t.dims) = 1 => Elements(t) = t.dims[1]
          /\ Len(t.dims) = 2 => Elements(t) = t.dims[1] * t.dims[2]
        BY <1>2, <1>3, <1>4
    <1>10. QED
        BY <1>5, <1>7, <1>8, <1>9

\* A decoder that takes the blocks to be as long as the parser does yields every
\* value of the tensor, of any size and type (tensor/blocks.rs).
THEOREM EveryValueIsDecoded ==
    ASSUME NEW t, Sound(t), BlockBytes(t.type) = Layout(t.type).bytes
    PROVE  DecodedLength(t.type, NBytes(t), Elements(t)) = Elements(t)
    <1>1. t.type \in TensorTypes /\ Layout(t.type) # NoLayout
        BY DEF Sound, Descriptors
    <1>2. PICK n \in Nat \ {0}, b \in Nat \ {0} : n = Layout(t.type).elements /\ b = Layout(t.type).bytes
        BY <1>1, LayoutIs
    <1>3. PICK e \in Nat : e = Elements(t) /\ e % n = 0
        BY <1>2, ElementsAre
    <1>4. PICK k \in Nat : k = e \div n /\ e = k * n
        BY <1>2, <1>3, Divided, Quotient
    <1>5. NBytes(t) = k * b
        BY <1>2, <1>3, <1>4 DEF NBytes
    <1>6. k * b \in Nat /\ (k * b) % b = 0 /\ (k * b) \div b = k
        BY <1>2, <1>4, Divided, Products
    <1>7. PICK m \in Nat : m = NBytes(t) /\ m % b = 0 /\ m \div b = k
        BY <1>5, <1>6
    <1>8. /\ [Layout(t.type) EXCEPT !.bytes = BlockBytes(t.type)].bytes = b
          /\ [Layout(t.type) EXCEPT !.bytes = BlockBytes(t.type)].elements = n
        BY <1>1, <1>2, LayoutIs
    <1>9. QED
        BY <1>2, <1>3, <1>4, <1>7, <1>8 DEF DecodedLength

\* A vector of f32 has the values its shape says.
LEMMA F32Has ==
    ASSUME NEW t, Sound(t), BlockBytes(t.type) = Layout(t.type).bytes, LoadCpuF32(t) # NotLoaded
    PROVE  LoadCpuF32(t) = InMemory(t, "f32", Elements(t))
    BY EveryValueIsDecoded DEF LoadCpuF32, OrNotLoaded

\* A matrix that is kept as blocks, or decoded, has the values its shape says.
LEMMA LinearHas ==
    ASSUME NEW t, Sound(t), BlockBytes(t.type) = Layout(t.type).bytes, LoadLinear(t) # NotLoaded
    PROVE  \E kept \in {"f32", "blocks"} : LoadLinear(t) = InMemory(t, kept, Elements(t))
    <1>1. CASE t.type = "Q8_0" /\ Len(t.dims) = 2
        <2>1. DecodedLength("Q8_0", NBytes(t), Elements(t)) = Elements(t)
            BY <1>1, EveryValueIsDecoded
        <2>2. QED
            BY <1>1, <2>1 DEF LoadLinear, OrNotLoaded
    <1>2. CASE ~(t.type = "Q8_0" /\ Len(t.dims) = 2)
        <2>1. LoadLinear(t) = LoadCpuF32(t)
            BY <1>2 DEF LoadLinear
        <2>2. QED
            BY <2>1, F32Has
    <1>3. QED
        BY <1>1, <1>2

-----------------------------------------------------------------------------
(* A file the parser accepts. *)

\* A set of natural numbers has a least one.
LEMMA LeastOf ==
    ASSUME NEW T \in SUBSET Nat, T # {}
    PROVE  \E a \in T : \A i \in T : a <= i
    <1>1. PICK a \in T : \A i \in T : ~ (<<i, a>> \in OpToRel(<, Nat))
        BY NatLessThanWellFounded, WFMin, Zenon
    <1>2. \A i \in T : i \in Nat /\ a \in Nat /\ ~ (i < a)
        BY <1>1 DEF OpToRel
    <1>3. QED
        BY <1>2

\* What the parser has checked of every tensor.
LEMMA ParsedIs ==
    ASSUME NEW f, IsFile(f), Parses(f)
    PROVE  /\ DOMAIN f.tensors = 1..Len(f.tensors) /\ Len(f.tensors) \in Nat
           /\ \A i \in DOMAIN f.tensors :
                 /\ Sound(f.tensors[i]) /\ f.tensors[i].offset \in Nat
                 /\ NBytes(f.tensors[i]) \in Nat
           /\ Alignment(f) \in Nat \ {0}
    <1>1. f.tensors \in Seq(Descriptors)
        BY DEF IsFile
    <1>2. DOMAIN f.tensors = 1..Len(f.tensors) /\ Len(f.tensors) \in Nat
        BY <1>1
    <1>3. ASSUME NEW i \in DOMAIN f.tensors
          PROVE  Sound(f.tensors[i]) /\ f.tensors[i].offset \in Nat /\ NBytes(f.tensors[i]) \in Nat
        <2>1. PICK t \in Descriptors : t = f.tensors[i]
            BY <1>1, <1>2
        <2>2. /\ Len(t.dims) \in 1..MAX_TENSOR_DIMS
              /\ \A k \in DOMAIN t.dims : t.dims[k] >= 0
            BY <2>1 DEF Parses, HeaderIsSound
        <2>3. Layout(t.type) # NoLayout /\ t.dims[1] % Layout(t.type).elements = 0
            BY <2>1 DEF Parses, DescriptorsAreSound, SizeIsSound
        <2>4. Sound(t)
            BY <2>2, <2>3 DEF Sound
        <2>5. NBytes(t) \in Nat
            BY <2>4, ElementsAre
        <2>6. QED
            BY <2>1, <2>4, <2>5 DEF Descriptors
    <1>4. Alignment(f) \in Nat \ {0}
        <2>1. Alignment(f) \in PowersOfTwo
            BY DEF Parses, HeaderIsSound
        <2>2. QED
            BY <2>1 DEF PowersOfTwo
    <1>5. QED
        BY <1>2, <1>3, <1>4

\* Alignment never moves a tensor before the end of the one before it.
LEMMA AlignedIsLater ==
    ASSUME NEW n \in Nat, NEW alignment \in Nat \ {0}
    PROVE  AlignTo(n, alignment) >= n
    <1>1. PICK v \in Nat : v = n + alignment - 1
        OBVIOUS
    <1>2. v = alignment * (v \div alignment) + (v % alignment)
          /\ v % alignment \in 0..(alignment - 1) /\ v \div alignment \in Nat
        BY <1>1, Divided
    <1>3. QED
        BY <1>1, <1>2 DEF AlignTo

\* Every tensor starts no earlier than the one before it ends, and so than any
\* before it: the tensors the parser of gguf.rs accepts, any number of them, have no
\* byte in common and none outside the file.
THEOREM ParsedAreApart ==
    ASSUME NEW f, IsFile(f), Parses(f)
    PROVE  TensorsAreApart(f)
    <1> DEFINE At(i) == f.tensors[i].offset
               End(i) == At(i) + NBytes(f.tensors[i])
               n == Len(f.tensors)
    <1>1. /\ DOMAIN f.tensors = 1..n /\ n \in Nat
          /\ \A i \in 1..n : At(i) \in Nat /\ End(i) \in Nat /\ At(i) <= End(i)
        BY ParsedIs
    <1>2. ASSUME NEW i \in 1..n, i > 1 PROVE At(i) >= End(i - 1)
        <2>1. At(i) = AlignTo(End(i - 1), Alignment(f))
            <3>1. OffsetFits(f, i)
                BY <1>1 DEF Parses, DescriptorsAreSound
            <3>2. ExpectedOffset(f, i) = AlignTo(End(i - 1), Alignment(f))
                BY <1>2 DEF ExpectedOffset
            <3>3. QED
                BY <3>1, <3>2 DEF OffsetFits
        <2>2. End(i - 1) \in Nat
            BY <1>1, <1>2
        <2>3. QED
            BY <2>1, <2>2, ParsedIs, AlignedIsLater
    <1>3. ASSUME NEW i \in 1..n PROVE \A j \in 1..n : i < j => End(i) <= At(j)
        <2> DEFINE Early == {j \in 1..n : i < j /\ ~(End(i) <= At(j))}
        <2>1. SUFFICES ASSUME Early # {} PROVE FALSE
            OBVIOUS
        <2>2. PICK j \in Early : \A k \in Early : j <= k
            <3>1. Early \in SUBSET Nat
                BY <1>1
            <3>2. QED
                BY <2>1, <3>1, LeastOf
        <2>3. j \in 1..n /\ j > 1 /\ At(j) >= End(j - 1)
            BY <1>2, <2>2
        <2>4. CASE j = i + 1
            BY <1>1, <2>2, <2>3, <2>4
        <2>5. CASE j # i + 1
            <3>1. j - 1 \in 1..n /\ i < j - 1 /\ j - 1 \notin Early
                BY <2>2, <2>3, <2>5
            <3>2. End(i) <= At(j - 1) /\ At(j - 1) <= End(j - 1)
                BY <1>1, <3>1
            <3>3. PICK e \in Nat, x \in Nat, y \in Nat, z \in Nat :
                      e = End(i) /\ x = At(j - 1) /\ y = End(j - 1) /\ z = At(j)
                BY <1>1, <2>3, <3>1
            <3>4. e <= z
                BY <2>3, <3>2, <3>3
            <3>5. QED
                BY <2>2, <3>3, <3>4
        <2>6. QED
            BY <2>4, <2>5
    <1>4. ASSUME NEW i \in DOMAIN f.tensors PROVE DataStart(f) + At(i) + NBytes(f.tensors[i]) <= f.length
        BY <1>4 DEF Parses, DescriptorsAreSound
    <1>5. QED
        BY <1>1, <1>3, <1>4 DEF TensorsAreApart

\* A tensor looked up by its name is one the parser has checked.
LEMMA TensorIs ==
    ASSUME NEW f, IsFile(f), Parses(f), BlocksAgree(f), NEW name \in TensorNames(f)
    PROVE  /\ Sound(Tensor(f, name))
           /\ BlockBytes(Tensor(f, name).type) = Layout(Tensor(f, name).type).bytes
    <1>1. PICK i \in DOMAIN f.tensors : f.tensors[i].name = name /\ Tensor(f, name) = f.tensors[i]
        BY DEF TensorNames, Tensor
    <1>2. QED
        BY <1>1, ParsedIs DEF BlocksAgree

-----------------------------------------------------------------------------
(* The configuration. *)

\* A number the file declares is a natural number, if it is there.
LEMMA MetadataIs ==
    ASSUME NEW f, IsFile(f), NEW key
    PROVE  MetadataU32(f, key) \in Nat \cup {NoValue}
    <1>1. Typed(f, key, {"U32", "U64"}) \in Nat \cup {NoValue}
        <2>1. CASE key \in Keys(f) /\ Entry(f, key)[2] \in {"U32", "U64"}
            <3>1. PICK i \in DOMAIN f.metadata : Entry(f, key) = f.metadata[i]
                BY <2>1 DEF Keys, Entry
            <3>2. QED
                BY <2>1, <3>1 DEF Typed, IsFile
        <2>2. QED
            BY <2>1 DEF Typed
    <1>2. QED
        BY <1>1 DEF MetadataU32

\* What the loader knows of the configuration of a file it has bound.
Configured(c) ==
    /\ c.context \in Nat /\ c.embedding \in Nat /\ c.blocks \in Nat /\ c.feedForward \in Nat
    /\ c.heads \in Nat \ {0} /\ c.kvHeads \in Nat \ {0} /\ c.heads % c.kvHeads = 0
    /\ c.ropeDim \in Nat \cup {NoValue}
    /\ HeadDim(c) \in Nat /\ QWidth(c) \in Nat /\ KvWidth(c) \in Nat
    /\ c.qkNorm \in BOOLEAN

\* The dimensions of a configuration that DenseLlamaDims accepts.
LEMMA ConfigIs ==
    ASSUME NEW f, IsFile(f), Configurable(f), DimsAreSound(Config(f))
    PROVE  Configured(Config(f))
    <1>1. \A key : MetadataU32(f, key) \in Nat \cup {NoValue}
        BY MetadataIs
    <1>2. \A key \in RequiredKeys : MetadataU32(f, key) \in Nat
        BY <1>1 DEF Configurable
    <1> DEFINE c == Config(f)
    <1>3. /\ c.context \in Nat /\ c.embedding \in Nat /\ c.blocks \in Nat
          /\ c.feedForward \in Nat /\ c.heads \in Nat
        BY <1>2 DEF Config, RequiredKeys
    <1>4. c.ropeDim \in Nat \cup {NoValue} /\ c.keyLength \in Nat \cup {NoValue} /\ c.qkNorm \in BOOLEAN
        BY <1>1 DEF Config
    <1>5. c.kvHeads \in Nat
        <2>1. c.kvHeads = Default(MetadataU32(f, "attention.head_count_kv"), c.heads)
            BY DEF Config
        <2>2. QED
            BY <1>1, <1>3, <2>1 DEF Default
    <1>6. c.heads > 0 /\ c.kvHeads > 0 /\ c.heads % c.kvHeads = 0
        BY DEF DimsAreSound
    <1> HIDE DEF c
    <1>7. HeadDim(c) \in Nat
        <2>1. c.embedding \div c.heads \in Nat
            BY <1>3, <1>6, Divided
        <2>2. QED
            BY <1>4, <2>1 DEF HeadDim, NoValue
    <1>8. QWidth(c) \in Nat /\ KvWidth(c) \in Nat
        BY <1>3, <1>5, <1>7, Products DEF QWidth, KvWidth
    <1>9. Configured(c)
        BY <1>3, <1>4, <1>5, <1>6, <1>7, <1>8 DEF Configured
    <1>10. QED
        BY <1>9 DEF c

-----------------------------------------------------------------------------
(* Widths. *)

\* A matrix has its values whichever way round the file declares it.
LEMMA MatrixHas ==
    ASSUME NEW t, Sound(t), BlockBytes(t.type) = Layout(t.type).bytes, LoadLinear(t) # NotLoaded,
           NEW in \in Nat, NEW out \in Nat, t.dims \in Matrix(in, out)
    PROVE  /\ LoadLinear(t).shape = t.dims /\ LoadLinear(t).type = t.type
           /\ LoadLinear(t).kept \in {"f32", "blocks"}
           /\ LoadLinear(t).amount = in * out
    <1>1. PICK kept \in {"f32", "blocks"} : LoadLinear(t) = InMemory(t, kept, Elements(t))
        BY LinearHas
    <1>2. Len(t.dims) = 2 /\ t.dims[1] * t.dims[2] = in * out
        BY DEF Matrix
    <1>3. Elements(t) = in * out
        BY <1>2, ElementsAre
    <1>4. QED
        BY <1>1, <1>3 DEF InMemory

\* The rows a matrix makes of an input of its own width.
LEMMA RowIs ==
    ASSUME NEW w, NEW in \in Nat \ {0}, NEW out \in Nat \ {0}, w.amount = in * out,
           w.kept \in {"f32", "blocks"}, w.kept = "blocks" => in % 32 = 0
    PROVE  LinearRow(w, in) = out
    <1>1. in * out \in Nat /\ in * out > 0
        OBVIOUS
    <1>2. (in * out) % in = 0 /\ (in * out) \div in = out
        <2>1. in * out = out * in
            OBVIOUS
        <2>2. QED
            BY <2>1, Divided
    <1>3. QED
        BY <1>1, <1>2 DEF LinearRow

\* A norm of a width normalizes a row of that width.
LEMMA NormIs ==
    ASSUME NEW t, Sound(t), BlockBytes(t.type) = Layout(t.type).bytes, LoadCpuF32(t) # NotLoaded,
           NEW n \in Nat, t.dims \in Vector(n)
    PROVE  RmsNorms(LoadCpuF32(t), n)
    <1>1. t.dims = <<n>>
        BY DEF Vector
    <1>2. Elements(t) = n
        BY <1>1, ElementsAre
    <1>3. QED
        BY <1>1, <1>2, F32Has DEF RmsNorms, InMemory

-----------------------------------------------------------------------------
(* The shapes a model is bound by. *)

\* The shapes the binding accepts, one role at a time.
LEMMA LayerShapesAre ==
    ASSUME NEW c
    PROVE  /\ LayerShapes(c, "attn_norm.weight") = Vector(c.embedding)
           /\ LayerShapes(c, "ffn_norm.weight") = Vector(c.embedding)
           /\ LayerShapes(c, "attn_q_norm.weight") = Vector(HeadDim(c))
           /\ LayerShapes(c, "attn_k_norm.weight") = Vector(HeadDim(c))
           /\ LayerShapes(c, "attn_q.weight") = Matrix(c.embedding, QWidth(c))
           /\ LayerShapes(c, "attn_k.weight") = Matrix(c.embedding, KvWidth(c))
           /\ LayerShapes(c, "attn_v.weight") = Matrix(c.embedding, KvWidth(c))
           /\ LayerShapes(c, "attn_output.weight") = Matrix(QWidth(c), c.embedding)
           /\ LayerShapes(c, "ffn_gate.weight") = Matrix(c.embedding, c.feedForward)
           /\ LayerShapes(c, "ffn_up.weight") = Matrix(c.embedding, c.feedForward)
           /\ LayerShapes(c, "ffn_down.weight") = Matrix(c.feedForward, c.embedding)
    BY DEF LayerShapes, QkNorms

LEMMA TopShapesAre ==
    ASSUME NEW c
    PROVE  /\ TopShapes(c, "token_embd.weight") = Matrix(c.embedding, c.vocab)
           /\ TopShapes(c, "output.weight") = Matrix(c.embedding, c.vocab)
           /\ TopShapes(c, "output_norm.weight") = Vector(c.embedding)
           /\ TopShapes(c, "rope_freqs.weight") = Vector(RopeDim(c) \div 2)
    BY DEF TopShapes

\* A file that is loaded and leaves nothing to the request.
Served(f) ==
    /\ IsFile(f) /\ f.tokens = Len(f.tokenizer.texts)
    /\ Loads(f) /\ LeftToTheRequest(f) /\ BlocksAgree(f)

\* The dimensions of a file that is served.
LEMMA ServedIs ==
    ASSUME NEW f, Served(f)
    PROVE  /\ Configured(Config(f))
           /\ Config(f).embedding > 0 /\ Config(f).feedForward > 0 /\ HeadDim(Config(f)) > 0
           /\ QWidth(Config(f)) > 0 /\ KvWidth(Config(f)) > 0
    <1> DEFINE c == Config(f)
    <1>1. Configured(c)
        BY ConfigIs DEF Served, Loads, Binds
    <1>2. c.embedding > 0 /\ c.feedForward > 0 /\ HeadDim(c) > 0
        BY DEF Served, LeftToTheRequest, PlanIsSound
    <1> HIDE DEF c
    <1>3. QWidth(c) > 0 /\ KvWidth(c) > 0
        <2>1. \A a, b \in Nat \ {0} : a * b > 0
            OBVIOUS
        <2>2. QED
            BY <1>1, <1>2, <2>1 DEF Configured, QWidth, KvWidth
    <1>4. QED
        BY <1>1, <1>2, <1>3 DEF c

\* A bound weight is loaded from a tensor the parser has checked.
LEMMA WeightIs ==
    ASSUME NEW f, Served(f), NEW name \in Bound(f, Config(f))
    PROVE  /\ Sound(Tensor(f, name))
           /\ BlockBytes(Tensor(f, name).type) = Layout(Tensor(f, name).type).bytes
           /\ Weights(f, Config(f))[name] = Load(f, name) /\ Load(f, name) # NotLoaded
    <1>1. name \in TensorNames(f)
        BY DEF Served, Loads, Binds
    <1>2. Weights(f, Config(f))[name] = Load(f, name) /\ name \in DOMAIN Weights(f, Config(f))
        BY DEF Weights
    <1>3. Load(f, name) # NotLoaded
        BY <1>2 DEF Served, Loads, WeightsAreSound
    <1>4. QED
        BY <1>1, <1>2, <1>3, TensorIs DEF Served, Loads

\* The weight of a layer's role, loaded as norms or as linears are.
LEMMA LayerWeightIs ==
    ASSUME NEW f, Served(f), NEW layer \in Layers(Config(f)), NEW role \in LayerRoles(Config(f))
    PROVE  /\ <<layer, role>> \in Bound(f, Config(f))
           /\ Tensor(f, <<layer, role>>).dims \in LayerShapes(Config(f), role)
           /\ role \in Norms => Load(f, <<layer, role>>) = LoadCpuF32(Tensor(f, <<layer, role>>))
           /\ role \notin Norms => Load(f, <<layer, role>>) = LoadLinear(Tensor(f, <<layer, role>>))
    <1>1. <<layer, role>> \in Bound(f, Config(f))
        BY DEF Bound
    <1>2. Tensor(f, <<layer, role>>).dims \in LayerShapes(Config(f), role)
        BY DEF Served, Loads, Binds
    <1>3. <<layer, role>> # Named("token_embd.weight") /\ <<layer, role>>[2] = role
        <2>1. layer # Top
            BY DEF Layers, Top
        <2>2. QED
            BY <2>1 DEF Named
    <1>4. QED
        BY <1>1, <1>2, <1>3 DEF Load

LEMMA LayerNormIs ==
    ASSUME NEW f, Served(f), NEW layer \in Layers(Config(f)),
           NEW role \in LayerRoles(Config(f)) \cap Norms,
           NEW n \in Nat, LayerShapes(Config(f), role) = Vector(n)
    PROVE  RmsNorms(Weights(f, Config(f))[<<layer, role>>], n)
    BY LayerWeightIs, WeightIs, NormIs

\* The width of the rows a linear is given.
InputOf(c, role) == CASE role = "attn_output.weight" -> QWidth(c)
                      [] role = "ffn_down.weight" -> c.feedForward
                      [] OTHER -> c.embedding

\* A layer's matrix makes rows of its other width from rows of the one.
LEMMA LayerMatrixIs ==
    ASSUME NEW f, Served(f), NEW layer \in Layers(Config(f)),
           NEW role \in LayerRoles(Config(f)) \ Norms,
           NEW out \in Nat \ {0}, InputOf(Config(f), role) \in Nat \ {0},
           LayerShapes(Config(f), role) = Matrix(InputOf(Config(f), role), out)
    PROVE  LinearRow(Weights(f, Config(f))[<<layer, role>>], InputOf(Config(f), role)) = out
    <1> DEFINE w == Weights(f, Config(f))[<<layer, role>>]
    <1>1. /\ <<layer, role>> \in Bound(f, Config(f))
          /\ Tensor(f, <<layer, role>>).dims \in Matrix(InputOf(Config(f), role), out)
          /\ w = LoadLinear(Tensor(f, <<layer, role>>)) /\ w # NotLoaded
        BY LayerWeightIs, WeightIs
    <1>2. w.kept \in {"f32", "blocks"} /\ w.amount = InputOf(Config(f), role) * out
        BY <1>1, WeightIs, MatrixHas
    <1>3. w.kept = "blocks" => InputOf(Config(f), role) % 32 = 0
        <2>1. <<layer, role>> \in DOMAIN Weights(f, Config(f)) /\ <<layer, role>>[2] = role
            BY <1>1 DEF Weights
        <2>2. QED
            BY <2>1 DEF Served, LeftToTheRequest, InputOf
    <1>4. QED
        BY <1>2, <1>3, RowIs

\* A row of heads is rotated head by head.
LEMMA RopesHeads ==
    ASSUME NEW f, Served(f), NEW heads \in Nat \ {0}
    PROVE  /\ (heads * HeadDim(Config(f))) % heads = 0
           /\ (heads * HeadDim(Config(f))) \div heads = HeadDim(Config(f))
           /\ Ropes(f, Config(f), heads * HeadDim(Config(f)), heads)
    <1> DEFINE c == Config(f)
    <1>1. PICK hd \in Nat : hd = HeadDim(c)
        BY ServedIs DEF Configured
    <1>2. PICK width \in Nat : width = heads * HeadDim(c) /\ width = hd * heads
        BY <1>1
    <1>3. width % heads = 0 /\ width \div heads = HeadDim(c)
        BY <1>1, <1>2, Divided
    <1>4. Default(c.ropeDim, width \div heads) = RopeDim(c)
        BY <1>3 DEF RopeDim
    <1>5. /\ RopeDim(c) \in 1..HeadDim(c) /\ RopeDim(c) % 2 = 0
          /\ f.ropeBaseIsSound /\ f.ropeScalingIsSound
        BY DEF Served, LeftToTheRequest, RopeDimIsSound
    <1>6. Named("rope_freqs.weight") \in TensorNames(f) =>
              Tensor(f, Named("rope_freqs.weight")).dims = <<RopeDim(c) \div 2>>
        BY TopShapesAre DEF Served, Loads, Binds, Vector
    <1>7. Ropes(f, c, width, heads)
        BY <1>3, <1>4, <1>5, <1>6 DEF Ropes
    <1>8. QED
        BY <1>2, <1>3, <1>7

\* A layer's pass asks nothing of its weights that the load has not looked at.
LEMMA LayerRuns ==
    ASSUME NEW f, Served(f), NEW layer \in Layers(Config(f))
    PROVE  ForwardLayerRuns(f, Config(f), Weights(f, Config(f)), layer)
    <1> DEFINE c == Config(f)
               W(role) == Weights(f, c)[<<layer, role>>]
    <1>1. /\ c.embedding \in Nat \ {0} /\ c.feedForward \in Nat \ {0}
          /\ QWidth(c) \in Nat \ {0} /\ KvWidth(c) \in Nat \ {0} /\ HeadDim(c) \in Nat \ {0}
          /\ c.heads \in Nat \ {0} /\ c.kvHeads \in Nat \ {0}
        BY ServedIs DEF Configured
    <1>2. ASSUME NEW role \in {"attn_norm.weight", "ffn_norm.weight"}
          PROVE  RmsNorms(W(role), c.embedding)
        <2>1. role \in LayerRoles(c) \cap Norms
            BY DEF LayerRoles, Norms
        <2>2. QED
            BY <1>1, <2>1, LayerShapesAre, LayerNormIs
    <1>3. ASSUME c.qkNorm, NEW role \in QkNorms
          PROVE  RmsNorms(W(role), HeadDim(c))
        <2>1. role \in LayerRoles(c) \cap Norms
            BY <1>3 DEF LayerRoles, Norms
        <2>2. LayerShapes(c, role) = Vector(HeadDim(c))
            BY LayerShapesAre DEF QkNorms
        <2>3. QED
            BY <1>1, <2>1, <2>2, LayerNormIs
    <1>4. ASSUME NEW role \in LayerRoles(c) \ Norms, NEW in \in Nat \ {0}, NEW out \in Nat \ {0},
                 in = InputOf(c, role), LayerShapes(c, role) = Matrix(in, out)
          PROVE  LinearRow(W(role), in) = out
        BY <1>4, LayerMatrixIs
    <1>5. LinearRow(W("attn_q.weight"), c.embedding) = QWidth(c)
        <2>1. "attn_q.weight" \in LayerRoles(c) \ Norms /\ InputOf(c, "attn_q.weight") = c.embedding
            BY DEF LayerRoles, Norms, QkNorms, InputOf
        <2>2. QED
            BY <1>1, <1>4, <2>1, LayerShapesAre
    <1>6. ASSUME NEW role \in {"attn_k.weight", "attn_v.weight"}
          PROVE  LinearRow(W(role), c.embedding) = KvWidth(c)
        <2>1. role \in LayerRoles(c) \ Norms /\ InputOf(c, role) = c.embedding
            BY DEF LayerRoles, Norms, QkNorms, InputOf
        <2>2. LayerShapes(c, role) = Matrix(c.embedding, KvWidth(c))
            BY LayerShapesAre
        <2>3. QED
            BY <1>1, <1>4, <2>1, <2>2
    <1>7. ASSUME NEW role \in {"ffn_gate.weight", "ffn_up.weight"}
          PROVE  LinearRow(W(role), c.embedding) = c.feedForward
        <2>1. role \in LayerRoles(c) \ Norms /\ InputOf(c, role) = c.embedding
            BY DEF LayerRoles, Norms, QkNorms, InputOf
        <2>2. LayerShapes(c, role) = Matrix(c.embedding, c.feedForward)
            BY LayerShapesAre
        <2>3. QED
            BY <1>1, <1>4, <2>1, <2>2
    <1>8. LinearRow(W("attn_output.weight"), QWidth(c)) = c.embedding
        <2>1. /\ "attn_output.weight" \in LayerRoles(c) \ Norms
              /\ InputOf(c, "attn_output.weight") = QWidth(c)
            BY DEF LayerRoles, Norms, QkNorms, InputOf
        <2>2. QED
            BY <1>1, <1>4, <2>1, LayerShapesAre
    <1>9. LinearRow(W("ffn_down.weight"), c.feedForward) = c.embedding
        <2>1. /\ "ffn_down.weight" \in LayerRoles(c) \ Norms
              /\ InputOf(c, "ffn_down.weight") = c.feedForward
            BY DEF LayerRoles, Norms, QkNorms, InputOf
        <2>2. QED
            BY <1>1, <1>4, <2>1, LayerShapesAre
    <1>10. /\ QWidth(c) % c.heads = 0 /\ QWidth(c) \div c.heads = HeadDim(c)
           /\ KvWidth(c) % c.kvHeads = 0 /\ KvWidth(c) \div c.kvHeads = HeadDim(c)
           /\ Ropes(f, c, QWidth(c), c.heads) /\ Ropes(f, c, KvWidth(c), c.kvHeads)
        BY <1>1, RopesHeads DEF QWidth, KvWidth
    <1>11. /\ RmsNorms(W("attn_norm.weight"), c.embedding) /\ RmsNorms(W("ffn_norm.weight"), c.embedding)
           /\ c.qkNorm => /\ RmsNorms(W("attn_q_norm.weight"), HeadDim(c))
                          /\ RmsNorms(W("attn_k_norm.weight"), HeadDim(c))
        BY <1>2, <1>3 DEF QkNorms
    <1>12. /\ LinearRow(W("attn_k.weight"), c.embedding) = KvWidth(c)
           /\ LinearRow(W("attn_v.weight"), c.embedding) = KvWidth(c)
           /\ LinearRow(W("ffn_gate.weight"), c.embedding) = c.feedForward
           /\ LinearRow(W("ffn_up.weight"), c.embedding) = c.feedForward
        BY <1>6, <1>7
    <1> HIDE DEF c, W
    <1>13. /\ QWidth(c) # Refused /\ KvWidth(c) # Refused /\ c.feedForward # Refused
           /\ KvWidth(c) <= KvWidth(c) /\ QWidth(c) <= QWidth(c)
        BY <1>1 DEF Refused
    <1>14. ForwardLayerRuns(f, c, Weights(f, c), layer)
        BY <1>5, <1>8, <1>9, <1>10, <1>11, <1>12, <1>13 DEF ForwardLayerRuns, W
    <1>15. QED
        BY <1>14 DEF c

\* The vocabulary is a number of tokens, whichever way it was found.
LEMMA VocabularyIs ==
    ASSUME NEW f, IsFile(f), Parses(f), DimsAreSound(Config(f))
    PROVE  Config(f).vocab \in Nat \ {0}
    <1>1. MetadataU32(f, "vocab_size") \in Nat \cup {NoValue}
        BY MetadataIs
    <1>2. InferredVocabSize(f, Config(f).embedding) \in Int
        <2>1. CASE Named("token_embd.weight") \notin TensorNames(f)
            BY <2>1 DEF InferredVocabSize, NoValue
        <2>2. CASE Named("token_embd.weight") \in TensorNames(f)
            <3>1. PICK dims : dims = Tensor(f, Named("token_embd.weight")).dims
                OBVIOUS
            <3>2. dims \in Seq(Int)
                <4>1. PICK i \in DOMAIN f.tensors : Tensor(f, Named("token_embd.weight")) = f.tensors[i]
                    BY <2>2 DEF TensorNames, Tensor
                <4>2. QED
                    BY <3>1, <4>1, ParsedIs DEF Sound, Descriptors
            <3>3. ASSUME Len(dims) = 2 PROVE dims[1] \in Int /\ dims[2] \in Int
                <4>1. \A i \in 1..Len(dims) : dims[i] \in Int
                    BY <3>2, ElementOfSeq
                <4>2. QED
                    BY <3>3, <4>1
            <3>4. InferredVocabSize(f, Config(f).embedding) \in {NoValue, dims[1], dims[2]}
                  /\ (Len(dims) # 2 => InferredVocabSize(f, Config(f).embedding) = NoValue)
                BY <2>2, <3>1 DEF InferredVocabSize
            <3>5. QED
                BY <3>3, <3>4 DEF NoValue
        <2>3. QED
            BY <2>1, <2>2
    <1>3. Config(f).vocab = Default(MetadataU32(f, "vocab_size"), InferredVocabSize(f, Config(f).embedding))
        BY DEF Config
    <1>4. Config(f).vocab \in Int
        BY <1>1, <1>2, <1>3 DEF Default, NoValue
    <1>5. QED
        BY <1>4 DEF DimsAreSound

\* The tokens the embedding has rows for are those of the vocabulary.
LEMMA EmbeddingIs ==
    ASSUME NEW f, Served(f)
    PROVE  LET c == Config(f)   w == Weights(f, c)[Named("token_embd.weight")] IN
           /\ \A token \in 0..(c.vocab - 1) : EmbeddingLookups(w, token)
           /\ w.shape[2] = c.embedding
    <1> DEFINE c == Config(f)
               t == Tensor(f, Named("token_embd.weight"))
               w == Weights(f, c)[Named("token_embd.weight")]
    <1>1. c.embedding \in Nat \ {0} /\ c.vocab \in Nat \ {0}
        BY ServedIs, VocabularyIs DEF Configured, Served, Loads, Binds
    <1>2. Named("token_embd.weight") \in Bound(f, c)
        BY DEF Bound, TopRoles
    <1>3. w = Load(f, Named("token_embd.weight")) /\ w # NotLoaded /\ w.shape = <<c.vocab, c.embedding>>
        BY <1>2, WeightIs DEF Served, Loads, WeightsAreSound
    <1>4. w = Normalized(LoadLinear(t))
        BY <1>3 DEF Load, Named, Norms, QkNorms
    <1>5. LoadLinear(t) # NotLoaded
        BY <1>3, <1>4 DEF Normalized
    <1>6. t.dims \in Matrix(c.embedding, c.vocab)
        <2>1. "token_embd.weight" \in TopRoles(f) \ {"rope_freqs.weight"}
            BY DEF TopRoles
        <2>2. QED
            BY <2>1, TopShapesAre DEF Served, Loads, Binds
    <1>7. /\ LoadLinear(t) = InMemory(t, LoadLinear(t).kept, c.embedding * c.vocab)
        <2>1. LoadLinear(t).amount = c.embedding * c.vocab
            BY <1>1, <1>2, <1>5, <1>6, WeightIs, MatrixHas
        <2>2. PICK kept : LoadLinear(t) = InMemory(t, kept, Elements(t))
            BY <1>2, <1>5, WeightIs, LinearHas
        <2>3. QED
            BY <2>1, <2>2 DEF InMemory
    <1>8. w.amount = c.embedding * c.vocab
        BY <1>4, <1>7 DEF Normalized, InMemory
    <1>9. c.embedding % RetainedBlock(w) = 0
        BY DEF Served, LeftToTheRequest
    <1>10. ASSUME NEW token \in 0..(c.vocab - 1) PROVE EmbeddingLookups(w, token)
        <2>1. Len(w.shape) = 2 /\ w.shape[1] = c.vocab /\ w.shape[2] = c.embedding /\ token < c.vocab
            BY <1>1, <1>3
        <2>2. (token + 1) * c.embedding <= w.amount /\ w.amount = c.vocab * c.embedding
            BY <1>1, <1>8, Products
        <2>3. QED
            BY <1>9, <2>1, <2>2 DEF EmbeddingLookups
    <1>11. w.shape[2] = c.embedding
        BY <1>3
    <1>12. QED
        BY <1>10, <1>11

\* The output projection makes a logit for every token.
LEMMA OutputIs ==
    ASSUME NEW f, Served(f)
    PROVE  LinearRow(OutputProjection(f), Config(f).embedding) = Config(f).vocab
    <1> DEFINE c == Config(f)
               role == IF Named("output.weight") \in TensorNames(f) THEN "output.weight" ELSE "token_embd.weight"
               t == Tensor(f, Named(role))
    <1>1. c.embedding \in Nat \ {0} /\ c.vocab \in Nat \ {0}
        BY ServedIs, VocabularyIs DEF Configured, Served, Loads, Binds
    <1>2. OutputProjection(f) = LoadLinear(t) /\ OutputProjection(f) # NotLoaded
        BY DEF OutputProjection, OutputName, Served, Loads, WeightsAreSound
    <1>3. role \in TopRoles(f) \ {"rope_freqs.weight"} /\ Named(role) \in Bound(f, c)
        BY DEF TopRoles, Bound
    <1>4. t.dims \in Matrix(c.embedding, c.vocab)
        BY <1>3, TopShapesAre DEF Served, Loads, Binds
    <1>5. Sound(t) /\ BlockBytes(t.type) = Layout(t.type).bytes
        BY <1>3, WeightIs
    <1>6. /\ LoadLinear(t).kept \in {"f32", "blocks"}
          /\ LoadLinear(t).amount = c.embedding * c.vocab
        BY <1>1, <1>2, <1>4, <1>5, MatrixHas
    <1>7. OutputProjection(f).kept = "blocks" => c.embedding % 32 = 0
        BY DEF Served, LeftToTheRequest
    <1>8. QED
        BY <1>1, <1>2, <1>6, <1>7, RowIs

\* A pass of any token of the vocabulary runs through every layer of a file that
\* is served: no kernel of compute.rs meets a width it refuses, whatever numbers the
\* file declares.
THEOREM ServedRuns ==
    ASSUME NEW f, Served(f), NEW tokens, tokens \subseteq 0..(Config(f).vocab - 1)
    PROVE  ForwardTokenRuns(f, tokens)
    <1> DEFINE c == Config(f)
               w == Weights(f, c)
    <1>1. /\ \A token \in tokens : EmbeddingLookups(w[Named("token_embd.weight")], token)
          /\ w[Named("token_embd.weight")].shape[2] = c.embedding
        BY EmbeddingIs
    <1>2. \A layer \in Layers(c) : ForwardLayerRuns(f, c, w, layer)
        BY LayerRuns
    <1>3. RmsNorms(w[Named("output_norm.weight")], c.embedding)
        <2>1. Named("output_norm.weight") \in Bound(f, c)
            BY DEF Bound, TopRoles
        <2>2. w[Named("output_norm.weight")] = LoadCpuF32(Tensor(f, Named("output_norm.weight")))
            BY <2>1, WeightIs DEF Load, Named, Norms
        <2>3. Tensor(f, Named("output_norm.weight")).dims \in Vector(c.embedding)
            <3>1. "output_norm.weight" \in TopRoles(f) \ {"rope_freqs.weight"}
                BY DEF TopRoles
            <3>2. QED
                BY <3>1, TopShapesAre DEF Served, Loads, Binds
        <2>4. QED
            BY <2>1, <2>2, <2>3, WeightIs, NormIs, ServedIs DEF Configured
    <1>4. LinearRow(OutputProjection(f), c.embedding) = c.vocab
        BY OutputIs
    <1> HIDE DEF c, w
    <1>5. w = Weights(f, Config(f)) /\ c = Config(f)
        BY DEF c, w
    <1>6. QED
        BY <1>1, <1>2, <1>3, <1>4, <1>5 DEF ForwardTokenRuns

-----------------------------------------------------------------------------
(* The invariant. *)

IsASequence(s) == s \in Seq({s[i] : i \in DOMAIN s})
WithModel == {"loaded", "encoded", "forward", "sample", "completed", "cancelled"}
Generating == {"forward", "sample", "completed", "cancelled"}

\* What a generation works on is what was loaded and encoded.
ModelIsLoaded ==
    /\ phase \in WithModel =>
           file \in Files /\ ModelLoads(file) /\ tokenizer = FromGguf(file.tokenizer)
    /\ phase \in WithModel \ {"loaded"} => asked.ids \in Seq(Ids(tokenizer))
    /\ phase \in {"idle", "loaded", "encoded"} => output = NoOutput

\* A pass for each token but the last, which a budget and a context leave room for.
PassesAreCounted ==
    phase \in Generating =>
        /\ DOMAIN output = {"budget", "generated", "pieces", "passes", "stop"}
        /\ output.generated \in Seq(Ids(tokenizer)) /\ IsASequence(output.pieces)
        /\ Len(output.pieces) = Len(output.generated)
        /\ output.budget \in Nat /\ RequestFits(output.budget) /\ PlanIsSound(Config(file))
        /\ cache.position \in Nat /\ output.passes = cache.position
        /\ phase = "forward" => /\ cache.position < Len(asked.ids) + Len(output.generated)
                                /\ Len(output.generated) < output.budget
        /\ phase = "sample" => /\ cache.position = Len(asked.ids) + Len(output.generated)
                               /\ Len(output.generated) < output.budget
        /\ phase \in {"completed", "cancelled"} =>
               cache.position = 0 \/ cache.position = Len(asked.ids) + Len(output.generated) - 1

\* A cache of so many positions, the first of them written.
IsCache(g, c) ==
    /\ DOMAIN c = {"keys", "values", "allocated", "position"}
    /\ c.allocated \in Nat /\ c.position \in Nat /\ c.position <= c.allocated
    /\ IsASequence(c.keys) /\ Len(c.keys) = c.allocated * PositionStride(g)
    /\ IsASequence(c.values) /\ Len(c.values) = c.allocated * PositionStride(g)

\* The element of a head's row.
PlaceOf(g, position, layer, kvHead, d) == Offset(g, layer, position, kvHead) + d + 1

\* Every position so far is written, by every layer and head, of its own token.
CacheIsWritten ==
    phase \in Generating =>
        LET g == Geometry IN
        /\ IsCache(g, cache)
        /\ \A p \in 0..(cache.position - 1), l \in 0..(g.layers - 1),
             h \in 0..(g.kvHeads - 1), d \in 0..(g.headDim - 1) :
                /\ cache.keys[PlaceOf(g, p, l, h, d)] = Key(g, Sequence[p + 1], l, p, h, d)
                /\ cache.values[PlaceOf(g, p, l, h, d)] = Val(g, Sequence[p + 1], l, p, h, d)

\* A pass that was made turned every place of a head once.
RotationIsSound ==
    phase \in Generating /\ cache.position > 0 => RopeDimIsSound(Config(file))

EngineInv == ModelIsLoaded /\ PassesAreCounted /\ CacheIsWritten /\ RotationIsSound

-----------------------------------------------------------------------------
(* Sequences. *)

\* A sequence, whatever it is a sequence of.
LEMMA SequenceOf ==
    ASSUME NEW S, NEW s \in Seq(S)
    PROVE  /\ IsASequence(s)
           /\ \A e : IsASequence(Append(s, e)) /\ Len(Append(s, e)) = Len(s) + 1
           /\ Len(s) \in Nat
    <1>1. ASSUME NEW T, NEW u \in Seq(T) PROVE IsASequence(u)
        <2>1. Len(u) \in Nat /\ DOMAIN u = 1..Len(u) /\ u = [i \in 1..Len(u) |-> u[i]]
            BY <1>1
        <2>2. u \in [1..Len(u) -> {u[i] : i \in DOMAIN u}]
            BY <2>1
        <2>3. QED
            BY <2>1, <2>2, SMTT(30) DEF IsASequence
    <1>2. ASSUME NEW e PROVE IsASequence(Append(s, e)) /\ Len(Append(s, e)) = Len(s) + 1
        <2>1. s \in Seq(S \cup {e}) /\ Append(s, e) \in Seq(S \cup {e})
            <3>1. s \in Seq(S \cup {e})
                BY SeqMonotonic
            <3>2. QED
                BY <3>1
        <2>2. IsASequence(Append(s, e))
            BY <1>1, <2>1
        <2>3. Len(Append(s, e)) = Len(s) + 1
            BY <2>1
        <2>4. QED
            BY <2>2, <2>3
    <1>3. QED
        BY <1>1, <1>2

LEMMA Appended ==
    ASSUME NEW s, IsASequence(s), NEW e
    PROVE  IsASequence(Append(s, e)) /\ Len(Append(s, e)) = Len(s) + 1 /\ Len(s) \in Nat
    <1>1. PICK S : s \in Seq(S)
        BY DEF IsASequence
    <1>2. QED
        BY <1>1, SequenceOf

\* What is appended changes nothing before it.
LEMMA AppendedAfter ==
    ASSUME NEW S, NEW a \in Seq(S), NEW b \in Seq(S), NEW e \in S, NEW i \in 1..(Len(a) + Len(b))
    PROVE  (a \o Append(b, e))[i] = (a \o b)[i]
    <1>1. /\ Append(b, e) \in Seq(S) /\ Len(Append(b, e)) = Len(b) + 1
          /\ \A k \in 1..Len(b) : Append(b, e)[k] = b[k]
        BY AppendProperties
    <1>2. PICK n \in Nat, m \in Nat : n = Len(a) /\ m = Len(b)
        OBVIOUS
    <1>3. CASE i <= n
        <2>1. i \in 1..n /\ i \in 1..(n + m)
            BY <1>2, <1>3
        <2>2. (a \o b)[i] = a[i] /\ (a \o Append(b, e))[i] = a[i]
            BY <1>1, <1>2, <2>1
        <2>3. QED
            BY <2>2
    <1>4. CASE ~(i <= n)
        <2>1. i \in 1..(n + m) /\ i > n /\ i - n \in 1..m
            BY <1>2, <1>4
        <2>2. (a \o b)[i] = b[i - n] /\ (a \o Append(b, e))[i] = Append(b, e)[i - n]
            BY <1>1, <1>2, <2>1
        <2>3. QED
            BY <1>1, <1>2, <2>1, <2>2
    <1>5. QED
        BY <1>3, <1>4

\* A function from 1..n is a sequence of that length.
LEMMA FunctionIsASequence ==
    ASSUME NEW n \in Nat, NEW s, s = [i \in 1..n |-> s[i]]
    PROVE  IsASequence(s) /\ Len(s) = n
    <1>1. \A i \in 1..n : s[i] \in {s[j] : j \in 1..n}
        OBVIOUS
    <1>2. s \in Seq({s[j] : j \in 1..n})
        BY <1>1, IsASeq
    <1>3. DOMAIN s = 1..n
        OBVIOUS
    <1>4. Len(s) \in Nat /\ 1..Len(s) = 1..n
        BY <1>2, <1>3
    <1>5. Len(s) = n
        BY <1>4
    <1>6. QED
        BY <1>2, <1>3, <1>5 DEF IsASequence

\* What a head reads of a row of the cache.
LEMMA RowHas ==
    ASSUME NEW cells, IsASequence(cells), NEW from \in Nat, NEW width \in Nat,
           from + width <= Len(cells), NEW d \in 1..width
    PROVE  SubSeq(cells, from + 1, from + width)[d] = cells[from + d]
    <1>1. PICK S : cells \in Seq(S)
        BY DEF IsASequence
    <1>2. SubSeq(cells, from + 1, from + width) =
              [i \in 1..((from + width) - (from + 1) + 1) |-> cells[(from + 1) + i - 1]]
        BY <1>1, SubSeqProperties
    <1>3. d \in 1..((from + width) - (from + 1) + 1) /\ (from + 1) + d - 1 = from + d
        OBVIOUS
    <1>4. QED
        BY <1>2, <1>3

-----------------------------------------------------------------------------
(* The places of the cache. *)

IsGeometry(g) ==
    /\ g.layers \in Nat \ {0} /\ g.kvHeads \in Nat \ {0} /\ g.headDim \in Nat \ {0}
    /\ g.heads \in Nat \ {0} /\ g.heads % g.kvHeads = 0 /\ g.context \in Nat

\* A place is one digit after the other: head dimension, head, layer, position.
LEMMA PlaceIs ==
    ASSUME NEW g, IsGeometry(g), NEW p \in Nat, NEW l \in 0..(g.layers - 1),
           NEW h \in 0..(g.kvHeads - 1)
    PROVE  /\ p * g.layers + l \in Nat /\ (p * g.layers + l) * g.kvHeads + h \in Nat
           /\ Offset(g, l, p, h) \in Nat
           /\ Offset(g, l, p, h) = ((p * g.layers + l) * g.kvHeads + h) * g.headDim
    <1>1. PICK L \in Nat, H \in Nat, D \in Nat : L = g.layers /\ H = g.kvHeads /\ D = g.headDim
        BY DEF IsGeometry
    <1>2. PICK a \in Nat : a = p * L + l
        BY <1>1, Products
    <1>3. PICK b \in Nat : b = a * H + h
        BY <1>1, <1>2, Products
    <1>4. b * D \in Nat
        BY <1>1, <1>3, Products
    <1>5. QED
        BY <1>1, <1>2, <1>3, <1>4 DEF Offset

LayersOf(g) == 0..(g.layers - 1)
HeadsOf(g) == 0..(g.kvHeads - 1)
PlacesOf(g) == 0..(g.headDim - 1)

\* Two rows of the cache have no place in common.
LEMMA PlacesAreApart ==
    ASSUME NEW g, IsGeometry(g), NEW p \in Nat, NEW q \in Nat,
           NEW l \in LayersOf(g), NEW m \in LayersOf(g), NEW h \in HeadsOf(g), NEW k \in HeadsOf(g),
           NEW d \in PlacesOf(g), NEW e \in PlacesOf(g),
           PlaceOf(g, p, l, h, d) = PlaceOf(g, q, m, k, e)
    PROVE  p = q /\ l = m /\ h = k /\ d = e
    <1>1. PICK L \in Nat, H \in Nat, D \in Nat : L = g.layers /\ H = g.kvHeads /\ D = g.headDim
        BY DEF IsGeometry
    <1>0. /\ l \in 0..(L - 1) /\ m \in 0..(L - 1) /\ h \in 0..(H - 1) /\ k \in 0..(H - 1)
          /\ d \in 0..(D - 1) /\ e \in 0..(D - 1)
        BY <1>1 DEF LayersOf, HeadsOf, PlacesOf
    <1>2. PICK a \in Nat, b \in Nat : a = p * L + l /\ b = q * L + m
        BY <1>0, <1>1, PlaceIs
    <1>3. PICK r \in Nat, s \in Nat : r = a * H + h /\ s = b * H + k
        BY <1>0, <1>1, <1>2, PlaceIs
    <1>4. r * D \in Nat /\ s * D \in Nat /\ r * D + d = s * D + e
        <2>1. Offset(g, l, p, h) = r * D /\ Offset(g, m, q, k) = s * D
            BY <1>1, <1>2, <1>3 DEF Offset
        <2>2. r * D \in Nat /\ s * D \in Nat
            BY <1>1, <1>3, Products
        <2>3. (r * D + d) + 1 = (s * D + e) + 1
            BY <2>1 DEF PlaceOf
        <2>4. PICK rD \in Nat, sD \in Nat : rD = r * D /\ sD = s * D
            BY <2>2
        <2>5. d \in Int /\ e \in Int
            BY <1>0
        <2>6. rD + d = sD + e
            BY <2>3, <2>4, <2>5
        <2>7. QED
            BY <2>4, <2>6
    <1>5. r = s /\ d = e
        BY <1>0, <1>4, Digits
    <1>6. a = b /\ h = k
        <2>1. a * H + h = b * H + k
            BY <1>3, <1>5
        <2>2. H \in Nat /\ h \in 0..(H - 1) /\ k \in 0..(H - 1)
            BY <1>0, <1>1
        <2>3. QED
            BY <2>1, <2>2, Digits
    <1>7. p = q /\ l = m
        BY <1>0, <1>2, <1>6, Digits
    <1>8. QED
        BY <1>5, <1>6, <1>7

\* The places of a position are among those of so many positions.
LEMMA PlaceFits ==
    ASSUME NEW g, IsGeometry(g), NEW n \in Nat, NEW p \in 0..(n - 1),
           NEW l \in 0..(g.layers - 1), NEW h \in 0..(g.kvHeads - 1)
    PROVE  /\ Offset(g, l, p, h) + g.headDim <= n * PositionStride(g)
           /\ n * PositionStride(g) \in Nat
           /\ \A d \in 0..(g.headDim - 1) : PlaceOf(g, p, l, h, d) \in 1..(n * PositionStride(g))
    <1>1. PICK L \in Nat, H \in Nat, D \in Nat : L = g.layers /\ H = g.kvHeads /\ D = g.headDim
        BY DEF IsGeometry
    <1>2. PICK a \in Nat : a = p * L + l /\ a < n * L
        <2>1. p \in Nat /\ p < n
            OBVIOUS
        <2>2. p * L \in Nat /\ p * L + L <= n * L /\ n * L \in Nat
            BY <1>1, <2>1, Products
        <2>3. l < L /\ l \in Nat
            BY <1>1
        <2>4. PICK pl \in Nat, nl \in Nat : pl = p * L /\ nl = n * L
            BY <2>2
        <2>5. QED
            BY <1>1, <2>2, <2>3, <2>4
    <1>3. PICK N \in Nat : N = n * L
        BY <1>1, Products
    <1>4. PICK b \in Nat : b = a * H + h /\ b < N * H
        <2>1. a * H \in Nat /\ a * H + H <= N * H /\ N * H \in Nat
            BY <1>1, <1>2, <1>3, Products
        <2>2. QED
            BY <1>1, <1>2, <2>1
    <1>5. PICK M \in Nat : M = N * H
        BY <1>1, <1>3, Products
    <1>6. b * D \in Nat /\ b * D + D <= M * D /\ M * D \in Nat
        BY <1>1, <1>4, <1>5, Products
    <1>7. M * D = n * PositionStride(g)
        <2>1. PositionStride(g) = L * H * D
            BY <1>1 DEF PositionStride
        <2>2. n * ((L * H) * D) = (n * (L * H)) * D /\ n * (L * H) = (n * L) * H
            <3>1. \A x, y, z \in Nat : x * (y * z) = (x * y) * z
                OBVIOUS
            <3>2. L * H \in Nat
                BY <1>1, Products
            <3>3. QED
                BY <1>1, <3>1, <3>2
        <2>3. QED
            BY <1>3, <1>5, <2>1, <2>2
    <1>8. Offset(g, l, p, h) = b * D
        BY <1>1, <1>2, <1>4 DEF Offset
    <1>9. QED
        BY <1>1, <1>6, <1>7, <1>8 DEF PlaceOf

-----------------------------------------------------------------------------
(* A pass. *)

\* A pass writes the rows of its position, each once, and no other.
LEMMA RowsHave ==
    ASSUME NEW g, IsGeometry(g), NEW n \in Nat, NEW position \in 0..(n - 1), NEW elements,
           NEW cells, IsASequence(cells), Len(cells) = n * PositionStride(g)
    PROVE  LET rows == Rows(g, cells, position, elements) IN
           /\ IsASequence(rows) /\ Len(rows) = n * PositionStride(g)
           /\ \A p \in 0..(n - 1), l \in 0..(g.layers - 1), h \in 0..(g.kvHeads - 1),
                d \in 0..(g.headDim - 1) :
                 rows[PlaceOf(g, p, l, h, d)] = IF p = position THEN elements[l][h][d]
                                                           ELSE cells[PlaceOf(g, p, l, h, d)]
    <1> DEFINE Of(layer, kvHead) == Offset(g, layer, position, kvHead)
               Written(i) == {r \in (0..(g.layers - 1)) \X (0..(g.kvHeads - 1)) :
                                 i - 1 - Of(r[1], r[2]) \in 0..(g.headDim - 1)}
               Latest(rows) == CHOOSE r \in rows :
                                   \A s \in rows : s[1] < r[1] \/ (s[1] = r[1] /\ s[2] <= r[2])
               rows == Rows(g, cells, position, elements)
    <1>1. rows = [i \in DOMAIN cells |->
                     IF Written(i) = {} THEN cells[i]
                     ELSE elements[Latest(Written(i))[1]][Latest(Written(i))[2]]
                                  [i - 1 - Of(Latest(Written(i))[1], Latest(Written(i))[2])]]
        BY DEF Rows
    <1>2. Len(cells) \in Nat /\ DOMAIN cells = 1..Len(cells) /\ position \in Nat
        BY DEF IsASequence
    <1> HIDE DEF rows, Written, Latest, Of
    <1>3. IsASequence(rows) /\ Len(rows) = n * PositionStride(g)
        <2>1. rows = [i \in 1..Len(cells) |-> rows[i]]
            BY <1>1, <1>2
        <2>2. QED
            BY <1>2, <2>1, FunctionIsASequence
    <1>4. ASSUME NEW i \in DOMAIN cells
          PROVE  /\ Written(i) = {} => rows[i] = cells[i]
                 /\ \A l \in 0..(g.layers - 1), h \in 0..(g.kvHeads - 1) :
                       Written(i) = {<<l, h>>} => rows[i] = elements[l][h][i - 1 - Of(l, h)]
        <2>1. Written(i) = {} => rows[i] = cells[i]
            BY <1>1
        <2>2. ASSUME NEW l \in 0..(g.layers - 1), NEW h \in 0..(g.kvHeads - 1), Written(i) = {<<l, h>>}
              PROVE  rows[i] = elements[l][h][i - 1 - Of(l, h)]
            <3>1. Latest({<<l, h>>}) = <<l, h>>
                BY DEF Latest
            <3>2. /\ Written(i) # {} /\ Latest(Written(i))[1] = l /\ Latest(Written(i))[2] = h
                BY <2>2, <3>1
            <3>3. QED
                BY <1>1, <3>2
        <2>3. QED
            BY <2>1, <2>2
    <1>5. ASSUME NEW p \in 0..(n - 1), NEW l \in 0..(g.layers - 1), NEW h \in 0..(g.kvHeads - 1),
                 NEW d \in 0..(g.headDim - 1)
          PROVE  rows[PlaceOf(g, p, l, h, d)] = IF p = position THEN elements[l][h][d]
                                                           ELSE cells[PlaceOf(g, p, l, h, d)]
        <2>1. PICK i \in DOMAIN cells : i = PlaceOf(g, p, l, h, d) /\ i \in Nat
            BY <1>2, PlaceFits
        <2>2. ASSUME NEW r \in Written(i)
              PROVE  p = position /\ r = <<l, h>>
            <3>1. PICK m \in 0..(g.layers - 1), k \in 0..(g.kvHeads - 1) : r = <<m, k>>
                BY <2>2 DEF Written
            <3>2. PICK e \in 0..(g.headDim - 1) : e = i - 1 - Of(m, k)
                BY <2>2, <3>1 DEF Written
            <3>3. PICK o \in Nat : o = Offset(g, m, position, k)
                BY <1>2, PlaceIs
            <3>4. i = o + e + 1
                <4>1. Of(m, k) = o /\ e \in Int
                    BY <3>3 DEF Of, IsGeometry
                <4>2. QED
                    BY <2>1, <3>2, <4>1, SMTT(30)
            <3>5. p \in Nat /\ PlaceOf(g, p, l, h, d) = PlaceOf(g, position, m, k, e)
                BY <2>1, <3>3, <3>4 DEF PlaceOf
            <3>6. p = position /\ l = m /\ h = k
                <4>1. /\ l \in LayersOf(g) /\ m \in LayersOf(g) /\ h \in HeadsOf(g)
                      /\ k \in HeadsOf(g) /\ d \in PlacesOf(g) /\ e \in PlacesOf(g)
                    BY DEF LayersOf, HeadsOf, PlacesOf
                <4>2. position \in Nat /\ p \in Nat
                    BY <1>2, <3>5
                <4>3. QED
                    BY <3>5, <4>1, <4>2, PlacesAreApart, SMTT(60)
            <3>7. QED
                BY <3>1, <3>6
        <2>3. CASE p # position
            <3>1. Written(i) = {}
                BY <2>2, <2>3
            <3>2. rows[i] = cells[i]
                BY <1>4, <3>1
            <3>3. QED
                BY <2>1, <2>3, <3>2
        <2>4. CASE p = position
            <3>1. PICK o \in Nat : o = Offset(g, l, position, h)
                BY <1>2, PlaceIs
            <3>2. i - 1 - Of(l, h) = d
                <4>1. Of(l, h) = o /\ d \in Int /\ i = o + d + 1
                    BY <2>1, <2>4, <3>1 DEF PlaceOf, Of, IsGeometry
                <4>2. QED
                    BY <4>1
            <3>3. <<l, h>> \in Written(i)
                BY <3>2 DEF Written
            <3>4. Written(i) = {<<l, h>>}
                BY <2>2, <3>3
            <3>5. rows[i] = elements[l][h][i - 1 - Of(l, h)]
                BY <1>4, <3>4
            <3>6. QED
                BY <2>1, <2>4, <3>2, <3>5
        <2>5. QED
            BY <2>3, <2>4
    <1>6. QED
        BY <1>3, <1>5 DEF rows

\* The cache is grown, with what was written kept, to hold one more position.
LEMMA RoomIs ==
    ASSUME NEW g, IsGeometry(g), NEW c, IsCache(g, c), CanAppend(g, c)
    PROVE  LET room == EnsurePositionCapacity(g, c, c.position + 1) IN
           /\ IsCache(g, room) /\ room.position = c.position /\ c.position + 1 <= room.allocated
           /\ \A p \in 0..(c.position - 1), l \in 0..(g.layers - 1), h \in 0..(g.kvHeads - 1),
                d \in 0..(g.headDim - 1) :
                 /\ room.keys[PlaceOf(g, p, l, h, d)] = c.keys[PlaceOf(g, p, l, h, d)]
                 /\ room.values[PlaceOf(g, p, l, h, d)] = c.values[PlaceOf(g, p, l, h, d)]
    <1> DEFINE room == EnsurePositionCapacity(g, c, c.position + 1)
               target == Smaller(Larger(Larger(c.position + 1, 2 * c.allocated), GrowChunk), g.context)
               Resized(cells) == [i \in 1..(target * PositionStride(g)) |->
                                     IF i \in DOMAIN cells THEN cells[i] ELSE Empty]
    <1>1. CASE c.position + 1 <= c.allocated
        <2>1. room = c
            BY <1>1 DEF EnsurePositionCapacity
        <2>2. QED
            BY <1>1, <2>1
    <1>2. CASE ~(c.position + 1 <= c.allocated)
        <2>1. target \in Nat /\ c.position + 1 <= target
            <3>1. PICK p \in Nat, a \in Nat, max \in Nat :
                      p = c.position /\ a = c.allocated /\ max = g.context /\ p < max
                BY DEF IsCache, IsGeometry, CanAppend
            <3>2. ASSUME NEW u \in Nat, NEW v \in Nat
                  PROVE  Larger(u, v) \in Nat /\ u <= Larger(u, v)
                BY DEF Larger
            <3>3. PICK u \in Nat : u = Larger(p + 1, 2 * a) /\ p + 1 <= u
                <4>1. p + 1 \in Nat /\ 2 * a \in Nat
                    OBVIOUS
                <4>2. QED
                    BY <3>2, <4>1
            <3>4. PICK v \in Nat : v = Larger(u, GrowChunk) /\ p + 1 <= v
                <4>1. Larger(u, GrowChunk) \in Nat /\ u <= Larger(u, GrowChunk)
                    BY <3>2, GrowAssumption
                <4>2. QED
                    BY <3>3, <4>1
            <3>5. Smaller(v, max) \in Nat /\ p + 1 <= Smaller(v, max)
                BY <3>1, <3>4 DEF Smaller
            <3>6. target = Smaller(v, max)
                BY <3>1, <3>3, <3>4
            <3>7. QED
                BY <3>1, <3>5, <3>6
        <2>2. room = [c EXCEPT !.keys = Resized(c.keys), !.values = Resized(c.values), !.allocated = target]
            BY <1>2 DEF EnsurePositionCapacity
        <2>3. PICK size \in Nat : size = target * PositionStride(g)
            <3>1. c.position \in 0..(target - 1) /\ 0 \in 0..(g.layers - 1) /\ 0 \in 0..(g.kvHeads - 1)
                BY <2>1, SMTT(30) DEF IsCache, IsGeometry
            <3>2. QED
                BY <2>1, <3>1, PlaceFits
        <2> HIDE DEF target
        <2>4. ASSUME NEW cells
              PROVE  IsASequence(Resized(cells)) /\ Len(Resized(cells)) = target * PositionStride(g)
            BY <2>3, FunctionIsASequence
        <2>5. ASSUME NEW cells, IsASequence(cells), Len(cells) = c.allocated * PositionStride(g),
                     NEW p \in 0..(c.position - 1), NEW l \in 0..(g.layers - 1),
                     NEW h \in 0..(g.kvHeads - 1), NEW d \in 0..(g.headDim - 1)
              PROVE  Resized(cells)[PlaceOf(g, p, l, h, d)] = cells[PlaceOf(g, p, l, h, d)]
            <3>1. p \in 0..(c.allocated - 1) /\ p \in 0..(target - 1) /\ c.allocated \in Nat
                BY <2>1 DEF IsCache
            <3>2. /\ PlaceOf(g, p, l, h, d) \in 1..(target * PositionStride(g))
                  /\ PlaceOf(g, p, l, h, d) \in 1..(c.allocated * PositionStride(g))
                BY <2>1, <3>1, PlaceFits
            <3>3. DOMAIN cells = 1..(c.allocated * PositionStride(g))
                BY <2>5 DEF IsASequence
            <3>4. QED
                BY <3>2, <3>3
        <2> HIDE DEF Resized, room
        <2>6. /\ DOMAIN room = {"keys", "values", "allocated", "position"}
              /\ room.keys = Resized(c.keys) /\ room.values = Resized(c.values)
              /\ room.allocated = target /\ room.position = c.position
            BY <2>2 DEF IsCache
        <2>7. IsCache(g, room)
            BY <2>1, <2>4, <2>6 DEF IsCache
        <2>8. \A p \in 0..(c.position - 1), l \in 0..(g.layers - 1), h \in 0..(g.kvHeads - 1),
                d \in 0..(g.headDim - 1) :
                 /\ room.keys[PlaceOf(g, p, l, h, d)] = c.keys[PlaceOf(g, p, l, h, d)]
                 /\ room.values[PlaceOf(g, p, l, h, d)] = c.values[PlaceOf(g, p, l, h, d)]
            BY <2>5, <2>6 DEF IsCache
        <2>9. QED
            BY <2>1, <2>6, <2>7, <2>8 DEF room
    <1>3. QED
        BY <1>1, <1>2

\* A pass adds, at its position, the keys and values of its token.
LEMMA ForwardedIs ==
    ASSUME NEW g, IsGeometry(g), NEW c, IsCache(g, c), CanAppend(g, c), NEW token
    PROVE  LET n == Forwarded(g, c, token) IN
           /\ IsCache(g, n) /\ n.position = c.position + 1
           /\ \A p \in 0..c.position, l \in 0..(g.layers - 1), h \in 0..(g.kvHeads - 1),
                d \in 0..(g.headDim - 1) :
                 /\ n.keys[PlaceOf(g, p, l, h, d)] =
                        IF p = c.position THEN Key(g, token, l, p, h, d) ELSE c.keys[PlaceOf(g, p, l, h, d)]
                 /\ n.values[PlaceOf(g, p, l, h, d)] =
                        IF p = c.position THEN Val(g, token, l, p, h, d) ELSE c.values[PlaceOf(g, p, l, h, d)]
    <1> DEFINE q == c.position
               layers == 0..(g.layers - 1)
               kvHeads == 0..(g.kvHeads - 1)
               ds == 0..(g.headDim - 1)
               keys == [l \in layers |-> [h \in kvHeads |-> [d \in ds |-> Key(g, token, l, q, h, d)]]]
               values == [l \in layers |-> [h \in kvHeads |-> [d \in ds |-> Val(g, token, l, q, h, d)]]]
               room == EnsurePositionCapacity(g, c, q + 1)
               n == Forwarded(g, c, token)
    <1>1. n = [room EXCEPT !.keys = Rows(g, room.keys, q, keys), !.values = Rows(g, room.values, q, values),
                           !.position = q + 1]
        BY DEF Forwarded
    <1>2. /\ IsCache(g, room) /\ room.position = q /\ q + 1 <= room.allocated
          /\ \A p \in 0..(q - 1), l \in layers, h \in kvHeads, d \in ds :
                 /\ room.keys[PlaceOf(g, p, l, h, d)] = c.keys[PlaceOf(g, p, l, h, d)]
                 /\ room.values[PlaceOf(g, p, l, h, d)] = c.values[PlaceOf(g, p, l, h, d)]
        BY RoomIs
    <1>3. q \in Nat
        BY DEF IsCache
    <1>4. \A l \in layers, h \in kvHeads, d \in ds :
              keys[l][h][d] = Key(g, token, l, q, h, d) /\ values[l][h][d] = Val(g, token, l, q, h, d)
        OBVIOUS
    <1> HIDE DEF room, keys, values, n
    <1>5. ASSUME NEW cells, IsASequence(cells), Len(cells) = room.allocated * PositionStride(g), NEW elements
          PROVE  /\ IsASequence(Rows(g, cells, q, elements))
                 /\ Len(Rows(g, cells, q, elements)) = room.allocated * PositionStride(g)
                 /\ \A p \in 0..q, l \in layers, h \in kvHeads, d \in ds :
                       Rows(g, cells, q, elements)[PlaceOf(g, p, l, h, d)] =
                          IF p = q THEN elements[l][h][d] ELSE cells[PlaceOf(g, p, l, h, d)]
        <2>1. room.allocated \in Nat /\ q \in 0..(room.allocated - 1) /\ 0..q \subseteq 0..(room.allocated - 1)
            BY <1>2, <1>3 DEF IsCache
        <2>2. QED
            BY <1>5, <2>1, RowsHave
    <1>6. /\ DOMAIN n = {"keys", "values", "allocated", "position"}
          /\ n.keys = Rows(g, room.keys, q, keys) /\ n.values = Rows(g, room.values, q, values)
          /\ n.allocated = room.allocated /\ n.position = q + 1
        BY <1>1, <1>2 DEF IsCache
    <1>7. IsCache(g, n)
        BY <1>2, <1>3, <1>5, <1>6 DEF IsCache
    <1>8. ASSUME NEW p \in 0..q, NEW l \in layers, NEW h \in kvHeads, NEW d \in ds
          PROVE  /\ n.keys[PlaceOf(g, p, l, h, d)] =
                        IF p = q THEN Key(g, token, l, p, h, d) ELSE c.keys[PlaceOf(g, p, l, h, d)]
                 /\ n.values[PlaceOf(g, p, l, h, d)] =
                        IF p = q THEN Val(g, token, l, p, h, d) ELSE c.values[PlaceOf(g, p, l, h, d)]
        <2>1. /\ n.keys[PlaceOf(g, p, l, h, d)] =
                        IF p = q THEN keys[l][h][d] ELSE room.keys[PlaceOf(g, p, l, h, d)]
              /\ n.values[PlaceOf(g, p, l, h, d)] =
                        IF p = q THEN values[l][h][d] ELSE room.values[PlaceOf(g, p, l, h, d)]
            BY <1>2, <1>5, <1>6 DEF IsCache
        <2>2. CASE p = q
            BY <1>4, <2>1, <2>2
        <2>3. CASE p # q
            <3>1. p \in 0..(q - 1)
                BY <1>3, <2>3
            <3>2. QED
                BY <1>2, <2>1, <2>3, <3>1
        <2>4. QED
            BY <2>2, <2>3
    <1>9. QED
        BY <1>6, <1>7, <1>8 DEF n

\* Whatever its blocks are taken to be, no more is read of a matrix than its shape says.
LEMMA DecodedAtMost ==
    ASSUME NEW t, Sound(t), DecodedLength(t.type, NBytes(t), Elements(t)) # Refused
    PROVE  DecodedLength(t.type, NBytes(t), Elements(t)) \in 0..Elements(t)
    <1>1. CASE BlockBytes(t.type) = Layout(t.type).bytes
        <2>1. Elements(t) \in Nat
            BY ElementsAre
        <2>2. QED
            BY <1>1, <2>1, EveryValueIsDecoded
    <1>2. CASE BlockBytes(t.type) # Layout(t.type).bytes
        <2>1. t.type = "Q5_1" /\ BlockBytes(t.type) = 24
            BY <1>2 DEF BlockBytes
        <2>2. Layout(t.type).elements = 32 /\ Layout(t.type).bytes = 22
              /\ DOMAIN Layout(t.type) = {"elements", "bytes"}
            <3>1. t.type \in TensorTypes /\ Layout(t.type) # NoLayout
                BY DEF Sound, Descriptors
            <3>2. Layout("Q5_1").elements = 32
                BY DEF Layout
            <3>3. Layout("Q5_1").bytes = 22
                BY DEF Layout
            <3>4. QED
                BY <2>1, <3>1, <3>2, <3>3, LayoutIs
        <2>3. PICK e \in Nat, k \in Nat : e = Elements(t) /\ e = 32 * k /\ k = e \div 32
            BY <2>2, ElementsAre
        <2>4. NBytes(t) = 22 * k
            BY <2>2, <2>3 DEF NBytes
        <2>5. DecodedLength(t.type, NBytes(t), Elements(t)) = ((22 * k) \div 24) * 32
            BY <2>1, <2>2, <2>4 DEF DecodedLength, Refused
        <2>6. QED
            BY <2>3, <2>5
    <1>3. QED
        BY <1>1, <1>2

LEMMA LinearAtMost ==
    ASSUME NEW t, Sound(t), LoadLinear(t) # NotLoaded
    PROVE  LoadLinear(t).amount \in 0..Elements(t)
    <1>1. CASE t.type = "Q8_0" /\ Len(t.dims) = 2
        BY <1>1, DecodedAtMost DEF LoadLinear, OrNotLoaded, InMemory
    <1>2. CASE ~(t.type = "Q8_0" /\ Len(t.dims) = 2)
        BY <1>2, DecodedAtMost DEF LoadLinear, LoadCpuF32, OrNotLoaded, InMemory
    <1>3. QED
        BY <1>1, <1>2

\* A pass that runs rotates heads of the width the configuration says.
LEMMA PassRotates ==
    ASSUME NEW f, IsFile(f), Loads(f), PlanIsSound(Config(f)), NEW tokens, ForwardTokenRuns(f, tokens)
    PROVE  RopeDimIsSound(Config(f))
    <1> DEFINE c == Config(f)
               t == Tensor(f, <<0, "attn_q.weight">>)
               w == Weights(f, c)[<<0, "attn_q.weight">>]
               q == LinearRow(w, c.embedding)
    <1>1. /\ Configured(c) /\ 0 \in Layers(c)
          /\ HeadDim(c) > 0
        BY ConfigIs DEF Loads, Binds, PlanIsSound, Layers, Configured
    <1>2. <<0, "attn_q.weight">> \in Bound(f, c) /\ <<0, "attn_q.weight">> \in TensorNames(f)
          /\ "attn_q.weight" \in LayerRoles(c)
        BY <1>1 DEF Loads, Binds, Bound, LayerRoles
    <1>3. w = LoadLinear(t) /\ w # NotLoaded
        <2>1. <<0, "attn_q.weight">> # Named("token_embd.weight") /\ "attn_q.weight" \notin Norms
            BY DEF Named, Norms, QkNorms
        <2>2. Weights(f, c)[<<0, "attn_q.weight">>] = Load(f, <<0, "attn_q.weight">>)
              /\ <<0, "attn_q.weight">> \in DOMAIN Weights(f, c)
            BY <1>2 DEF Weights
        <2>3. QED
            BY <2>1, <2>2 DEF Load, Loads, WeightsAreSound
    <1>4. Sound(t)
        <2>1. PICK i \in DOMAIN f.tensors : t = f.tensors[i]
            BY <1>2 DEF TensorNames, Tensor
        <2>2. QED
            BY <2>1, ParsedIs DEF Loads
    <1>5. t.dims \in Matrix(c.embedding, QWidth(c))
        BY <1>1, <1>2, LayerShapesAre DEF Loads, Binds
    <1>6. PICK e \in Nat, width \in Nat : e = c.embedding /\ width = QWidth(c)
        BY <1>1 DEF Configured
    <1>7. Elements(t) = e * width
        <2>1. Len(t.dims) = 2 /\ t.dims[1] * t.dims[2] = e * width
            BY <1>5, <1>6 DEF Matrix
        <2>2. QED
            BY <1>4, <2>1, ElementsAre
    <1>8. PICK amount \in Nat : amount = w.amount /\ amount <= e * width
        <2>1. e * width \in Nat
            BY <1>6, Products
        <2>2. QED
            BY <1>3, <1>4, <1>7, <2>1, LinearAtMost
    <1>9. ForwardLayerRuns(f, c, Weights(f, c), 0)
        BY <1>1 DEF ForwardTokenRuns
    <1>10. q # Refused /\ width <= q /\ Ropes(f, c, q, c.heads)
        BY <1>6, <1>9 DEF ForwardLayerRuns
    <1>11. e > 0 /\ amount % e = 0 /\ q = amount \div e
        BY <1>6, <1>8, <1>10 DEF LinearRow
    <1>12. q = width
        <2>1. PICK rows \in Nat : rows = q /\ amount = rows * e
            <3>1. e \in Nat \ {0} /\ amount \in Nat
                BY <1>6, <1>8, <1>11
            <3>2. amount \div e \in Nat /\ (amount \div e) * e = amount
                BY <1>11, <3>1, Divided, Quotient
            <3>3. QED
                BY <1>11, <3>2
        <2>2. ~(width < rows)
            <3>1. SUFFICES ASSUME width < rows PROVE FALSE
                OBVIOUS
            <3>2. width * e + e <= rows * e /\ width * e \in Nat
                BY <1>6, <2>1, <3>1, Products
            <3>3. \A x, y \in Nat : x * y = y * x
                OBVIOUS
            <3>4. PICK all \in Nat, made \in Nat : all = width * e /\ all = e * width /\ made = rows * e
                BY <1>6, <1>8, <2>1, <3>2, <3>3
            <3>5. all + e <= made /\ made <= all /\ e > 0
                BY <1>8, <1>11, <2>1, <3>2, <3>4
            <3>6. QED
                BY <1>6, <3>4, <3>5
        <2>3. QED
            BY <1>6, <1>10, <2>1, <2>2
    <1>13. q \div c.heads = HeadDim(c)
        <2>1. PICK heads \in Nat \ {0}, hd \in Nat : heads = c.heads /\ hd = HeadDim(c)
            BY <1>1 DEF Configured
        <2>2. QWidth(c) = hd * heads
            BY <2>1 DEF QWidth
        <2>3. (hd * heads) \div heads = hd
            BY <2>1, Divided
        <2>4. QED
            BY <1>6, <1>12, <2>1, <2>2, <2>3
    <1>14. Default(c.ropeDim, q \div c.heads) = RopeDim(c)
        BY <1>13 DEF RopeDim
    <1>15. RopeDimIsSound(c)
        BY <1>10, <1>13, <1>14 DEF Ropes, RopeDimIsSound
    <1>16. QED
        BY <1>15

-----------------------------------------------------------------------------
(* Every step keeps the invariant. *)

\* What is known of a model that was loaded.
LEMMA ModelIs ==
    ASSUME NEW f \in Files, ModelLoads(f)
    PROVE  /\ IsFile(f) /\ f.tokens = Len(f.tokenizer.texts) /\ Loads(f)
           /\ Configured(Config(f)) /\ Config(f).vocab \in Nat \ {0}
           /\ Ids(FromGguf(f.tokenizer)) = 0..(Config(f).vocab - 1)
    <1>1. IsFile(f) /\ f.tokens = Len(f.tokenizer.texts) /\ Loads(f)
        BY FileAssumption DEF ModelLoads
    <1>2. Configured(Config(f)) /\ Config(f).vocab \in Nat \ {0}
        BY <1>1, ConfigIs, VocabularyIs DEF Loads, Binds
    <1>3. DOMAIN FromGguf(f.tokenizer).tokens = 0..(Len(f.tokenizer.texts) - 1)
        BY DEF FromGguf
    <1>4. f.tokens = Config(f).vocab
        BY <1>1 DEF Loads, VocabularyFits
    <1>5. QED
        BY <1>1, <1>2, <1>3, <1>4 DEF Ids

\* A plan that is sound gives the decoder a geometry.
LEMMA GeometryIs ==
    ASSUME file \in Files, ModelLoads(file), PlanIsSound(Config(file))
    PROVE  IsGeometry(Geometry)
    BY ModelIs DEF Geometry, IsGeometry, PlanIsSound, Configured

\* Nothing is loaded to begin with.
LEMMA InitHolds == EngineInit => EngineInv
    BY DEF EngineInit, EngineInv, ModelIsLoaded, PassesAreCounted, CacheIsWritten, RotationIsSound,
           WithModel, Generating

\* No step but LoadModel and EncodePrompt touches what was loaded and encoded.
LEMMA ModelStaysLoaded == ModelIsLoaded /\ [EngineNext]_engineVars => ModelIsLoaded'
    <1> SUFFICES ASSUME ModelIsLoaded, [EngineNext]_engineVars PROVE ModelIsLoaded'
        OBVIOUS
    <1> USE DEF ModelIsLoaded, WithModel
    <1>1. ASSUME NEW f \in Files, LoadModel(f) PROVE ModelIsLoaded'
        BY <1>1 DEF LoadModel
    <1>2. ASSUME NEW t \in TensorTypes, NEW n \in {1, 2, 12}, NEW loader \in Loaders, ReadTensor(t, n, loader)
          PROVE  ModelIsLoaded'
        BY <1>2 DEF ReadTensor
    <1>3. ASSUME NEW h \in Halves, ReadHalf(h) PROVE ModelIsLoaded'
        BY <1>3 DEF ReadHalf
    <1>4. ASSUME NEW text, NEW addSpecial, NEW parseSpecial, EncodePrompt(text, addSpecial, parseSpecial)
          PROVE  ModelIsLoaded'
        BY <1>4 DEF EncodePrompt
    <1>5. ASSUME NEW max, Generate(max) PROVE ModelIsLoaded'
        BY <1>5 DEF Generate
    <1>6. CASE Forward
        BY <1>6 DEF Forward
    <1>7. CASE NotFinite
        BY <1>7 DEF NotFinite
    <1>8. ASSUME NEW id, NEW cancels, Emit(id, cancels) PROVE ModelIsLoaded'
        BY <1>8 DEF Emit
    <1>9. CASE Ended \/ UNCHANGED engineVars
        BY <1>9 DEF Ended, engineVars
    <1>10. QED
        BY <1>1, <1>2, <1>3, <1>4, <1>5, <1>6, <1>7, <1>8, <1>9 DEF EngineNext

\* The steps of a generation change neither its model nor its prompt.
LEMMA GenerationKeeps ==
    ASSUME NEW max, NEW id, NEW cancels,
           Generate(max) \/ Forward \/ NotFinite \/ Emit(id, cancels) \/ Ended \/ UNCHANGED engineVars
    PROVE  file' = file /\ tokenizer' = tokenizer /\ asked' = asked
    BY DEF Generate, Forward, NotFinite, Emit, Ended, engineVars

\* A generation begins with an empty cache and room for its budget.
LEMMA GenerateStarts ==
    ASSUME ModelIsLoaded, phase = "encoded", NEW max \in Budgets[file.path], Generate(max)
    PROVE  /\ phase' \in {"failed", "completed", "forward"}
           /\ phase' \in Generating =>
                 /\ DOMAIN output' = {"budget", "generated", "pieces", "passes", "stop"}
                 /\ output'.generated = <<>> /\ output'.pieces = <<>> /\ output'.budget = max
                 /\ output'.passes = 0 /\ cache' = NewCache /\ max \in Nat
                 /\ RequestFits(max) /\ PlanIsSound(Config(file))
                 /\ phase' = "forward" => max > 0
    <1>1. max \in Nat
        BY BudgetAssumption DEF ModelIsLoaded, WithModel
    <1>2. output = NoOutput
        BY DEF ModelIsLoaded
    <1>3. /\ phase' = "failed" \/ (phase' = "completed" /\ RequestFits(max) /\ PlanIsSound(Config(file)))
             \/ (phase' = "forward" /\ RequestFits(max) /\ PlanIsSound(Config(file)) /\ max # 0)
        BY DEF Generate
    <1>4. /\ DOMAIN output' = {"budget", "generated", "pieces", "passes", "stop"}
          /\ output'.generated = <<>> /\ output'.pieces = <<>> /\ output'.budget = max
          /\ output'.passes = 0 /\ cache' = NewCache
        BY <1>2 DEF Generate, NoOutput
    <1>5. QED
        BY <1>1, <1>3, <1>4 DEF Generating

\* Each pass moves the position by one, and each token asks for one pass more.
LEMMA PassesStayCounted ==
    ASSUME ModelIsLoaded, PassesAreCounted, [EngineNext]_engineVars
    PROVE  PassesAreCounted'
    <1> USE DEF Generating
    <1>0. phase \in WithModel \ {"loaded"} => asked.ids \in Seq(Ids(tokenizer)) /\ Len(asked.ids) \in Nat
        BY DEF ModelIsLoaded
    <1>1. CASE phase' \notin Generating
        BY <1>1 DEF PassesAreCounted
    <1>2. ASSUME phase = "encoded", NEW max \in Budgets[file.path], Generate(max), phase' \in Generating
          PROVE  PassesAreCounted'
        <2>1. /\ DOMAIN output' = {"budget", "generated", "pieces", "passes", "stop"}
              /\ output'.generated = <<>> /\ output'.pieces = <<>> /\ output'.budget = max
              /\ output'.passes = 0 /\ cache' = NewCache /\ max \in Nat
              /\ RequestFits(max) /\ PlanIsSound(Config(file))
              /\ phase' \in {"completed", "forward"} /\ (phase' = "forward" => max > 0)
            BY <1>2, GenerateStarts
        <2>2. cache'.position = 0
            BY <2>1 DEF NewCache
        <2>3. file' = file /\ tokenizer' = tokenizer /\ asked' = asked
            BY <1>2, GenerationKeeps
        <2>4. asked.ids \in Seq(Ids(tokenizer)) /\ asked.ids # <<>>
            BY <1>0, <1>2, <2>1 DEF RequestFits, WithModel
        <2>5. Len(asked.ids) \in Nat /\ Len(asked.ids) > 0
            BY <2>4
        <2>6. <<>> \in Seq(Ids(tokenizer)) /\ IsASequence(<<>>) /\ Len(<<>>) = 0
            BY DEF IsASequence
        <2>7. RequestFits(output.budget)' /\ PlanIsSound(Config(file))'
            BY <2>1, <2>2, <2>3 DEF RequestFits
        <2>8. QED
            BY <2>1, <2>2, <2>3, <2>5, <2>6, <2>7 DEF PassesAreCounted
    <1>3. CASE Forward /\ phase' \in Generating
        <2>1. /\ phase = "forward" /\ cache' = Forwarded(Geometry, cache, Sequence[cache.position + 1])
              /\ output' = [output EXCEPT !.passes = @ + 1]
              /\ phase' = IF cache.position + 1 < Len(Sequence) THEN "forward" ELSE "sample"
            BY <1>3 DEF Forward
        <2>2. cache'.position = cache.position + 1
            BY <2>1 DEF Forwarded, EnsurePositionCapacity
        <2>3. file' = file /\ tokenizer' = tokenizer /\ asked' = asked
            BY <1>3, GenerationKeeps
        <2>4. Len(Sequence) = Len(asked.ids) + Len(output.generated) /\ Len(output.generated) \in Nat
            BY <1>0, <2>1 DEF PassesAreCounted, Sequence, WithModel
        <2>5. RequestFits(output.budget)' /\ PlanIsSound(Config(file))'
            BY <2>1, <2>3 DEF RequestFits, PassesAreCounted
        <2>6. Len(asked.ids) \in Nat
            BY <1>0, <2>1 DEF WithModel
        <2>7. /\ DOMAIN output' = DOMAIN output /\ output'.budget = output.budget
              /\ output'.generated = output.generated /\ output'.pieces = output.pieces
              /\ output'.passes = cache.position + 1
            BY <2>1 DEF PassesAreCounted
        <2>8. /\ cache'.position \in Nat
              /\ \/ phase' = "forward" /\ cache'.position < Len(asked.ids) + Len(output.generated)
                 \/ phase' = "sample" /\ cache'.position = Len(asked.ids) + Len(output.generated)
            <3>1. cache.position \in Nat /\ cache.position < Len(asked.ids) + Len(output.generated)
                BY <2>1 DEF PassesAreCounted
            <3>2. PICK prompt \in Nat, made \in Nat, q \in Nat :
                      /\ prompt = Len(asked.ids) /\ made = Len(output.generated) /\ q = cache.position
                      /\ Len(Sequence) = prompt + made /\ q < prompt + made /\ cache'.position = q + 1
                BY <2>2, <2>4, <2>6, <3>1
            <3>3. /\ q + 1 < prompt + made => phase' = "forward"
                  /\ ~(q + 1 < prompt + made) => phase' = "sample"
                BY <2>1, <3>2
            <3>4. /\ q + 1 \in Nat
                  /\ \/ q + 1 < prompt + made
                     \/ q + 1 = prompt + made /\ ~(q + 1 < prompt + made)
                BY <3>2, Counting, Zenon
            <3>5. QED
                BY <3>2, <3>3, <3>4, Zenon
        <2>9. QED
            BY <2>1, <2>2, <2>3, <2>5, <2>7, <2>8 DEF PassesAreCounted
    <1>4. ASSUME phase = "sample", NEW id \in Ids(tokenizer), NEW cancels \in BOOLEAN,
                 Emit(id, cancels), phase' \in Generating
          PROVE  PassesAreCounted'
        <2> DEFINE stop == StopReason(id, cancels, Len(output.generated) + 1)
                   piece == Delta(decoder, Pushed(tokenizer, decoder, id))
        <2>1. /\ output' = [output EXCEPT !.generated = Append(@, id), !.pieces = Append(@, piece), !.stop = stop]
              /\ cache' = cache
              /\ phase' = CASE stop = "None" -> "forward" [] stop = "Consumer" -> "cancelled"
                            [] OTHER -> "completed"
            BY <1>4 DEF Emit
        <2>2. stop = "None" => Len(output.generated) + 1 # output.budget
            BY DEF StopReason
        <2> HIDE DEF stop, piece
        <2>3. /\ phase' \in {"forward", "cancelled", "completed"}
              /\ phase' = "forward" => Len(output.generated) + 1 # output.budget
            BY <2>1, <2>2
        <2>4. file' = file /\ tokenizer' = tokenizer /\ asked' = asked
            BY <1>4, GenerationKeeps
        <2>5. /\ output'.generated \in Seq(Ids(tokenizer)) /\ Len(output'.generated) = Len(output.generated) + 1
              /\ Len(output.generated) \in Nat
            BY <1>4, <2>1 DEF PassesAreCounted
        <2>6. IsASequence(output'.pieces) /\ Len(output'.pieces) = Len(output.pieces) + 1
            <3>1. output'.pieces = Append(output.pieces, piece)
                BY <1>4, <2>1 DEF PassesAreCounted
            <3>2. IsASequence(output.pieces)
                BY <1>4 DEF PassesAreCounted
            <3>3. QED
                BY <3>1, <3>2, Appended
        <2>7. /\ DOMAIN output' = DOMAIN output /\ output'.budget = output.budget
              /\ output'.passes = output.passes
            BY <1>4, <2>1 DEF PassesAreCounted
        <2>8. RequestFits(output.budget)' /\ PlanIsSound(Config(file))'
            BY <1>4, <2>4, <2>7 DEF RequestFits, PassesAreCounted
        <2>9. Len(asked.ids) \in Nat
            BY <1>0, <1>4 DEF WithModel
        <2>10. /\ cache.position \in Nat /\ output.passes = cache.position /\ output.budget \in Nat
               /\ cache.position = Len(asked.ids) + Len(output.generated)
               /\ Len(output.generated) < output.budget /\ Len(output.pieces) = Len(output.generated)
               /\ DOMAIN output = {"budget", "generated", "pieces", "passes", "stop"}
            BY <1>4 DEF PassesAreCounted
        <2>11. /\ phase' = "forward" => Len(output.generated) + 1 < output.budget
               /\ cache'.position < Len(asked.ids) + (Len(output.generated) + 1)
               /\ cache'.position = Len(asked.ids) + (Len(output.generated) + 1) - 1
            <3>1. cache'.position = cache.position
                BY <2>1
            <3>2. PICK prompt \in Nat, made \in Nat, budget \in Nat :
                      /\ prompt = Len(asked.ids) /\ made = Len(output.generated) /\ budget = output.budget
                      /\ made < budget /\ cache'.position = prompt + made
                BY <2>5, <2>9, <2>10, <3>1
            <3>3. phase' = "forward" => made + 1 # budget
                BY <2>3, <3>2
            <3>4. /\ made + 1 # budget => made + 1 < budget
                  /\ prompt + made < prompt + (made + 1)
                  /\ prompt + made = prompt + (made + 1) - 1
                BY <3>2, Counting, Zenon
            <3>5. QED
                BY <3>2, <3>3, <3>4, Zenon
        <2>12. QED
            BY <2>1, <2>3, <2>4, <2>5, <2>6, <2>7, <2>8, <2>10, <2>11 DEF PassesAreCounted
    <1>5. CASE Ended \/ UNCHANGED engineVars
        BY <1>5 DEF Ended, engineVars, PassesAreCounted, RequestFits
    <1>6. CASE NotFinite
        BY <1>1, <1>6 DEF NotFinite
    <1>7. ASSUME NEW f, NEW t, NEW n, NEW loader, NEW h, NEW text, NEW addSpecial, NEW parseSpecial,
                 LoadModel(f) \/ ReadTensor(t, n, loader) \/ ReadHalf(h)
                     \/ EncodePrompt(text, addSpecial, parseSpecial)
          PROVE  phase' \notin Generating
        BY <1>7 DEF LoadModel, ReadTensor, ReadHalf, EncodePrompt
    <1>8. QED
        BY <1>1, <1>2, <1>3, <1>4, <1>5, <1>6, <1>7 DEF EngineNext

LEMMA StrideIs ==
    ASSUME NEW g, IsGeometry(g)
    PROVE  PositionStride(g) \in Nat
    <1>1. PICK L \in Nat, H \in Nat, D \in Nat : L = g.layers /\ H = g.kvHeads /\ D = g.headDim
        BY DEF IsGeometry
    <1>2. L * H \in Nat /\ L * H * D \in Nat
        BY <1>1, Products
    <1>3. QED
        BY <1>1, <1>2 DEF PositionStride

\* A pass writes the position of the next token of the sequence.
LEMMA ForwardWrites ==
    ASSUME ModelIsLoaded, PassesAreCounted, CacheIsWritten, Forward, phase' \in Generating
    PROVE  CacheIsWritten'
    <1> DEFINE g == Geometry
               token == Sequence[cache.position + 1]
    <1>1. /\ phase = "forward" /\ CanAppend(g, cache) /\ cache' = Forwarded(g, cache, token)
          /\ output' = [output EXCEPT !.passes = @ + 1]
          /\ file' = file /\ asked' = asked
        BY DEF Forward, Generating
    <1>2. IsGeometry(g)
        BY <1>1, GeometryIs DEF ModelIsLoaded, PassesAreCounted, WithModel, Generating
    <1>3. g' = g /\ Sequence' = Sequence
        <2>1. output'.generated = output.generated
            BY <1>1 DEF PassesAreCounted, Generating
        <2>2. QED
            BY <1>1, <2>1 DEF Geometry, Sequence
    <1> HIDE DEF g
    <1>4. /\ IsCache(g, cache)
          /\ \A p \in 0..(cache.position - 1), l \in 0..(g.layers - 1), h \in 0..(g.kvHeads - 1),
                d \in 0..(g.headDim - 1) :
                /\ cache.keys[PlaceOf(g, p, l, h, d)] = Key(g, Sequence[p + 1], l, p, h, d)
                /\ cache.values[PlaceOf(g, p, l, h, d)] = Val(g, Sequence[p + 1], l, p, h, d)
        BY <1>1 DEF CacheIsWritten, Generating, g
    <1>5. /\ IsCache(g, cache') /\ cache'.position = cache.position + 1
          /\ \A p \in 0..cache.position, l \in 0..(g.layers - 1), h \in 0..(g.kvHeads - 1),
                d \in 0..(g.headDim - 1) :
                 /\ cache'.keys[PlaceOf(g, p, l, h, d)] =
                        IF p = cache.position THEN Key(g, token, l, p, h, d)
                                              ELSE cache.keys[PlaceOf(g, p, l, h, d)]
                 /\ cache'.values[PlaceOf(g, p, l, h, d)] =
                        IF p = cache.position THEN Val(g, token, l, p, h, d)
                                              ELSE cache.values[PlaceOf(g, p, l, h, d)]
        BY <1>1, <1>2, <1>4, ForwardedIs
    <1>6. ASSUME NEW p \in 0..(cache'.position - 1), NEW l \in 0..(g.layers - 1),
                 NEW h \in 0..(g.kvHeads - 1), NEW d \in 0..(g.headDim - 1)
          PROVE  /\ cache'.keys[PlaceOf(g, p, l, h, d)] = Key(g, Sequence[p + 1], l, p, h, d)
                 /\ cache'.values[PlaceOf(g, p, l, h, d)] = Val(g, Sequence[p + 1], l, p, h, d)
        <2>1. cache.position \in Nat /\ p \in 0..cache.position
            BY <1>4, <1>5 DEF IsCache
        <2>2. CASE p = cache.position
            BY <1>5, <2>1, <2>2
        <2>3. CASE p # cache.position
            <3>1. p \in 0..(cache.position - 1)
                BY <2>1, <2>3
            <3>2. QED
                BY <1>4, <1>5, <2>1, <2>3, <3>1
        <2>4. QED
            BY <2>2, <2>3
    <1>7. QED
        BY <1>3, <1>5, <1>6 DEF CacheIsWritten, g

\* The token shown goes where no pass has written.
LEMMA EmitWrites ==
    ASSUME ModelIsLoaded, PassesAreCounted, CacheIsWritten, phase = "sample",
           NEW id \in Ids(tokenizer), NEW cancels, Emit(id, cancels), phase' \in Generating
    PROVE  CacheIsWritten'
    <1> DEFINE g == Geometry
    <1>1. /\ output'.generated = Append(output.generated, id)
          /\ file' = file /\ asked' = asked /\ cache' = cache
        BY DEF Emit, Generating, PassesAreCounted
    <1>2. g' = g
        BY <1>1 DEF Geometry
    <1>3. /\ asked.ids \in Seq(Ids(tokenizer)) /\ output.generated \in Seq(Ids(tokenizer))
          /\ cache.position = Len(asked.ids) + Len(output.generated)
        BY DEF ModelIsLoaded, PassesAreCounted, WithModel, Generating
    <1>4. ASSUME NEW p \in 0..(cache.position - 1) PROVE Sequence'[p + 1] = Sequence[p + 1]
        <2>1. p + 1 \in 1..(Len(asked.ids) + Len(output.generated))
            <3>1. \A n \in Nat : \A i \in 0..(n - 1) : i + 1 \in 1..n
                OBVIOUS
            <3>3. cache.position \in Nat
                BY DEF PassesAreCounted, Generating
            <3>4. p + 1 \in 1..cache.position
                BY <3>1, <3>3, Zenon
            <3>5. QED
                BY <1>3, <3>4, Zenon
        <2>2. (asked.ids \o Append(output.generated, id))[p + 1] = (asked.ids \o output.generated)[p + 1]
            <3>1. \A S, e : \A a, b \in Seq(S) : e \in S =>
                      \A i \in 1..(Len(a) + Len(b)) : (a \o Append(b, e))[i] = (a \o b)[i]
                BY AppendedAfter, Zenon
            <3>2. PICK S, a, b, i : /\ S = Ids(tokenizer) /\ a = asked.ids
                                    /\ b = output.generated /\ i = p + 1
                OBVIOUS
            <3>3. a \in Seq(S) /\ b \in Seq(S) /\ id \in S /\ i \in 1..(Len(a) + Len(b))
                BY <1>3, <2>1, <3>2, Zenon
            <3>4. (a \o Append(b, id))[i] = (a \o b)[i]
                BY <3>1, <3>3
            <3>5. QED
                BY <3>2, <3>4, Zenon
        <2>3. QED
            BY <1>1, <2>2 DEF Sequence
    <1> HIDE DEF g
    <1>5. /\ IsCache(g, cache)
          /\ \A p \in 0..(cache.position - 1), l \in 0..(g.layers - 1), h \in 0..(g.kvHeads - 1),
                d \in 0..(g.headDim - 1) :
                /\ cache.keys[PlaceOf(g, p, l, h, d)] = Key(g, Sequence[p + 1], l, p, h, d)
                /\ cache.values[PlaceOf(g, p, l, h, d)] = Val(g, Sequence[p + 1], l, p, h, d)
        BY DEF CacheIsWritten, Generating, g
    <1>6. \A p \in 0..(cache.position - 1), l \in 0..(g.layers - 1), h \in 0..(g.kvHeads - 1),
                d \in 0..(g.headDim - 1) :
                /\ cache.keys[PlaceOf(g, p, l, h, d)] = Key(g, Sequence'[p + 1], l, p, h, d)
                /\ cache.values[PlaceOf(g, p, l, h, d)] = Val(g, Sequence'[p + 1], l, p, h, d)
        BY <1>4, <1>5
    <1>7. QED
        BY <1>1, <1>2, <1>5, <1>6 DEF CacheIsWritten, g

\* A step keeps every row that was written, and writes the row of its own token.
LEMMA CacheStaysWritten ==
    ASSUME ModelIsLoaded, PassesAreCounted, CacheIsWritten, [EngineNext]_engineVars
    PROVE  CacheIsWritten'
    <1>1. CASE phase' \notin Generating
        BY <1>1 DEF CacheIsWritten
    <1>2. ASSUME phase = "encoded", NEW max \in Budgets[file.path], Generate(max), phase' \in Generating
          PROVE  CacheIsWritten'
        <2>1. cache' = NewCache /\ PlanIsSound(Config(file)) /\ file' = file
            BY <1>2, GenerateStarts, GenerationKeeps
        <2>2. IsGeometry(Geometry) /\ Geometry' = Geometry
            BY <1>2, <2>1, GeometryIs DEF ModelIsLoaded, WithModel, Geometry
        <2>3. IsCache(Geometry, NewCache)
            <3>1. 0 * PositionStride(Geometry) = 0
                BY <2>2, StrideIs
            <3>2. IsASequence(<<>>) /\ Len(<<>>) = 0
                BY DEF IsASequence
            <3>3. QED
                BY <3>1, <3>2 DEF IsCache, NewCache
        <2>4. NewCache.position = 0
            BY DEF NewCache
        <2>5. QED
            BY <2>1, <2>2, <2>3, <2>4 DEF CacheIsWritten
    <1>3. CASE Forward /\ phase' \in Generating
        BY <1>3, ForwardWrites
    <1>4. ASSUME phase = "sample", NEW id \in Ids(tokenizer), NEW cancels \in BOOLEAN,
                 Emit(id, cancels), phase' \in Generating
          PROVE  CacheIsWritten'
        BY <1>4, EmitWrites
    <1>5. CASE Ended \/ UNCHANGED engineVars
        <2>1. UNCHANGED engineVars
            BY <1>5 DEF Ended
        <2>2. Geometry' = Geometry /\ Sequence' = Sequence /\ cache' = cache /\ phase' = phase
            BY <2>1 DEF engineVars, Geometry, Sequence
        <2>3. QED
            BY <2>2 DEF CacheIsWritten
    <1>6. CASE NotFinite
        BY <1>1, <1>6 DEF NotFinite, Generating
    <1>7. ASSUME NEW f, NEW t, NEW n, NEW loader, NEW h, NEW text, NEW addSpecial, NEW parseSpecial,
                 LoadModel(f) \/ ReadTensor(t, n, loader) \/ ReadHalf(h)
                     \/ EncodePrompt(text, addSpecial, parseSpecial)
          PROVE  phase' \notin Generating
        BY <1>7 DEF LoadModel, ReadTensor, ReadHalf, EncodePrompt, Generating
    <1>8. QED
        BY <1>1, <1>2, <1>3, <1>4, <1>5, <1>6, <1>7 DEF EngineNext

LEMMA RotationStaysSound ==
    ASSUME ModelIsLoaded, PassesAreCounted, RotationIsSound, [EngineNext]_engineVars
    PROVE  RotationIsSound'
    <1>1. CASE phase' \notin Generating
        BY <1>1 DEF RotationIsSound
    <1>2. ASSUME phase = "encoded", NEW max \in Budgets[file.path], Generate(max), phase' \in Generating
          PROVE  RotationIsSound'
        <2>1. cache'.position = 0
            BY <1>2, GenerateStarts DEF NewCache
        <2>2. QED
            BY <2>1 DEF RotationIsSound
    <1>3. CASE Forward /\ phase' \in Generating
        <2>1. /\ ForwardTokenRuns(file, {Sequence[cache.position + 1]}) /\ file' = file
              /\ phase = "forward"
            BY <1>3 DEF Forward, Generating
        <2>2. IsFile(file) /\ Loads(file) /\ PlanIsSound(Config(file))
            BY <2>1, ModelIs DEF ModelIsLoaded, PassesAreCounted, WithModel, Generating
        <2>3. RopeDimIsSound(Config(file))
            BY <2>1, <2>2, PassRotates
        <2>4. QED
            BY <2>1, <2>3 DEF RotationIsSound
    <1>4. ASSUME phase = "sample", NEW id, NEW cancels, Emit(id, cancels)
          PROVE  RotationIsSound'
        BY <1>4 DEF Emit, RotationIsSound, Generating
    <1>5. CASE Ended \/ UNCHANGED engineVars
        BY <1>5 DEF Ended, engineVars, RotationIsSound
    <1>6. CASE NotFinite
        BY <1>1, <1>6 DEF NotFinite, Generating
    <1>7. ASSUME NEW f, NEW t, NEW n, NEW loader, NEW h, NEW text, NEW addSpecial, NEW parseSpecial,
                 LoadModel(f) \/ ReadTensor(t, n, loader) \/ ReadHalf(h)
                     \/ EncodePrompt(text, addSpecial, parseSpecial)
          PROVE  phase' \notin Generating
        BY <1>7 DEF LoadModel, ReadTensor, ReadHalf, EncodePrompt, Generating
    <1>8. QED
        BY <1>1, <1>2, <1>3, <1>4, <1>5, <1>6, <1>7 DEF EngineNext

\* The invariant holds in every state of every run.
THEOREM InvariantHolds == EngineSpec => []EngineInv
    <1>1. EngineInv /\ [EngineNext]_engineVars => EngineInv'
        BY ModelStaysLoaded, PassesStayCounted, CacheStaysWritten, RotationStaysSound DEF EngineInv
    <1>2. QED
        BY <1>1, InitHolds, PTL DEF EngineSpec

-----------------------------------------------------------------------------
(* What the invariant gives. *)

\* No pass of a generation wants for a position, and its token has an embedding.
LEMMA InvariantRuns == EngineInv => LoadedModelRuns
    <1> SUFFICES ASSUME EngineInv PROVE LoadedModelRuns
        OBVIOUS
    <1> USE DEF EngineInv
    <1>1. ASSUME phase \in {"loaded", "forward"}
          PROVE  /\ file \in Files /\ ModelLoads(file) /\ tokenizer = FromGguf(file.tokenizer)
                 /\ Ids(tokenizer) = 0..(Config(file).vocab - 1)
                 /\ LeftToTheRequest(file) /\ BlocksAgree(file) => Served(file)
        <2>1. file \in Files /\ ModelLoads(file) /\ tokenizer = FromGguf(file.tokenizer)
            BY <1>1 DEF ModelIsLoaded, WithModel
        <2>2. QED
            BY <2>1, ModelIs DEF Served
    <1>2. CASE phase = "loaded"
        <2>1. TensorsAreApart(file)
            BY <1>1, <1>2, ModelIs, ParsedAreApart DEF Loads
        <2>2. DOMAIN tokenizer.tokens = 0..(Config(file).vocab - 1)
            BY <1>1, <1>2 DEF Ids
        <2>3. LeftToTheRequest(file) /\ BlocksAgree(file) =>
                  ForwardTokenRuns(file, DOMAIN tokenizer.tokens)
            BY <1>1, <1>2, <2>2, ServedRuns
        <2>4. QED
            BY <1>2, <2>1, <2>2, <2>3 DEF LoadedModelRuns
    <1>3. CASE phase = "forward"
        <2>1. /\ asked.ids \in Seq(Ids(tokenizer)) /\ output.generated \in Seq(Ids(tokenizer))
              /\ cache.position \in Nat /\ output.budget \in Nat
              /\ cache.position < Len(asked.ids) + Len(output.generated)
              /\ Len(output.generated) < output.budget
              /\ Len(asked.ids) + output.budget <= Config(file).context
            BY <1>3 DEF ModelIsLoaded, PassesAreCounted, WithModel, Generating, RequestFits
        <2>2. Config(file).context \in Nat
            BY <1>1, <1>3, ModelIs DEF Configured
        <2>3. CanAppend(Geometry, cache)
            <3>1. PICK i \in Nat, n \in Nat, b \in Nat, p \in Nat, max \in Nat :
                      /\ i = Len(asked.ids) /\ n = Len(output.generated) /\ b = output.budget
                      /\ p = cache.position /\ max = Config(file).context
                BY <2>1, <2>2, SequenceOf
            <3>2. p < i + n /\ n < b /\ i + b <= max
                BY <2>1, <3>1, Zenon
            <3>3. p < max
                BY <3>2
            <3>4. Geometry.context = Config(file).context
                BY DEF Geometry
            <3>5. QED
                BY <3>1, <3>3, <3>4 DEF CanAppend
        <2>4. Sequence[cache.position + 1] \in Ids(tokenizer)
            <3>0. PICK S, a, b : S = Ids(tokenizer) /\ a = asked.ids /\ b = output.generated
                OBVIOUS
            <3>1. PICK p \in Nat : p = cache.position
                BY <2>1
            <3>2. a \in Seq(S) /\ b \in Seq(S) /\ p < Len(a) + Len(b)
                BY <2>1, <3>0, <3>1, Zenon
            <3>3. a \o b \in Seq(S) /\ Len(a \o b) = Len(a) + Len(b) /\ Len(a \o b) \in Nat
                BY <3>2, ConcatProperties, LenProperties
            <3>4. p + 1 \in 1..Len(a \o b)
                <4>1. \A n \in Nat : p < n => p + 1 \in 1..n
                    OBVIOUS
                <4>2. QED
                    BY <3>2, <3>3, <4>1, Zenon
            <3>5. (a \o b)[p + 1] \in S
                BY <3>3, <3>4, ElementOfSeq
            <3>6. QED
                BY <3>0, <3>1, <3>5 DEF Sequence
        <2>5. LeftToTheRequest(file) /\ BlocksAgree(file) =>
                  ForwardTokenRuns(file, {Sequence[cache.position + 1]})
            BY <1>1, <1>3, <2>4, ServedRuns
        <2>6. QED
            BY <1>3, <2>3, <2>5 DEF LoadedModelRuns
    <1>4. CASE phase \notin {"loaded", "forward"}
        BY <1>4 DEF LoadedModelRuns
    <1>5. QED
        BY <1>2, <1>3, <1>4

\* Whatever files there are to load and whatever is asked of them: a model the
\* loader accepts runs.  No pass of a generation is refused for a width or for a
\* position, however the file declares its tensors (binding.rs, weights.rs, and
\* the errors of compute.rs and tensor/mod.rs).
THEOREM AcceptedModelsRun == EngineSpec => []LoadedModelRuns
    BY InvariantHolds, InvariantRuns, PTL

\* Each of the first ropeDim places of a head is turned with one pair, the others with none.
LEMMA TurnedOnce ==
    ASSUME NEW g, NEW r \in Nat, r = g.ropeDim, r % 2 = 0, NEW d \in Nat
    PROVE  Cardinality(Turns(g, d)) = IF d < r THEN 1 ELSE 0
    <1>1. PICK half \in Nat : half = r \div 2 /\ r = 2 * half
        OBVIOUS
    <1>2. Pairs(g) = 0..(half - 1)
        BY <1>1 DEF Pairs
    <1>3. ASSUME NEW p
          PROVE  /\ g.neox => Pair(g, p)[1] = p /\ Pair(g, p)[2] = p + half
                 /\ ~g.neox => Pair(g, p)[1] = 2 * p /\ Pair(g, p)[2] = 2 * p + 1
        BY <1>1 DEF Pair
    <1>4. CASE d < r
        <2>1. PICK q \in Nat : IF g.neox THEN q = IF d < half THEN d ELSE d - half
                                         ELSE q = d \div 2
            <3>1. (IF d < half THEN d ELSE d - half) \in Nat /\ d \div 2 \in Nat
                BY <1>1
            <3>2. QED
                BY <3>1
        <2>2. \A p \in 0..(half - 1) : p \in Turns(g, d) <=> p = q
            <3> SUFFICES ASSUME NEW p \in 0..(half - 1)
                         PROVE  p \in Turns(g, d) <=> p = q
                OBVIOUS
            <3>1. p \in Turns(g, d) <=> (d = Pair(g, p)[1] \/ d = Pair(g, p)[2])
                BY <1>2 DEF Turns
            <3>2. CASE g.neox
                <4>1. (d = p \/ d = p + half) <=> p = q
                    BY <1>1, <1>4, <2>1, <3>2
                <4>2. QED
                    BY <1>3, <3>1, <3>2, <4>1
            <3>3. CASE ~g.neox
                <4>1. (d = 2 * p \/ d = 2 * p + 1) <=> p = q
                    BY <1>1, <1>4, <2>1, <3>3
                <4>2. QED
                    BY <1>3, <3>1, <3>3, <4>1
            <3>4. QED
                BY <3>2, <3>3
        <2>3. q \in 0..(half - 1)
            BY <1>1, <1>4, <2>1
        <2>4. Turns(g, d) = {q}
            BY <1>2, <2>2, <2>3 DEF Turns
        <2>5. QED
            BY <1>4, <2>4, FS_Singleton
    <1>5. CASE ~(d < r)
        <2>1. ASSUME NEW p \in Turns(g, d) PROVE FALSE
            <3>1. p \in 0..(half - 1) /\ (d = Pair(g, p)[1] \/ d = Pair(g, p)[2])
                BY <1>2, <2>1 DEF Turns
            <3>2. CASE g.neox
                <4>1. d = p \/ d = p + half
                    BY <1>3, <3>1, <3>2
                <4>2. QED
                    BY <1>1, <1>5, <3>1, <4>1
            <3>3. CASE ~g.neox
                <4>1. d = 2 * p \/ d = 2 * p + 1
                    BY <1>3, <3>1, <3>3
                <4>2. QED
                    BY <1>1, <1>5, <3>1, <4>1
            <3>4. QED
                BY <3>2, <3>3
        <2>2. Turns(g, d) = {}
            BY <2>1
        <2>3. QED
            BY <1>5, <2>2, FS_EmptySet
    <1>6. QED
        BY <1>4, <1>5

\* The heads of a group read the key/value head that is the group's.
LEMMA KvHeadIs ==
    ASSUME NEW g, IsGeometry(g), NEW head \in 0..(g.heads - 1)
    PROVE  /\ KvHeadOf(g, head) = (head * g.kvHeads) \div g.heads
           /\ KvHeadOf(g, head) \in 0..(g.kvHeads - 1)
    <1>1. PICK H \in Nat \ {0}, K \in Nat \ {0} : H = g.heads /\ K = g.kvHeads
        BY DEF IsGeometry
    <1>2. PICK r \in Nat : r = H \div K /\ r * K = H
        BY <1>1, Divided, Quotient DEF IsGeometry
    <1>3. r \in Nat \ {0}
        BY <1>1, <1>2
    <1>4. PICK a \in Nat, b \in 0..(r - 1) : a = head \div r /\ head = r * a + b
        <2>1. head \in Nat
            BY <1>1
        <2>2. head \div r \in Nat /\ head % r \in 0..(r - 1) /\ head = r * (head \div r) + (head % r)
            BY <1>2, <1>3, <2>1, Divided
        <2>3. QED
            BY <2>2
    <1>5. a < K
        <2>1. SUFFICES ASSUME K <= a PROVE FALSE
            BY <1>1, <1>4
        <2>2. K * r <= a * r /\ K * r = H /\ a * r = r * a
            BY <1>1, <1>2, <1>4, <2>1, Products
        <2>3. r * a \in Nat /\ head < H
            BY <1>1, <1>2, <1>4, Products
        <2>4. QED
            BY <1>1, <1>2, <1>4, <2>2, <2>3
    <1>6. (head * K) \div H = a
        <2>1. PICK bK \in Nat : bK = b * K /\ bK < H
            <3>1. b * K + K <= r * K /\ b * K \in Nat
                <4>1. b \in Nat /\ b < r /\ r \in Nat /\ K \in Nat
                    BY <1>1, <1>2, <1>4
                <4>2. QED
                    BY <4>1, Products
            <3>2. QED
                BY <1>1, <1>2, <3>1
        <2>2. head * K = a * H + bK
            <3>1. \A u, v, w, x \in Nat : (u * v + w) * x = v * (u * x) + w * x
                OBVIOUS
            <3>2. QED
                BY <1>1, <1>2, <1>4, <2>1, <3>1
        <2>3. a * H \in Nat /\ head * K \in Nat
            BY <1>1, <1>4, Products
        <2>4. PICK m \in Nat : m = head * K /\ m = a * H + bK
            BY <2>2, <2>3
        <2>5. m \div H \in Nat /\ m % H \in 0..(H - 1) /\ m = H * (m \div H) + (m % H)
            BY <1>1, <2>4, Divided
        <2>6. PICK c \in Nat, e \in 0..(H - 1) : c = m \div H /\ e = m % H /\ m = c * H + e
            BY <1>1, <2>5
        <2>7. a = c
            <3>1. a * H + bK = c * H + e /\ bK \in 0..(H - 1)
                BY <1>1, <2>1, <2>4, <2>6
            <3>2. a \in Nat /\ c \in Nat /\ H \in Nat /\ e \in 0..(H - 1)
                BY <1>1, <1>4, <2>6
            <3>3. QED
                BY <3>1, <3>2, Digits
        <2>8. QED
            BY <2>4, <2>6, <2>7
    <1>7. KvHeadOf(g, head) = a
        BY <1>1, <1>2, <1>4 DEF KvHeadOf
    <1>8. QED
        BY <1>1, <1>4, <1>5, <1>6, <1>7

\* What a head reads of a position it has written.
LEMMA RowReads ==
    ASSUME NEW g, IsGeometry(g), NEW cells, IsASequence(cells), NEW n \in Nat,
           Len(cells) = n * PositionStride(g), NEW p \in 0..(n - 1), NEW l \in 0..(g.layers - 1),
           NEW h \in 0..(g.kvHeads - 1), NEW d \in 1..g.headDim
    PROVE  Row(g, cells, l, p, h)[d] = cells[PlaceOf(g, p, l, h, d - 1)]
    <1>1. PICK o \in Nat, D \in Nat : o = Offset(g, l, p, h) /\ D = g.headDim
        <2>1. p \in Nat
            OBVIOUS
        <2>2. Offset(g, l, p, h) \in Nat
            BY <2>1, PlaceIs
        <2>3. QED
            BY <2>2 DEF IsGeometry
    <1>2. o + D <= Len(cells)
        BY <1>1, PlaceFits
    <1>3. d \in 1..D /\ o + (d - 1) + 1 = o + d
        BY <1>1
    <1>4. SubSeq(cells, o + 1, o + D)[d] = cells[o + d]
        BY <1>1, <1>2, <1>3, RowHas, ZenonT(60)
    <1>5. QED
        BY <1>1, <1>3, <1>4 DEF Row, PlaceOf

\* What attention reads is what the invariant says was written.
LEMMA InvariantReads == EngineInv => AttentionReadsItsOwnPast
    <1> SUFFICES ASSUME EngineInv, phase \in Generating, cache.position > 0
                 PROVE  AttentionReadsItsOwnPast
        BY DEF AttentionReadsItsOwnPast, Generating
    <1> DEFINE g == Geometry
               last == cache.position - 1
    <1>1. file \in Files /\ ModelLoads(file) /\ PlanIsSound(Config(file))
        BY DEF EngineInv, ModelIsLoaded, PassesAreCounted, WithModel, Generating
    <1>2. IsGeometry(g)
        BY <1>1, GeometryIs
    <1>3. /\ IsCache(g, cache)
          /\ \A p \in 0..(cache.position - 1), l \in 0..(g.layers - 1), h \in 0..(g.kvHeads - 1),
                d \in 0..(g.headDim - 1) :
                /\ cache.keys[PlaceOf(g, p, l, h, d)] = Key(g, Sequence[p + 1], l, p, h, d)
                /\ cache.values[PlaceOf(g, p, l, h, d)] = Val(g, Sequence[p + 1], l, p, h, d)
        BY DEF EngineInv, CacheIsWritten
    <1>4. output.passes = cache.position /\ cache.position <= cache.allocated
        BY <1>3 DEF EngineInv, PassesAreCounted, IsCache
    <1>5. phase # "forward" => cache.position = Len(asked.ids) + Len(output.pieces)
                                                - IF phase = "sample" THEN 0 ELSE 1
        <2>1. PICK i \in Nat, n \in Nat : i = Len(asked.ids) /\ n = Len(output.generated)
            <3>1. asked.ids \in Seq(Ids(tokenizer)) /\ output.generated \in Seq(Ids(tokenizer))
                BY DEF EngineInv, ModelIsLoaded, PassesAreCounted, WithModel, Generating
            <3>2. QED
                BY <3>1, SequenceOf
        <2>2. Len(output.pieces) = n
            BY <2>1 DEF EngineInv, PassesAreCounted
        <2>3. /\ phase = "sample" => cache.position = i + n
              /\ phase \in {"completed", "cancelled"} => cache.position = i + n - 1
            <3>1. cache.position # 0
                BY DEF EngineInv, PassesAreCounted
            <3>2. /\ phase = "sample" => cache.position = Len(asked.ids) + Len(output.generated)
                  /\ phase \in {"completed", "cancelled"} =>
                        cache.position = Len(asked.ids) + Len(output.generated) - 1
                BY <3>1, Zenon DEF EngineInv, PassesAreCounted, Generating
            <3>3. QED
                BY <2>1, <3>2, Zenon
        <2>4. i + n = i + n - 0
            BY <2>1
        <2>5. QED
            BY <2>1, <2>2, <2>3, <2>4 DEF Generating
    <1>6. \A d \in 0..(g.headDim - 1) : Cardinality(Turns(g, d)) = IF d < g.ropeDim THEN 1 ELSE 0
        <2>1. RopeDimIsSound(Config(file)) /\ g.ropeDim = RopeDim(Config(file))
            BY DEF EngineInv, RotationIsSound, Geometry
        <2>2. HeadDim(Config(file)) \in Nat
            BY <1>1, ModelIs DEF Configured
        <2>3. g.ropeDim \in Nat /\ g.ropeDim % 2 = 0
            BY <2>1, <2>2 DEF RopeDimIsSound
        <2>4. 0..(g.headDim - 1) \subseteq Nat
            BY <1>2 DEF IsGeometry
        <2> HIDE DEF g
        <2>5. QED
            BY <2>3, <2>4, TurnedOnce
    <1> HIDE DEF g
    <1>7. ASSUME NEW layer \in 0..(g.layers - 1), NEW head \in 0..(g.heads - 1),
                 NEW p \in 0..last, NEW d \in 1..g.headDim
          PROVE  LET kvHead == (head * g.kvHeads) \div g.heads IN
                 /\ KeysRead(g, cache, layer, last, head)[p][d] =
                        Key(g, Sequence[p + 1], layer, p, kvHead, d - 1)
                 /\ ValuesRead(g, cache, layer, last, head)[p][d] =
                        Val(g, Sequence[p + 1], layer, p, kvHead, d - 1)
        <2>1. PICK h \in 0..(g.kvHeads - 1) :
                  h = (head * g.kvHeads) \div g.heads /\ h = KvHeadOf(g, head)
            BY <1>2, KvHeadIs
        <2>2. /\ KeysRead(g, cache, layer, last, head)[p] = Row(g, cache.keys, layer, p, h)
              /\ ValuesRead(g, cache, layer, last, head)[p] = Row(g, cache.values, layer, p, h)
            BY <2>1 DEF KeysRead, ValuesRead
        <2>3. PICK n \in Nat : n = cache.allocated /\ p \in 0..(n - 1) /\ p \in 0..(cache.position - 1)
            BY <1>3 DEF IsCache
        <2>4. /\ Row(g, cache.keys, layer, p, h)[d] = cache.keys[PlaceOf(g, p, layer, h, d - 1)]
              /\ Row(g, cache.values, layer, p, h)[d] = cache.values[PlaceOf(g, p, layer, h, d - 1)]
            BY <1>2, <1>3, <2>3, RowReads DEF IsCache
        <2>5. d - 1 \in 0..(g.headDim - 1)
            BY <1>2 DEF IsGeometry
        <2>6. /\ cache.keys[PlaceOf(g, p, layer, h, d - 1)] = Key(g, Sequence[p + 1], layer, p, h, d - 1)
              /\ cache.values[PlaceOf(g, p, layer, h, d - 1)] = Val(g, Sequence[p + 1], layer, p, h, d - 1)
            BY <1>3, <2>3, <2>5
        <2>7. QED
            BY <2>1, <2>2, <2>4, <2>6
    <1>8. QED
        BY <1>4, <1>5, <1>6, <1>7 DEF AttentionReadsItsOwnPast, g

\* Whatever files there are to load and whatever is asked of them: every head of
\* every layer attends to what its own layer wrote for its own key/value head, at
\* each position the token that stands there, however the cache was grown, and
\* one pass is made for each token but the last (compute.rs, kv_cache.rs, rope.rs).
THEOREM AttentionIsSound == EngineSpec => []AttentionReadsItsOwnPast
    BY InvariantHolds, InvariantReads, PTL
=============================================================================
