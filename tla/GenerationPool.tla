--------------------------- MODULE GenerationPool ---------------------------
(***************************************************************************)
(* The in-tree adapter's generation pool,                                  *)
(* src/crates/server/src/in_tree/worker.rs.                                *)
(*                                                                         *)
(* Three kinds of thread share one mutex-protected queue and one condition *)
(* variable:                                                               *)
(*   - the slots, the dedicated threads `spawn` starts, which pop and run  *)
(*     jobs until the queue is closed and empty;                           *)
(*   - the holders of a public handle (a clone of GenerationWorker), which *)
(*     post jobs, wait for their results and clone the handle for others;  *)
(*   - the same holders while they drop their handle, the last of which is *)
(*     meant to close the queue.                                           *)
(* A step is one critical section of `queue`, or one access to an atomic   *)
(* or to the condition variable made outside of it.                        *)
(***************************************************************************)
EXTENDS Naturals, Sequences, FiniteSets

CONSTANTS Slots,       \* the pool's threads, max(slots, 1) of them
          Handles,     \* the public handles that may be live at once
          Jobs,        \* the jobs callers may post, each once
          QueueDepth,  \* QUEUE_DEPTH
          NoJob        \* not a job

ASSUME PoolAssumption ==
    /\ IsFiniteSet(Slots) /\ Slots # {}
    /\ IsFiniteSet(Handles) /\ Handles # {}
    /\ IsFiniteSet(Jobs) /\ NoJob \notin Jobs
    /\ QueueDepth \in Nat \ {0}

VARIABLES queue,    \* Queue.jobs
          open,     \* Queue.open
          depth,    \* the atomic `depth`
          slotPc,   \* where each slot's thread is
          slotJob,  \* the job a slot has popped and not yet released
          hPc,      \* where each handle's holder is
          hJob,     \* the job of the holder's current call
          job,      \* what has become of each job
          outcome   \* what `post` or `run` has told the caller of each job

vars == <<queue, open, depth, slotPc, slotJob, hPc, hJob, job, outcome>>

poolVars == <<queue, open, depth, slotPc, slotJob>>
callVars == <<hPc, hJob, outcome>>
-----------------------------------------------------------------------------
SlotPcs   == {"ready", "waiting", "running", "returned", "exited"}
HandlePcs == {"none", "live", "notify_one", "await",
              "dropping", "close", "notify_all", "release"}
JobStates == {"new", "queued", "running", "done", "panicked", "refused"}
Outcomes  == {"none", "accepted", "answered", "full", "unavailable", "abandoned"}

TypeOK ==
    /\ queue \in Seq(Jobs)
    /\ open \in BOOLEAN
    /\ depth \in Nat
    /\ slotPc \in [Slots -> SlotPcs]
    /\ slotJob \in [Slots -> Jobs \cup {NoJob}]
    /\ hPc \in [Handles -> HandlePcs]
    /\ hJob \in [Handles -> Jobs \cup {NoJob}]
    /\ job \in [Jobs -> JobStates]
    /\ outcome \in [Jobs -> Outcomes]

\* The handles `Arc::strong_count(&self.handles)` counts: every clone whose
\* `handles` field has not been dropped yet.
Counted == {h \in Handles : hPc[h] # "none"}

\* The slots whose job `depth` still counts.
Busy == {t \in Slots : slotPc[t] \in {"running", "returned"}}

Waiting   == {t \in Slots : slotPc[t] = "waiting"}
Ready     == {t \in Slots : slotPc[t] = "ready"}
Notifying == {h \in Handles : hPc[h] = "notify_one"}
-----------------------------------------------------------------------------
\* spawn: one handle, an open and empty queue, every thread about to lock it.
Init ==
    /\ queue = <<>> /\ open = TRUE /\ depth = 0
    /\ slotPc = [t \in Slots |-> "ready"]
    /\ slotJob = [t \in Slots |-> NoJob]
    /\ \E first \in Handles :
          hPc = [h \in Handles |-> IF h = first THEN "live" ELSE "none"]
    /\ hJob = [h \in Handles |-> NoJob]
    /\ job = [j \in Jobs |-> "new"]
    /\ outcome = [j \in Jobs |-> "none"]
-----------------------------------------------------------------------------
(* A slot's thread *)

Take_Newest(t) ==
    /\ slotPc[t] = "ready"
    /\ queue # <<>>
    /\ queue' = SubSeq(queue, 1, Len(queue) - 1)
    /\ slotPc' = [slotPc EXCEPT ![t] = "running"]
    /\ slotJob' = [slotJob EXCEPT ![t] = queue[Len(queue)]]
    /\ job' = [job EXCEPT ![queue[Len(queue)]] = "running"]
    /\ UNCHANGED <<open, depth, callVars>>

\* Under the lock: the oldest job, if there is one, leaves the queue.
Take(t) ==
    /\ slotPc[t] = "ready"
    /\ queue # <<>>
    /\ queue' = Tail(queue)
    /\ slotPc' = [slotPc EXCEPT ![t] = "running"]
    /\ slotJob' = [slotJob EXCEPT ![t] = Head(queue)]
    /\ job' = [job EXCEPT ![Head(queue)] = "running"]
    /\ UNCHANGED <<open, depth, callVars>>

Exit_OnClose(t) ==
    /\ slotPc[t] = "ready"
    /\ ~open
    /\ slotPc' = [slotPc EXCEPT ![t] = "exited"]
    /\ UNCHANGED <<queue, open, depth, slotJob, job, callVars>>

\* Under the lock: nothing is queued and nothing more can be.
Exit(t) ==
    /\ slotPc[t] = "ready"
    /\ queue = <<>> /\ ~open
    /\ slotPc' = [slotPc EXCEPT ![t] = "exited"]
    /\ UNCHANGED <<queue, open, depth, slotJob, job, callVars>>

\* Condvar::wait gives the lock up and starts waiting in one step.
Wait(t) ==
    /\ slotPc[t] = "ready"
    /\ queue = <<>> /\ open
    /\ slotPc' = [slotPc EXCEPT ![t] = "waiting"]
    /\ UNCHANGED <<queue, open, depth, slotJob, job, callVars>>

\* A condition variable may wake a thread nobody notified; the loop around
\* `wait` looks at the queue again.
SpuriousWake(t) ==
    /\ slotPc[t] = "waiting"
    /\ slotPc' = [slotPc EXCEPT ![t] = "ready"]
    /\ UNCHANGED <<queue, open, depth, slotJob, job, callVars>>

\* The job body returns, or panics and catch_unwind contains it. `result` is
\* what the oneshot of `run` holds from here on: a value, or a dropped sender.
Finish(t, result) ==
    /\ slotPc[t] = "running"
    /\ result \in {"done", "panicked"}
    /\ job' = [job EXCEPT ![slotJob[t]] = result]
    /\ slotPc' = [slotPc EXCEPT ![t] = "returned"]
    /\ UNCHANGED <<queue, open, depth, slotJob, callVars>>

\* depth.fetch_sub, after the caller may already have its answer.
Release(t) ==
    /\ slotPc[t] = "returned"
    /\ depth' = depth - 1
    /\ slotPc' = [slotPc EXCEPT ![t] = "ready"]
    /\ slotJob' = [slotJob EXCEPT ![t] = NoJob]
    /\ UNCHANGED <<queue, open, job, callVars>>

SlotStep(t) ==
    \/ Take(t) \/ Exit(t) \/ Wait(t) \/ Release(t)
    \/ \E result \in {"done", "panicked"} : Finish(t, result)
-----------------------------------------------------------------------------
(* A holder that calls `post` or `run` *)

Enqueue(h, j) ==
    /\ queue' = Append(queue, j)
    /\ job' = [job EXCEPT ![j] = "queued"]
    /\ hPc' = [hPc EXCEPT ![h] = "notify_one"]
    /\ hJob' = [hJob EXCEPT ![h] = j]
    /\ outcome' = [outcome EXCEPT ![j] = "accepted"]
    /\ UNCHANGED <<open, slotPc, slotJob>>

PostAccepted_OneTooMany(h, j) ==
    /\ hPc[h] = "live" /\ job[j] = "new"
    /\ open /\ Len(queue) <= QueueDepth
    /\ Enqueue(h, j)
    /\ depth' = depth + 1

\* The critical section of `post`, when the queue is open and has room.
PostAccepted(h, j) ==
    /\ hPc[h] = "live" /\ job[j] = "new"
    /\ open /\ Len(queue) < QueueDepth
    /\ Enqueue(h, j)
    /\ depth' = depth + 1

\* The critical section of `post`, when it returns early.
PostRefused(h, j) ==
    /\ hPc[h] = "live" /\ job[j] = "new"
    /\ ~open \/ Len(queue) >= QueueDepth
    /\ job' = [job EXCEPT ![j] = "refused"]
    /\ outcome' = [outcome EXCEPT ![j] = IF ~open THEN "unavailable" ELSE "full"]
    /\ UNCHANGED <<poolVars, hPc, hJob>>

NotifyNobody(h, next) ==
    /\ hPc[h] = "notify_one"
    /\ next \in {"await", "live"}
    /\ hPc' = [hPc EXCEPT ![h] = next]
    /\ hJob' = IF next = "await" THEN hJob ELSE [hJob EXCEPT ![h] = NoJob]
    /\ UNCHANGED <<poolVars, job, outcome>>

\* notify_one, after the lock is released: one waiting thread, if any, wakes.
\* A caller of `run` then awaits its result; a stream's `post` just returns.
NotifyOne(h, next) ==
    /\ hPc[h] = "notify_one"
    /\ next \in {"await", "live"}
    /\ IF Waiting = {} THEN UNCHANGED slotPc
       ELSE \E t \in Waiting : slotPc' = [slotPc EXCEPT ![t] = "ready"]
    /\ hPc' = [hPc EXCEPT ![h] = next]
    /\ hJob' = IF next = "await" THEN hJob ELSE [hJob EXCEPT ![h] = NoJob]
    /\ UNCHANGED <<queue, open, depth, slotJob, job, outcome>>

Tell(h, told) ==
    /\ outcome' = [outcome EXCEPT ![hJob[h]] = told]
    /\ hPc' = [hPc EXCEPT ![h] = "live"]
    /\ hJob' = [hJob EXCEPT ![h] = NoJob]
    /\ UNCHANGED <<poolVars, job>>

Answer_BeforeTheBody(h) ==
    /\ hPc[h] = "await"
    /\ job[hJob[h]] \in {"running", "done", "panicked"}
    /\ Tell(h, IF job[hJob[h]] = "panicked" THEN "unavailable" ELSE "answered")

Answer_NotOfAPanic(h) ==
    /\ hPc[h] = "await"
    /\ job[hJob[h]] = "done"
    /\ Tell(h, "answered")

\* The oneshot of `run` resolves: the job sent its value, or its sender was
\* dropped by a panic.
Answer(h) ==
    /\ hPc[h] = "await"
    /\ job[hJob[h]] \in {"done", "panicked"}
    /\ Tell(h, IF job[hJob[h]] = "done" THEN "answered" ELSE "unavailable")

\* The client goes away and the future of `run` is dropped: nobody reads the
\* oneshot, and the job runs all the same.
Abandon(h) == hPc[h] = "await" /\ Tell(h, "abandoned")
-----------------------------------------------------------------------------
(* Cloning and dropping a handle *)

\* A handle that is not being dropped is cloned: a request takes its own.
Clone(h) ==
    /\ hPc[h] = "none"
    /\ \E g \in Handles : hPc[g] \in {"live", "notify_one", "await"}
    /\ hPc' = [hPc EXCEPT ![h] = "live"]
    /\ UNCHANGED <<poolVars, hJob, job, outcome>>

\* The handle goes out of scope; its Drop has not looked at the count yet.
BeginDrop(h) ==
    /\ hPc[h] = "live"
    /\ hPc' = [hPc EXCEPT ![h] = "dropping"]
    /\ UNCHANGED <<poolVars, hJob, job, outcome>>

ReadCount_OffByOne(h) ==
    /\ hPc[h] = "dropping"
    /\ hPc' = [hPc EXCEPT ![h] =
                  IF Cardinality(Counted) > 2 THEN "release" ELSE "close"]
    /\ UNCHANGED <<poolVars, hJob, job, outcome>>

\* Drop reads the count, in which its own handle is still included.
ReadCount(h) ==
    /\ hPc[h] = "dropping"
    /\ hPc' = [hPc EXCEPT ![h] =
                  IF Cardinality(Counted) > 1 THEN "release" ELSE "close"]
    /\ UNCHANGED <<poolVars, hJob, job, outcome>>

\* Under the lock: the queue is closed.
Close(h) ==
    /\ hPc[h] = "close"
    /\ open' = FALSE
    /\ hPc' = [hPc EXCEPT ![h] = "notify_all"]
    /\ UNCHANGED <<queue, depth, slotPc, slotJob, hJob, job, outcome>>

NotifyAll_One(h) ==
    /\ hPc[h] = "notify_all"
    /\ IF Waiting = {} THEN UNCHANGED slotPc
       ELSE \E t \in Waiting : slotPc' = [slotPc EXCEPT ![t] = "ready"]
    /\ hPc' = [hPc EXCEPT ![h] = "release"]
    /\ UNCHANGED <<queue, open, depth, slotJob, hJob, job, outcome>>

\* notify_all: every waiting thread wakes.
NotifyAll(h) ==
    /\ hPc[h] = "notify_all"
    /\ slotPc' = [t \in Slots |-> IF t \in Waiting THEN "ready" ELSE slotPc[t]]
    /\ hPc' = [hPc EXCEPT ![h] = "release"]
    /\ UNCHANGED <<queue, open, depth, slotJob, hJob, job, outcome>>

\* The body of Drop is over and the fields go: the count falls by one.
ReleaseHandle(h) ==
    /\ hPc[h] = "release"
    /\ hPc' = [hPc EXCEPT ![h] = "none"]
    /\ UNCHANGED <<poolVars, hJob, job, outcome>>

\* What a holder's thread does without anyone asking for it: finish a call or
\* a drop it has begun.
HolderStep(h) ==
    \/ \E next \in {"await", "live"} : NotifyOne(h, next)
    \/ Answer(h)
    \/ ReadCount(h) \/ Close(h) \/ NotifyAll(h) \/ ReleaseHandle(h)
-----------------------------------------------------------------------------
Next ==
    \/ \E t \in Slots : SlotStep(t) \/ SpuriousWake(t)
    \/ \E h \in Handles : \/ HolderStep(h)
                          \/ \E j \in Jobs : PostAccepted(h, j) \/ PostRefused(h, j)
                          \/ Abandon(h) \/ Clone(h) \/ BeginDrop(h)

Spec == Init /\ [][Next]_vars

\* The scheduler runs every thread that can move, a job body returns, and a
\* call or a drop that began is finished. Nobody has to post, clone, drop or
\* go away, and no thread wakes spuriously.
Fairness == /\ \A t \in Slots : WF_vars(SlotStep(t))
            /\ \A h \in Handles : WF_vars(HolderStep(h))

FairSpec == Spec /\ Fairness
-----------------------------------------------------------------------------
(* Safety *)

\* `depth` is "Running plus queued jobs" (worker.rs:115): a job is counted from
\* the critical section that queues it until after its body is over, a panic
\* included, and never twice.
DepthCountsAcceptedJobs == depth = Len(queue) + Cardinality(Busy)

\* A replica never holds more than `slots` running and QUEUE_DEPTH queued jobs,
\* whatever the interleaving of posts, wake-ups and completions.
AdmissionIsBounded == /\ Len(queue) <= QueueDepth
                      /\ depth <= Cardinality(Slots) + QueueDepth

\* No wake-up is lost: while a slot sleeps, every queued job is matched by a
\* slot already awake and looking, or by a notification still to be sent.
NoLostWakeup == Waiting # {} => Len(queue) <= Cardinality(Ready) + Cardinality(Notifying)

\* The queue is closed only behind the back of nobody: once `open` is cleared no
\* handle is left that could post, wait or be cloned, so the Unavailable of
\* `post` is never the answer to a live caller.
ClosedMeansNoCaller ==
    ~open => \A h \in Handles : hPc[h] \in {"none", "notify_all", "release"}

\* What a caller is told is what happened to its job: Full and Unavailable are
\* said of a job that did not and will not complete, an answer of one that did.
OutcomeIsTruthful ==
    \A j \in Jobs :
        /\ outcome[j] = "answered" => job[j] = "done"
        /\ outcome[j] = "full" => job[j] = "refused"
        /\ outcome[j] = "unavailable" => job[j] = "panicked"
        /\ job[j] = "refused" => outcome[j] = "full"

\* An accepted job is in exactly one place: once in the queue, or on one slot.
AcceptedJobsAreHeldOnce ==
    \A j \in Jobs :
        /\ Cardinality({i \in DOMAIN queue : queue[i] = j})
              = IF job[j] = "queued" THEN 1 ELSE 0
        /\ Cardinality({t \in Slots : slotPc[t] = "running" /\ slotJob[t] = j})
              = IF job[j] = "running" THEN 1 ELSE 0

\* To its callers the pool is a JobServer: jobs are served in the order they were
\* accepted, once each, and refused only while QUEUE_DEPTH wait; that handles come
\* and go, that the queue is closed and that threads sleep and exit does not show.
Server == INSTANCE JobServer WITH
    Workers <- Slots, Depth <- QueueDepth, line <- queue, fate <- job, told <- outcome,
    serving <- [t \in Slots |-> IF slotPc[t] = "running" THEN slotJob[t] ELSE NoJob]
PoolServes == Server!Spec

\* "Cleared when the last public handle drops" (worker.rs:34): no handle is left
\* that could clear it later.
LastDropCloses == Counted = {} => ~open
-----------------------------------------------------------------------------
(* Liveness *)

\* "Every accepted job runs to completion" (worker.rs:3), whether or not its
\* caller is still there and whether or not the pool is being closed; a caller
\* that stays is told so; and the threads of a closed queue leave their waits and
\* exit (worker.rs:34-35). None of the three is undone, and each job is posted
\* once, so that they come about if they hold together again and again.
AcceptedJobsComplete ==
    []<>(/\ \A j \in Jobs : job[j] \notin {"queued", "running"}
         /\ \A h \in Handles : hPc[h] # "await"
         /\ ~open => \A t \in Slots : slotPc[t] = "exited")
=============================================================================
