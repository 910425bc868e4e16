----------------------------- MODULE GatewayLog -----------------------------
(***************************************************************************)
(* The gateway's JSONL evidence sink, GatewayLog in                        *)
(* src/crates/gateway/src/lib.rs, and its flush at shutdown                *)
(* (gateway/src/main.rs).                                                  *)
(*                                                                         *)
(* Request tasks hand records to one writer thread through a bounded       *)
(* channel; a flush takes the sender away, which lets the writer drain and *)
(* stop, and waits for it up to a deadline. One mutex covers the sender and *)
(* the completion signal; the counters are atomics beside it.              *)
(***************************************************************************)
EXTENDS Integers, Sequences, FiniteSets

CONSTANTS Tasks,      \* request tasks that write records
          Flushers,   \* threads that flush the log
          Capacity,   \* MAX_PENDING_LOG_RECORDS
          MaxRecords, \* bound: the records a task writes
          NoOne       \* the holder of a free lock

ASSUME LogAssumption ==
    /\ IsFiniteSet(Tasks) /\ IsFiniteSet(Flushers)
    /\ Tasks \cap Flushers = {} /\ NoOne \notin Tasks \cup Flushers
    /\ Capacity \in Nat \ {0} /\ MaxRecords \in Nat

VARIABLES lock,      \* who holds `channel`'s mutex across a step
          sender,    \* where the one record sender is: "slot", "taken" or "dropped"
          signal,    \* where the completion receiver is: "slot" or "taken"
          buffer,    \* the records in the bounded channel
          queued,    \* queued_records
          written,   \* written_records
          dropped,   \* dropped_records
          taskPc,    \* where each task is in `write`
          wrote,     \* the records each task has submitted
          writerPc,  \* where the writer thread is
          writing,   \* the record it has received and not yet counted
          file,      \* the records it is done with, and whether each reached the file
          flushPc,   \* where each flusher is
          pending,   \* pending_at_deadline, as each flusher reported it
          accepted   \* the records try_send accepted, in order (history)

taskVars   == <<taskPc, wrote, accepted, dropped>>
writerVars == <<writerPc, writing, file, written>>
flushVars  == <<flushPc, pending, sender, signal>>
sinkVars == <<lock, buffer, queued, taskVars, writerVars, flushVars>>
-----------------------------------------------------------------------------
Records   == Tasks \X (1..MaxRecords)
TaskPcs   == {"idle", "counting", "dropping"}
WriterPcs == {"recv", "write", "count", "stopping", "stopped"}
FlushPcs  == {"idle", "took", "waiting", "Drained", "TimedOut", "AlreadyStopped"}

LogTypeOK ==
    /\ lock \in Tasks \cup {NoOne}
    /\ sender \in {"slot", "taken", "dropped"} /\ signal \in {"slot", "taken"}
    /\ buffer \in Seq(Records) /\ accepted \in Seq(Records)
    /\ queued \in Nat /\ written \in Nat /\ dropped \in Nat
    /\ taskPc \in [Tasks -> TaskPcs] /\ wrote \in [Tasks -> 0..MaxRecords]
    /\ writerPc \in WriterPcs /\ writing \in Seq(Records)
    /\ file \in Seq(Records \X BOOLEAN)
    /\ flushPc \in [Flushers -> FlushPcs] /\ pending \in [Flushers -> Nat]

\* The record the writer thread has in hand and has not counted, if any.
InHand == IF writerPc \in {"write", "count"} THEN 1 ELSE 0

\* The record a task has sent and not counted yet, if any.
Uncounted == IF lock \in Tasks THEN 1 ELSE 0
-----------------------------------------------------------------------------
\* open: the file is open, the writer runs, both halves are in their slots.
LogInit ==
    /\ lock = NoOne /\ sender = "slot" /\ signal = "slot"
    /\ buffer = <<>> /\ accepted = <<>>
    /\ queued = 0 /\ written = 0 /\ dropped = 0
    /\ taskPc = [t \in Tasks |-> "idle"] /\ wrote = [t \in Tasks |-> 0]
    /\ writerPc = "recv" /\ writing = <<>> /\ file = <<>>
    /\ flushPc = [f \in Flushers |-> "idle"] /\ pending = [f \in Flushers |-> 0]
-----------------------------------------------------------------------------
(* A request task: write and record_drop *)

Submit(t) ==
    /\ taskPc[t] = "idle" /\ wrote[t] < MaxRecords
    /\ wrote' = [wrote EXCEPT ![t] = @ + 1]

Accept(t) ==
    /\ Submit(t)
    /\ buffer' = Append(buffer, <<t, wrote[t] + 1>>)
    /\ accepted' = Append(accepted, <<t, wrote[t] + 1>>)
    /\ UNCHANGED <<queued, dropped, writerVars, flushVars>>

Send_CountedOutsideTheLock(t) ==
    /\ lock = NoOne /\ sender = "slot" /\ writerPc # "stopped"
    /\ Len(buffer) < Capacity
    /\ Accept(t)
    /\ taskPc' = [taskPc EXCEPT ![t] = "counting"]
    /\ UNCHANGED lock

\* Under the lock: the sender is there and the channel has room. The lock is
\* kept for the count.
Send(t) ==
    /\ lock = NoOne /\ sender = "slot" /\ writerPc # "stopped"
    /\ Len(buffer) < Capacity
    /\ Accept(t)
    /\ lock' = t
    /\ taskPc' = [taskPc EXCEPT ![t] = "counting"]

Count_OnceThereIsRoom(t) ==
    /\ taskPc[t] = "counting" /\ Len(buffer) < Capacity
    /\ queued' = queued + 1
    /\ lock' = NoOne
    /\ taskPc' = [taskPc EXCEPT ![t] = "idle"]
    /\ UNCHANGED <<buffer, wrote, accepted, dropped, writerVars, flushVars>>

\* queued_records.fetch_add, and the lock is released.
Count(t) ==
    /\ taskPc[t] = "counting"
    /\ queued' = queued + 1
    /\ lock' = NoOne
    /\ taskPc' = [taskPc EXCEPT ![t] = "idle"]
    /\ UNCHANGED <<buffer, wrote, accepted, dropped, writerVars, flushVars>>

\* Under the lock: the sender was taken, the channel is full, or its receiver is
\* gone. try_send does not wait.
Refuse(t) ==
    /\ lock = NoOne
    /\ sender # "slot" \/ Len(buffer) >= Capacity \/ writerPc = "stopped"
    /\ Submit(t)
    /\ taskPc' = [taskPc EXCEPT ![t] = "dropping"]
    /\ UNCHANGED <<lock, buffer, queued, accepted, dropped, writerVars, flushVars>>

\* record_drop, outside the lock.
RecordDrop(t) ==
    /\ taskPc[t] = "dropping"
    /\ dropped' = dropped + 1
    /\ taskPc' = [taskPc EXCEPT ![t] = "idle"]
    /\ UNCHANGED <<lock, buffer, queued, wrote, accepted, writerVars, flushVars>>

\* What a task does of itself once it is inside `write`.
TaskReturns(t) == Count(t) \/ RecordDrop(t)
-----------------------------------------------------------------------------
(* The writer thread: write_jsonl_records *)

Receive_AfterTheCut ==
    /\ writerPc = "recv" /\ buffer # <<>> /\ sender # "dropped"
    /\ writing' = <<Head(buffer)>>
    /\ buffer' = Tail(buffer)
    /\ writerPc' = "write"
    /\ UNCHANGED <<lock, queued, taskVars, file, written, flushVars>>

\* The next record; what was buffered when the sender went is still received.
Receive ==
    /\ writerPc = "recv" /\ buffer # <<>>
    /\ writing' = <<Head(buffer)>>
    /\ buffer' = Tail(buffer)
    /\ writerPc' = "write"
    /\ UNCHANGED <<lock, queued, taskVars, file, written, flushVars>>

\* write_all, which may fail; the record is finished with either way.
WriteAll(ok) ==
    /\ writerPc = "write"
    /\ file' = Append(file, <<Head(writing), ok>>)
    /\ writing' = <<>>
    /\ writerPc' = "count"
    /\ UNCHANGED <<lock, buffer, queued, taskVars, written, flushVars>>

CountWritten ==
    /\ writerPc = "count"
    /\ written' = written + 1
    /\ writerPc' = "recv"
    /\ UNCHANGED <<lock, buffer, queued, taskVars, writing, file, flushVars>>

Disconnect_WithBacklog ==
    /\ writerPc = "recv" /\ sender = "dropped"
    /\ writerPc' = "stopping"
    /\ UNCHANGED <<lock, buffer, queued, taskVars, writing, file, written, flushVars>>

\* The iterator ends only when the sender is gone and the buffer is empty.
Disconnect ==
    /\ writerPc = "recv" /\ sender = "dropped" /\ buffer = <<>>
    /\ writerPc' = "stopping"
    /\ UNCHANGED <<lock, buffer, queued, taskVars, writing, file, written, flushVars>>

\* The completion signal is sent; nobody may be waiting for it any more.
SignalStopped ==
    /\ writerPc = "stopping"
    /\ writerPc' = "stopped"
    /\ UNCHANGED <<lock, buffer, queued, taskVars, writing, file, written, flushVars>>

WriterStep == \/ Receive \/ CountWritten \/ Disconnect \/ SignalStopped
              \/ \E ok \in BOOLEAN : WriteAll(ok)
-----------------------------------------------------------------------------
(* flush_and_stop *)

\* Both halves come out under one lock, or neither does.
Take(f) ==
    /\ flushPc[f] = "idle" /\ lock = NoOne
    /\ IF sender = "slot" /\ signal = "slot"
       THEN /\ sender' = "taken" /\ signal' = "taken"
            /\ flushPc' = [flushPc EXCEPT ![f] = "took"]
       ELSE /\ flushPc' = [flushPc EXCEPT ![f] = "AlreadyStopped"]
            /\ UNCHANGED <<sender, signal>>
    /\ UNCHANGED <<lock, buffer, queued, taskVars, writerVars, pending>>

DropSender(f) ==
    /\ flushPc[f] = "took"
    /\ sender' = "dropped"
    /\ flushPc' = [flushPc EXCEPT ![f] = "waiting"]
    /\ UNCHANGED <<lock, buffer, queued, taskVars, writerVars, signal, pending>>

\* recv_timeout finds the signal.
Drained(f) ==
    /\ flushPc[f] = "waiting" /\ writerPc = "stopped"
    /\ flushPc' = [flushPc EXCEPT ![f] = "Drained"]
    /\ UNCHANGED <<lock, buffer, queued, taskVars, writerVars, sender, signal, pending>>

TimedOut_CountsBuffer(f) ==
    /\ flushPc[f] = "waiting" /\ writerPc # "stopped"
    /\ pending' = [pending EXCEPT ![f] = Len(buffer)]
    /\ flushPc' = [flushPc EXCEPT ![f] = "TimedOut"]
    /\ UNCHANGED <<lock, buffer, queued, taskVars, writerVars, sender, signal>>

TimedOut_Swapped(f) ==
    /\ flushPc[f] = "waiting" /\ writerPc # "stopped"
    /\ pending' = [pending EXCEPT ![f] = written - queued]
    /\ flushPc' = [flushPc EXCEPT ![f] = "TimedOut"]
    /\ UNCHANGED <<lock, buffer, queued, taskVars, writerVars, sender, signal>>

TimedOut_NoDeadline(f) == flushPc[f] = "waiting" /\ FALSE /\ UNCHANGED sinkVars

\* The deadline passes first, at any moment. The two loads are one step: what is
\* queued no longer moves, and a `written` read later only counts fewer.
TimedOut(f) ==
    /\ flushPc[f] = "waiting" /\ writerPc # "stopped"
    /\ pending' = [pending EXCEPT ![f] = IF queued >= written THEN queued - written ELSE 0]
    /\ flushPc' = [flushPc EXCEPT ![f] = "TimedOut"]
    /\ UNCHANGED <<lock, buffer, queued, taskVars, writerVars, sender, signal>>

FlusherReturns(f) == DropSender(f) \/ Drained(f) \/ TimedOut(f)
-----------------------------------------------------------------------------
LogNext ==
    \/ \E t \in Tasks : Send(t) \/ Refuse(t) \/ TaskReturns(t)
    \/ WriterStep
    \/ \E f \in Flushers : Take(f) \/ FlusherReturns(f)

LogSpec == LogInit /\ [][LogNext]_sinkVars

\* Tasks and flushers run, and a flush asked for gets the lock. The writer need
\* not: a stuck filesystem may hold it in write_all for ever.
CallerFairSpec ==
    /\ LogSpec
    /\ \A t \in Tasks : WF_sinkVars(TaskReturns(t))
    /\ \A f \in Flushers : WF_sinkVars(FlusherReturns(f))
-----------------------------------------------------------------------------
(* Safety *)

\* No record is lost between the counters: what was accepted is queued, or sent
\* and about to be counted; and it is buffered, in the writer's hands, or counted
\* as written.
CountsAddUp == queued + Uncounted = Len(buffer) + InHand + written

\* "The writer drained every accepted record and stopped" (lib.rs:194): nothing
\* is left behind, and nothing can follow.
DrainedMeansWritten ==
    \A f \in Flushers : flushPc[f] = "Drained" =>
        /\ sender = "dropped" /\ writerPc = "stopped" /\ buffer = <<>>
        /\ queued = written /\ Len(file) = Len(accepted)

\* pending_at_deadline "is an upper bound on the loss" (lib.rs:202-203): whenever
\* the process exits after a flush timed out, the accepted records the writer has
\* not finished with are no more than was reported.
PendingBoundsTheLoss ==
    \A f \in Flushers : flushPc[f] = "TimedOut" =>
        Len(accepted) - Len(file) <= pending[f]

\* "no record can be accepted after a flush has decided what the totals are"
\* (lib.rs:306-308).
NothingAcceptedAfterFlush ==
    [][sender # "slot" => accepted' = accepted /\ queued' = queued]_sinkVars
-----------------------------------------------------------------------------
(* Liveness *)

\* "Runtime writes never block a request task" (lib.rs:152), and a flush is
\* bounded by its deadline, even on a filesystem that is stuck for ever.
NobodyWaitsForTheWriter ==
    /\ \A t \in Tasks : (taskPc[t] # "idle") ~> (taskPc[t] = "idle")
    /\ \A f \in Flushers : (flushPc[f] \in {"took", "waiting"}) ~> (flushPc[f] \in {"Drained", "TimedOut"})

\* "Giving up does not stop the writer" (lib.rs:261): if writes return, a log whose
\* sender is gone is drained, however the flush ended.
WriterDrains ==
    WF_sinkVars(WriterStep) =>
        ((sender = "dropped") ~> (writerPc = "stopped" /\ Len(file) = Len(accepted)))

\* Both: callers need no writer, and the writer needs no one who still waits.
LogKeepsMoving == NobodyWaitsForTheWriter /\ WriterDrains
=============================================================================
