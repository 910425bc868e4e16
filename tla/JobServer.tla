------------------------------ MODULE JobServer ------------------------------
(***************************************************************************)
(* What the generation pool is to those who use it, "slots + QUEUE_DEPTH"  *)
(* jobs and no locks: a short line of jobs, served in the order they came  *)
(* by workers that never leave, each job once, with one true answer for    *)
(* every caller who waits for it.                                          *)
(***************************************************************************)
EXTENDS Naturals, Sequences

CONSTANTS Workers, \* who serves
          Jobs,    \* what may be asked for, each once
          Depth,   \* how long the line may be
          NoJob    \* what an idle worker serves

VARIABLES line,    \* the jobs that wait, the oldest first
          serving, \* the job each worker is at, if any
          fate,    \* what has become of each job
          told     \* what has been said to whoever asked for it

vars == <<line, serving, fate, told>>
-----------------------------------------------------------------------------
Init ==
    /\ line = <<>>
    /\ serving = [w \in Workers |-> NoJob]
    /\ fate = [j \in Jobs |-> "new"]
    /\ told = [j \in Jobs |-> "none"]

Accept(j) ==
    /\ fate[j] = "new" /\ Len(line) < Depth
    /\ line' = Append(line, j)
    /\ fate' = [fate EXCEPT ![j] = "queued"]
    /\ told' = [told EXCEPT ![j] = "accepted"]
    /\ UNCHANGED serving

\* The line is full: the one reason to turn a job away.
Refuse(j) ==
    /\ fate[j] = "new" /\ Len(line) = Depth
    /\ fate' = [fate EXCEPT ![j] = "refused"]
    /\ told' = [told EXCEPT ![j] = "full"]
    /\ UNCHANGED <<line, serving>>

Start(w) ==
    /\ serving[w] = NoJob /\ line # <<>>
    /\ serving' = [serving EXCEPT ![w] = Head(line)]
    /\ line' = Tail(line)
    /\ fate' = [fate EXCEPT ![Head(line)] = "running"]
    /\ UNCHANGED told

Finish(w, result) ==
    /\ serving[w] # NoJob
    /\ fate' = [fate EXCEPT ![serving[w]] = result]
    /\ serving' = [serving EXCEPT ![w] = NoJob]
    /\ UNCHANGED <<line, told>>

\* Whoever still waits hears of its end, once.
Answer(j) ==
    /\ told[j] = "accepted" /\ fate[j] \in {"done", "panicked"}
    /\ told' = [told EXCEPT ![j] = IF fate[j] = "done" THEN "answered" ELSE "unavailable"]
    /\ UNCHANGED <<line, serving, fate>>

\* ... or has left.
Leave(j) ==
    /\ told[j] = "accepted"
    /\ told' = [told EXCEPT ![j] = "abandoned"]
    /\ UNCHANGED <<line, serving, fate>>
-----------------------------------------------------------------------------
Next ==
    \/ \E j \in Jobs : Accept(j) \/ Refuse(j) \/ Answer(j) \/ Leave(j)
    \/ \E w \in Workers : Start(w) \/ \E result \in {"done", "panicked"} : Finish(w, result)

Spec == Init /\ [][Next]_vars
=============================================================================
