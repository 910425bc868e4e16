----------------------- MODULE StreamGenerationProofs -----------------------
(***************************************************************************)
(* What StreamGeneration guarantees for any streams, slots, buffer and     *)
(* token budgets.                                                          *)
(***************************************************************************)
EXTENDS StreamGeneration, FiniteSetTheorems, TLAPS

\* The terminal event that tells a client what became of a job.
TellsOf == [completed |-> "finished", failed |-> "failed", panicked |-> "worker_failed"]

\* A channel that holds the tokens n + 1 .. n + c of what was decoded, then the
\* last of the job's events if it was sent and not yet received (u = 1).
Buffers(s, n, c, u) ==
    /\ Len(channel[s]) = c + u /\ Len(channel[s]) <= EventBuffer
    /\ n + c <= Len(text[s])
    /\ \A i \in 1..c : channel[s][i] = Event("delta", text[s][n + i])
    /\ u = 1 => /\ job[s] \in {"completed", "failed"} /\ n + c = Len(text[s])
                /\ channel[s][c + 1] = Event(TellsOf[job[s]], 0)

\* Where the body is decides what it has passed on.
Passes(s, r, n, t) ==
    /\ body[s] = "none" => r + n + t = 0 /\ job[s] \in {"unposted", "refused"}
    /\ job[s] \in {"unposted", "refused"} => body[s] = "none" /\ text[s] = <<>>
    /\ body[s] = "role" => r + n + t = 0
    /\ body[s] = "open" => t = 0
    /\ body[s] = "done_marker" => t = 1
    /\ body[s] = "gone" => t <= 1
    /\ t >= 1 => /\ channel[s] = <<>> /\ job[s] \in {"completed", "failed", "panicked"}
                 /\ seen[s][r + n + 1] = Event(TellsOf[job[s]], 0)
    /\ Closed(s) => channel[s] = <<>>

\* While the body can still pass text on, everything decoded has been received or
\* is in the channel, but for the token whose callback is running.
NothingIsMissing(s, n, c, u) ==
    body[s] \in {"role", "open"} =>
        /\ job[s] # "cancelled"
        /\ job[s] = "queued" => text[s] = <<>>
        /\ job[s] \in {"computing", "terminal", "panicked"} => n + c = Len(text[s]) /\ u = 0
        /\ job[s] \in {"on_token", "sending"} =>
               /\ u = 0
               /\ ~pending[s].has_text => n + c = Len(text[s])
               /\ pending[s].has_text =>
                      n + c + 1 = Len(text[s]) /\ text[s][Len(text[s])] = tokens[s]
        /\ job[s] \in {"completed", "failed"} => u = 1

Shape(s, r, n, t, c, u) ==
    /\ n <= Len(text[s]) /\ ReadsAs(seen[s], text[s], r, n, t)
    /\ Buffers(s, n, c, u) /\ Passes(s, r, n, t) /\ NothingIsMissing(s, n, c, u)

StreamInv(s) == \E r \in 0..1, n \in Nat, t \in 0..2, c \in Nat, u \in 0..1 : Shape(s, r, n, t, c, u)

\* The decode loop is within its budget, and between a callback and its end the
\* job knows why.
LoopInv(s) ==
    /\ tokens[s] <= budget[s]
    /\ job[s] = "computing" /\ budget[s] > 0 => tokens[s] < budget[s]
    /\ job[s] \in {"on_token", "sending"} => tokens[s] > 0
    /\ job[s] = "sending" => pending[s].has_text
    /\ job[s] = "terminal" => pending[s].event \in {"finished", "failed"}
    /\ job[s] \in {"unposted", "refused", "queued"} => tokens[s] = 0

\* A token is chosen for a client that left only where the job then finds out.
LateInv(s) ==
    /\ late[s] <= 1
    /\ late[s] = 1 => Closed(s) /\ job[s] \in {"on_token", "terminal"} \cup Over

Inv == TypeOK /\ \A s \in Streams : StreamInv(s) /\ LoopInv(s) /\ LateInv(s)
-----------------------------------------------------------------------------
(* Reading one more event *)

\* More text does not change what has been read, as long as the end has not been.
LEMMA MoreText ==
    ASSUME NEW events, NEW decoded \in Seq(Nat), NEW x \in Nat,
           NEW r \in 0..1, NEW n \in 0..Len(decoded), ReadsAs(events, decoded, r, n, 0)
    PROVE  ReadsAs(events, Append(decoded, x), r, n, 0)
    BY DEF ReadsAs

LEMMA ReadRole ==
    ASSUME NEW events \in Seq(SeenEvents), NEW decoded \in Seq(Nat),
           ReadsAs(events, decoded, 0, 0, 0)
    PROVE  ReadsAs(Append(events, Event("role", 0)), decoded, 1, 0, 0)
    BY DEF ReadsAs

\* The next token's text.
LEMMA ReadDelta ==
    ASSUME NEW events \in Seq(SeenEvents), NEW decoded \in Seq(Nat),
           NEW r \in 0..1, NEW n \in 0..Len(decoded), n < Len(decoded),
           ReadsAs(events, decoded, r, n, 0)
    PROVE  ReadsAs(Append(events, Event("delta", decoded[n + 1])), decoded, r, n + 1, 0)
    <1> DEFINE more == Append(events, Event("delta", decoded[n + 1]))
    <1>1. Len(events) = r + n /\ Len(more) = r + n + 1
        BY DEF ReadsAs
    <1>2. \A i \in 1..(r + n) : more[i] = events[i]
        BY <1>1
    <1>3. more[r + n + 1] = Event("delta", decoded[n + 1])
        BY <1>1
    <1>4. \A i \in 1..(n + 1) : more[r + i] = Event("delta", decoded[i])
        BY <1>2, <1>3 DEF ReadsAs
    <1>5. r = 1 => more[1] = Event("role", 0)
        BY <1>2 DEF ReadsAs
    <1>6. QED
        BY <1>1, <1>4, <1>5 DEF ReadsAs

\* The terminal event, once there is no more text to read.
LEMMA ReadTerminal ==
    ASSUME NEW events \in Seq(SeenEvents), NEW decoded \in Seq(Nat), NEW event \in Terminals,
           NEW r \in 0..1, NEW n \in Nat, n = Len(decoded), ReadsAs(events, decoded, r, n, 0)
    PROVE  ReadsAs(Append(events, event), decoded, r, n, 1)
    <1> DEFINE more == Append(events, event)
    <1>1. Len(events) = r + n /\ Len(more) = r + n + 1 /\ n \in Nat
        BY DEF ReadsAs
    <1>2. \A i \in 1..(r + n) : more[i] = events[i]
        BY <1>1
    <1>3. more[r + n + 1] = event
        BY <1>1
    <1>4. \A i \in 1..n : more[r + i] = Event("delta", decoded[i])
        BY <1>1, <1>2 DEF ReadsAs
    <1>5. r = 1 => more[1] = Event("role", 0)
        BY <1>1, <1>2 DEF ReadsAs
    <1>6. QED
        BY <1>1, <1>3, <1>4, <1>5 DEF ReadsAs

LEMMA ReadDone ==
    ASSUME NEW events \in Seq(SeenEvents), NEW decoded \in Seq(Nat),
           NEW r \in 0..1, NEW n \in 0..Len(decoded), ReadsAs(events, decoded, r, n, 1)
    PROVE  LET more == Append(events, Event("[DONE]", 0))
           IN  ReadsAs(more, decoded, r, n, 2) /\ more[r + n + 1] = events[r + n + 1]
    <1> DEFINE more == Append(events, Event("[DONE]", 0))
    <1>1. Len(events) = r + n + 1 /\ Len(more) = r + n + 2
        BY DEF ReadsAs
    <1>2. \A i \in 1..(r + n + 1) : more[i] = events[i]
        BY <1>1
    <1>3. more[r + n + 2] = Event("[DONE]", 0)
        BY <1>1
    <1>4. \A i \in 1..n : more[r + i] = Event("delta", decoded[i])
        BY <1>1, <1>2 DEF ReadsAs
    <1>5. r = 1 => more[1] = Event("role", 0)
        BY <1>1, <1>2 DEF ReadsAs
    <1>6. more[r + n + 1] \in Terminals /\ n = Len(decoded)
        BY <1>1, <1>2 DEF ReadsAs
    <1>7. QED
        BY <1>1, <1>2, <1>3, <1>4, <1>5, <1>6 DEF ReadsAs
-----------------------------------------------------------------------------
(* The types, and what a step leaves alone *)

LEMMA ConstantFacts ==
    /\ MaxBudget \in Nat /\ EventBuffer \in Nat /\ EventBuffer >= 1
    /\ \A s \in Streams : Budgets[s] \subseteq 0..MaxBudget
    BY StreamAssumption DEF StreamAssumption

StateOf(s) == <<job[s], budget[s], tokens[s], pending[s], text[s], channel[s],
                body[s], seen[s], late[s]>>

\* Everything a stream's own steps are: the job's, the body's, the client's.
StepOf(s) ==
    \/ \E chat \in BOOLEAN : Post(s, chat)
    \/ PostRefused(s) \/ JobStep(s) \/ Poll(s) \/ Leave(s)

LEMMA TypeInit == Init => TypeOK
    <1> SUFFICES ASSUME Init PROVE TypeOK
        OBVIOUS
    <1>1. NoToken \in Pendings
        BY DEF NoToken, Pendings
    <1>2. QED
        BY <1>1, ConstantFacts DEF Init, TypeOK, JobPcs, BodyPcs

\* What the job's steps may append to a channel, and the body to what was seen.
LEMMA Events ==
    /\ \A n \in 1..MaxBudget : Event("delta", n) \in Deltas
    /\ Event("finished", 0) \in JobEvents \cap Terminals
    /\ Event("failed", 0) \in JobEvents \cap Terminals
    /\ Event("worker_failed", 0) \in Terminals /\ Terminals \subseteq SeenEvents
    /\ Event("role", 0) \in SeenEvents /\ Event("[DONE]", 0) \in SeenEvents
    /\ JobEvents \subseteq SeenEvents /\ Deltas \subseteq JobEvents
    BY DEF Deltas, JobEvents, Terminals, SeenEvents

LEMMA ConcludeType ==
    ASSUME TypeOK, NEW s \in Streams, NEW event \in {"finished", "failed"}, Conclude(s, event)
    PROVE  job' \in [Streams -> JobPcs] /\ pending' \in [Streams -> Pendings]
    BY DEF TypeOK, Conclude, JobPcs, NoToken, Pendings

LEMMA AfterTokenType ==
    ASSUME TypeOK, NEW s \in Streams, NEW control, AfterToken(s, control)
    PROVE  job' \in [Streams -> JobPcs] /\ pending' \in [Streams -> Pendings]
    <1>1. CASE Conclude(s, "finished")
        BY <1>1, ConcludeType
    <1>2. CASE ~Conclude(s, "finished")
        BY <1>2 DEF AfterToken, TypeOK, JobPcs
    <1>3. QED
        BY <1>1, <1>2

LEMMA SendType ==
    ASSUME TypeOK, NEW s \in Streams, NEW event \in JobEvents,
           channel' = [channel EXCEPT ![s] = Append(@, event)]
    PROVE  channel' \in [Streams -> Seq(JobEvents)]
    <1>1. channel \in [Streams -> Seq(JobEvents)]
        BY DEF TypeOK
    <1>2. Append(channel[s], event) \in Seq(JobEvents)
        BY <1>1
    <1>3. QED
        BY <1>1, <1>2

LEMMA TypeStep ==
    ASSUME TypeOK, NEW s \in Streams, LoopInv(s), StepOf(s)
    PROVE  TypeOK'
    <1> USE ConstantFacts
    <1>1. CASE \E chat \in BOOLEAN : Post(s, chat)
        BY <1>1 DEF TypeOK, Post, JobPcs, BodyPcs
    <1>2. CASE PostRefused(s)
        BY <1>2 DEF TypeOK, PostRefused, bodyVars, JobPcs
    <1>3. CASE Begin(s)
        BY <1>3 DEF TypeOK, Begin, bodyVars, JobPcs
    <1>4. ASSUME NEW has_text \in BOOLEAN, NEW eog \in BOOLEAN, Choose(s, has_text, eog)
          PROVE  TypeOK'
        <2>1. tokens[s] + 1 \in 1..MaxBudget
            BY <1>4 DEF Choose, LoopInv, TypeOK
        <2>2. [NoToken EXCEPT !.has_text = has_text, !.eog = eog] \in Pendings
            BY DEF NoToken, Pendings
        <2>3. text' \in [Streams -> Seq(1..MaxBudget)]
            BY <1>4, <2>1 DEF Choose, TypeOK
        <2>4. late' \in [Streams -> Nat]
            BY <1>4 DEF Choose, TypeOK
        <2>5. QED
            BY <1>4, <2>1, <2>2, <2>3, <2>4 DEF Choose, TypeOK, bodyVars, JobPcs
    <1>5. CASE CompleteEmpty(s)
        BY <1>5, ConcludeType DEF TypeOK, CompleteEmpty, bodyVars
    <1>6. CASE Fail(s)
        BY <1>6, ConcludeType DEF TypeOK, Fail, bodyVars
    <1>7. CASE Panic(s)
        BY <1>7 DEF TypeOK, Panic, bodyVars, JobPcs
    <1>8. CASE OnToken(s)
        <2>1. job' \in [Streams -> JobPcs] /\ pending' \in [Streams -> Pendings]
            <3>1. CASE AfterToken(s, "Cancel") \/ AfterToken(s, "Continue")
                BY <3>1, AfterTokenType
            <3>2. CASE job' = [job EXCEPT ![s] = "sending"] /\ UNCHANGED pending
                BY <3>2 DEF TypeOK, JobPcs
            <3>3. QED
                BY <1>8, <3>1, <3>2 DEF OnToken
        <2>2. QED
            BY <1>8, <2>1 DEF TypeOK, OnToken, bodyVars
    <1>9. CASE SendDelta(s)
        <2>1. job' \in [Streams -> JobPcs] /\ pending' \in [Streams -> Pendings]
            BY <1>9, AfterTokenType DEF SendDelta
        <2>2. tokens[s] \in 1..MaxBudget
            BY <1>9 DEF TypeOK, LoopInv, SendDelta
        <2>3. Event("delta", tokens[s]) \in JobEvents
            BY <2>2, Events
        <2>4. channel' \in [Streams -> Seq(JobEvents)]
            BY <1>9, <2>3, SendType DEF SendDelta
        <2>5. QED
            BY <1>9, <2>1, <2>4 DEF TypeOK, SendDelta, bodyVars
    <1>10. CASE SendDeltaFails(s)
        <2>1. job' \in [Streams -> JobPcs] /\ pending' \in [Streams -> Pendings]
            BY <1>10, AfterTokenType DEF SendDeltaFails
        <2>2. QED
            BY <1>10, <2>1 DEF TypeOK, SendDeltaFails, bodyVars
    <1>11. CASE SendTerminal(s)
        <2>1. Event(pending[s].event, 0) \in JobEvents
            BY <1>11, Events DEF SendTerminal, LoopInv
        <2>2. channel' \in [Streams -> Seq(JobEvents)]
            <3>1. channel \in [Streams -> Seq(JobEvents)]
                BY DEF TypeOK
            <3>2. QED
                BY <1>11, <2>1, <3>1, SendType DEF SendTerminal
        <2>3. QED
            BY <1>11, <2>2 DEF TypeOK, SendTerminal, Terminated, bodyVars, JobPcs
    <1>12. CASE PollRole(s) \/ PollClosed(s) \/ PollDone(s)
        <2>1. ASSUME NEW event \in SeenEvents, NEW next \in BodyPcs, See(s, event, next)
              PROVE  seen' \in [Streams -> Seq(SeenEvents)] /\ body' \in [Streams -> BodyPcs]
            BY <2>1 DEF TypeOK, See
        <2>2. seen' \in [Streams -> Seq(SeenEvents)] /\ body' \in [Streams -> BodyPcs]
            <3>1. "open" \in BodyPcs /\ "done_marker" \in BodyPcs /\ "end" \in BodyPcs
                BY DEF BodyPcs
            <3>2. QED
                BY <1>12, <2>1, <3>1, Events DEF PollRole, PollClosed, PollDone
        <2>3. QED
            BY <1>12, <2>2 DEF TypeOK, PollRole, PollClosed, PollDone, jobVars
    <1>13. CASE PollEvent(s)
        <2>1. Head(channel[s]) \in JobEvents /\ Tail(channel[s]) \in Seq(JobEvents)
            BY <1>13 DEF TypeOK, PollEvent
        <2>2. Head(channel[s]) \in SeenEvents
            BY <2>1, Events
        <2>3. QED
            BY <1>13, <2>1, <2>2 DEF TypeOK, PollEvent, See, jobVars, BodyPcs
    <1>14. CASE Leave(s)
        BY <1>14 DEF TypeOK, Leave, jobVars, BodyPcs
    <1>15. QED
        BY <1>1, <1>2, <1>3, <1>4, <1>5, <1>6, <1>7, <1>8, <1>9, <1>10, <1>11, <1>12, <1>13, <1>14
        DEF StepOf, JobStep, Poll

\* A step of one stream is no step of another.
LEMMA OneStream ==
    ASSUME TypeOK, NEW s \in Streams, StepOf(s), NEW q \in Streams, q # s
    PROVE  UNCHANGED StateOf(q)
    <1> USE DEF TypeOK, StateOf, jobVars, bodyVars
    <1>1. CASE (\E chat \in BOOLEAN : Post(s, chat)) \/ PostRefused(s)
        BY <1>1 DEF Post, PostRefused
    <1>2. CASE Begin(s) \/ Panic(s) \/ SendTerminal(s)
        BY <1>2 DEF Begin, Panic, SendTerminal
    <1>3. CASE \E has_text, eog \in BOOLEAN : Choose(s, has_text, eog)
        BY <1>3 DEF Choose
    <1>4. CASE CompleteEmpty(s) \/ Fail(s)
        BY <1>4 DEF CompleteEmpty, Fail, Conclude
    <1>5. CASE OnToken(s)
        BY <1>5 DEF OnToken, AfterToken, Conclude
    <1>6. CASE SendDelta(s) \/ SendDeltaFails(s)
        BY <1>6 DEF SendDelta, SendDeltaFails, AfterToken, Conclude
    <1>7. CASE Poll(s) \/ Leave(s)
        BY <1>7 DEF Poll, PollRole, PollEvent, PollClosed, PollDone, See, Leave
    <1>8. QED
        BY <1>1, <1>2, <1>3, <1>4, <1>5, <1>6, <1>7 DEF StepOf, JobStep
-----------------------------------------------------------------------------
(* The decode loop and the client that left *)

LEMMA LoopStep ==
    ASSUME TypeOK, NEW s \in Streams, LoopInv(s), StepOf(s)
    PROVE  LoopInv(s)'
    <1> USE DEF TypeOK, LoopInv, jobVars, bodyVars
    <1>1. CASE (\E chat \in BOOLEAN : Post(s, chat)) \/ PostRefused(s)
        BY <1>1 DEF Post, PostRefused
    <1>2. CASE Begin(s) \/ Panic(s)
        <2>1. budget' = budget /\ tokens' = tokens /\ tokens[s] \in Nat /\ budget[s] \in Nat
            BY <1>2, ConstantFacts DEF Begin, Panic
        <2>2. QED
            BY <1>2, <2>1 DEF Begin, Panic
    <1>3. ASSUME NEW has_text \in BOOLEAN, NEW eog \in BOOLEAN, Choose(s, has_text, eog)
          PROVE  LoopInv(s)'
        <2>1. tokens[s] \in Nat /\ budget[s] \in Nat /\ tokens[s] < budget[s]
            BY <1>3, ConstantFacts DEF Choose
        <2>2. job'[s] = "on_token" /\ budget' = budget /\ tokens'[s] = tokens[s] + 1
            BY <1>3 DEF Choose
        <2>3. QED
            BY <2>1, <2>2
    <1>4. CASE CompleteEmpty(s) \/ Fail(s)
        BY <1>4 DEF CompleteEmpty, Fail, Conclude, NoToken, Pendings
    <1>5. ASSUME NEW control \in {"Continue", "Cancel"}, AfterToken(s, control),
                 UNCHANGED <<budget, tokens>>
          PROVE  LoopInv(s)'
        BY <1>5 DEF AfterToken, Conclude, NoToken, Pendings
    <1>6. CASE OnToken(s) \/ SendDelta(s) \/ SendDeltaFails(s)
        <2>1. CASE OnToken(s) /\ job' = [job EXCEPT ![s] = "sending"] /\ UNCHANGED pending
                   /\ pending[s].has_text
            BY <2>1 DEF OnToken
        <2>2. QED
            BY <1>5, <1>6, <2>1 DEF OnToken, SendDelta, SendDeltaFails
    <1>7. CASE SendTerminal(s)
        BY <1>7 DEF SendTerminal, Terminated
    <1>8. CASE Poll(s) \/ Leave(s)
        BY <1>8 DEF Poll, PollRole, PollEvent, PollClosed, PollDone, Leave
    <1>9. QED
        BY <1>1, <1>2, <1>3, <1>4, <1>6, <1>7, <1>8 DEF StepOf, JobStep

\* Once the client has left, the callback of the token under way cancels; a token
\* is not chosen after that.
LEMMA LateStep ==
    ASSUME TypeOK, NEW s \in Streams, LateInv(s), StepOf(s)
    PROVE  LateInv(s)'
    <1> USE DEF TypeOK, LateInv, Closed, Over, jobVars, bodyVars
    <1>0. late[s] \in Nat
        OBVIOUS
    <1>1. CASE (\E chat \in BOOLEAN : Post(s, chat)) \/ PostRefused(s)
        BY <1>0, <1>1 DEF Post, PostRefused
    <1>2. CASE Begin(s) \/ Panic(s) \/ SendTerminal(s)
        BY <1>0, <1>2 DEF Begin, Panic, SendTerminal, Terminated
    <1>3. CASE \E has_text, eog \in BOOLEAN : Choose(s, has_text, eog)
        BY <1>0, <1>3 DEF Choose
    <1>4. CASE CompleteEmpty(s) \/ Fail(s)
        BY <1>0, <1>4 DEF CompleteEmpty, Fail, Conclude
    <1>5. CASE OnToken(s)
        BY <1>0, <1>5 DEF OnToken, AfterToken, Conclude
    <1>6. CASE SendDelta(s) \/ SendDeltaFails(s)
        BY <1>0, <1>6 DEF SendDelta, SendDeltaFails, AfterToken, Conclude
    <1>7. CASE Poll(s) \/ Leave(s)
        BY <1>0, <1>7 DEF Poll, PollRole, PollEvent, PollClosed, PollDone, See, Leave
    <1>8. QED
        BY <1>1, <1>2, <1>3, <1>4, <1>5, <1>6, <1>7 DEF StepOf, JobStep
-----------------------------------------------------------------------------
(* What the client has received, and what is still to come *)

\* The values a stream's state has, and the job's being on its slot.
LEMMA ValuesAt ==
    ASSUME TypeOK, NEW s \in Streams
    PROVE  /\ seen[s] \in Seq(SeenEvents) /\ text[s] \in Seq(Nat) /\ channel[s] \in Seq(JobEvents)
           /\ job[s] \in JobPcs /\ body[s] \in BodyPcs /\ pending[s] \in Pendings
           /\ tokens[s] \in Nat /\ Len(text[s]) \in Nat
    <1>1. text[s] \in Seq(1..MaxBudget) /\ tokens[s] \in 0..MaxBudget /\ MaxBudget \in Nat
        BY ConstantFacts DEF TypeOK
    <1>2. text[s] \in Seq(Nat)
        BY <1>1
    <1>3. QED
        BY <1>1, <1>2 DEF TypeOK

\* The job's steps that neither decode nor send, and the handler's.
LEMMA QuietStep ==
    ASSUME TypeOK, NEW s \in Streams, StreamInv(s), LoopInv(s),
           \/ \E chat \in BOOLEAN : Post(s, chat)
           \/ PostRefused(s) \/ Begin(s) \/ CompleteEmpty(s) \/ Fail(s) \/ Panic(s)
           \/ OnToken(s) \/ SendDeltaFails(s)
    PROVE  StreamInv(s)'
    <1>1. PICK r \in 0..1, n \in Nat, t \in 0..2, c \in Nat, u \in 0..1 : Shape(s, r, n, t, c, u)
        BY DEF StreamInv
    <1>2. /\ text'[s] = text[s] /\ channel'[s] = channel[s] /\ seen'[s] = seen[s]
          /\ tokens'[s] = tokens[s]
        BY DEF Post, PostRefused, Begin, CompleteEmpty, Fail, Panic, OnToken, SendDeltaFails, bodyVars
    <1>3. job[s] \notin {"completed", "failed", "panicked", "cancelled"}
        BY DEF Post, PostRefused, Begin, CompleteEmpty, Fail, Panic, OnToken, SendDeltaFails
    <1>4. u = 0 /\ t = 0
        BY <1>1, <1>3 DEF Shape, Buffers, Passes
    <1>5. ReadsAs(seen[s], text[s], r, n, t)'
        BY <1>1, <1>2 DEF Shape
    <1>6. Buffers(s, n, c, u)'
        BY <1>1, <1>2, <1>4 DEF Shape, Buffers
    <1>7. Passes(s, r, n, t)' /\ NothingIsMissing(s, n, c, u)'
        <2> USE DEF Shape, Passes, NothingIsMissing, TypeOK, Closed
        <2>1. CASE (\E chat \in BOOLEAN : Post(s, chat)) \/ PostRefused(s)
            <3>1. /\ body[s] = "none" /\ r + n + t = 0 /\ text[s] = <<>> /\ channel[s] = <<>>
                  /\ job[s] = "unposted"
                BY <1>1, <2>1 DEF Post, PostRefused
            <3>2. \/ job'[s] = "queued" /\ body'[s] \in {"role", "open"}
                  \/ job'[s] = "refused" /\ body'[s] = "none"
                BY <2>1, <3>1 DEF Post, PostRefused, bodyVars
            <3>3. Passes(s, r, n, t)'
                BY <1>2, <1>4, <3>1, <3>2
            <3>4. NothingIsMissing(s, n, c, u)'
                BY <1>2, <3>1, <3>2
            <3>5. QED
                BY <3>3, <3>4
        <2>2. CASE Begin(s) \/ CompleteEmpty(s) \/ Fail(s) \/ Panic(s)
            <3>1. body'[s] = body[s] /\ job[s] \in {"queued", "computing"}
                BY <2>2 DEF Begin, CompleteEmpty, Fail, Panic, bodyVars
            <3>2. \/ job'[s] = "cancelled" /\ Closed(s)
                  \/ job'[s] \in {"computing", "terminal", "panicked"}
                BY <2>2 DEF Begin, CompleteEmpty, Fail, Panic, Conclude
            <3>3. Passes(s, r, n, t)'
                BY <1>1, <1>2, <1>4, <3>1, <3>2
            <3>4. body[s] \in {"role", "open"} => n + c = Len(text[s])
                <4>1. n + c <= Len(text[s])
                    BY <1>1 DEF Buffers
                <4>2. QED
                    BY <1>1, <3>1, <4>1
            <3>5. NothingIsMissing(s, n, c, u)'
                BY <1>2, <1>4, <3>1, <3>2, <3>4
            <3>6. QED
                BY <3>3, <3>5
        <2>3. CASE OnToken(s)
            BY <1>1, <1>2, <1>4, <2>3, ValuesAt DEF OnToken, AfterToken, Conclude, NoToken, bodyVars
        <2>4. CASE SendDeltaFails(s)
            BY <1>1, <1>2, <1>4, <2>4, ValuesAt
            DEF SendDeltaFails, AfterToken, Conclude, NoToken, bodyVars
        <2>5. QED
            BY <2>1, <2>2, <2>3, <2>4
    <1>8. Shape(s, r, n, t, c, u)'
        BY <1>1, <1>2, <1>5, <1>6, <1>7 DEF Shape
    <1>9. QED
        BY <1>8 DEF StreamInv

\* A token is chosen: it is decoded, and not yet sent.
LEMMA ChooseStep ==
    ASSUME TypeOK, NEW s \in Streams, StreamInv(s), NEW has_text \in BOOLEAN,
           NEW eog \in BOOLEAN, Choose(s, has_text, eog)
    PROVE  StreamInv(s)'
    <1>1. PICK r \in 0..1, n \in Nat, t \in 0..2, c \in Nat, u \in 0..1 : Shape(s, r, n, t, c, u)
        BY DEF StreamInv
    <1>2. /\ channel'[s] = channel[s] /\ seen'[s] = seen[s] /\ body'[s] = body[s]
          /\ job[s] = "computing" /\ job'[s] = "on_token"
          /\ tokens'[s] = tokens[s] + 1
          /\ text'[s] = IF has_text THEN Append(text[s], tokens[s] + 1) ELSE text[s]
        BY DEF Choose, TypeOK, bodyVars
    <1>3. pending'[s].has_text = has_text
        <2>1. pending' = [pending EXCEPT ![s] = [[NoToken EXCEPT !.has_text = has_text] EXCEPT !.eog = eog]]
            BY DEF Choose
        <2>2. [[NoToken EXCEPT !.has_text = has_text] EXCEPT !.eog = eog].has_text = has_text
            BY DEF NoToken
        <2>3. QED
            BY <2>1, <2>2 DEF TypeOK
    <1>4. t = 0 /\ u = 0
        BY <1>1, <1>2 DEF Shape, Passes, Buffers
    <1>5. text[s] \in Seq(Nat) /\ tokens[s] + 1 \in Nat /\ Len(text[s]) \in Nat
        BY ValuesAt
    <1>6. /\ Len(text'[s]) = IF has_text THEN Len(text[s]) + 1 ELSE Len(text[s])
          /\ \A i \in 1..Len(text[s]) : text'[s][i] = text[s][i]
          /\ has_text => text'[s][Len(text[s]) + 1] = tokens[s] + 1
        BY <1>2, <1>5
    <1>7. n <= Len(text[s]) /\ n <= Len(text'[s])
        BY <1>1, <1>5, <1>6 DEF Shape
    <1>8. ReadsAs(seen[s], text[s], r, n, t)'
        <2>1. ReadsAs(seen[s], text[s], r, n, 0)
            BY <1>1, <1>4 DEF Shape
        <2>2. n \in 0..Len(text[s])
            BY <1>5, <1>7
        <2>3. ReadsAs(seen[s], text'[s], r, n, 0)
            BY <1>2, <1>5, <2>1, <2>2, MoreText
        <2>4. QED
            BY <1>2, <1>4, <2>3
    <1>9. Buffers(s, n, c, u)'
        <2>1. /\ n + c <= Len(text[s])
              /\ \A i \in 1..c : channel[s][i] = Event("delta", text[s][n + i])
            BY <1>1 DEF Shape, Buffers
        <2>2. \A i \in 1..c : n + i \in 1..Len(text[s])
            BY <1>5, <2>1
        <2>3. \A i \in 1..c : channel'[s][i] = Event("delta", text'[s][n + i])
            BY <1>2, <1>6, <2>1, <2>2
        <2>4. n + c <= Len(text'[s])
            BY <1>5, <1>6, <2>1
        <2>5. QED
            BY <1>1, <1>2, <1>4, <2>3, <2>4 DEF Shape, Buffers
    <1>10. Passes(s, r, n, t)'
        BY <1>1, <1>2, <1>4 DEF Shape, Passes, Closed
    <1>11. NothingIsMissing(s, n, c, u)'
        BY <1>1, <1>2, <1>3, <1>4, <1>5, <1>6 DEF Shape, NothingIsMissing
    <1>12. Shape(s, r, n, t, c, u)'
        BY <1>7, <1>8, <1>9, <1>10, <1>11 DEF Shape
    <1>13. QED
        BY <1>12 DEF StreamInv

\* Its text is sent: the channel has one more delta, and nothing is missing again.
LEMMA SendDeltaStep ==
    ASSUME TypeOK, NEW s \in Streams, StreamInv(s), LoopInv(s), SendDelta(s)
    PROVE  StreamInv(s)'
    <1>1. PICK r \in 0..1, n \in Nat, t \in 0..2, c \in Nat, u \in 0..1 : Shape(s, r, n, t, c, u)
        BY DEF StreamInv
    <1>2. /\ text'[s] = text[s] /\ seen'[s] = seen[s] /\ body'[s] = body[s]
          /\ channel'[s] = Append(channel[s], Event("delta", tokens[s]))
          /\ job[s] = "sending" /\ job'[s] \in {"terminal", "computing"}
          /\ ~Closed(s) /\ Len(channel[s]) < EventBuffer /\ pending[s].has_text
        BY DEF SendDelta, AfterToken, Conclude, TypeOK, LoopInv, bodyVars
    <1>3. t = 0 /\ u = 0
        BY <1>1, <1>2 DEF Shape, Passes, Buffers
    <1>4. body[s] \in {"role", "open"}
        BY <1>1, <1>2, <1>3, ValuesAt DEF Shape, Passes, Closed, BodyPcs
    <1>5. n + c + 1 = Len(text[s]) /\ text[s][n + c + 1] = tokens[s]
        BY <1>1, <1>2, <1>4 DEF Shape, NothingIsMissing
    <1>6. /\ Len(channel[s]) = c /\ \A i \in 1..c : channel[s][i] = Event("delta", text[s][n + i])
        BY <1>1, <1>3 DEF Shape, Buffers
    <1>7. Buffers(s, n, c + 1, u)'
        <2>1. channel[s] \in Seq(JobEvents)
            BY ValuesAt
        <2>2. Len(channel'[s]) = c + 1 /\ channel'[s][c + 1] = Event("delta", text[s][n + c + 1])
            BY <1>2, <1>5, <1>6, <2>1
        <2>3. \A i \in 1..c : channel'[s][i] = channel[s][i]
            BY <1>2, <1>6, <2>1
        <2>4. \A i \in 1..(c + 1) : channel'[s][i] = Event("delta", text[s][n + i])
            <3> SUFFICES ASSUME NEW i \in 1..(c + 1)
                         PROVE  channel'[s][i] = Event("delta", text[s][n + i])
                OBVIOUS
            <3>1. CASE i \in 1..c
                BY <1>6, <2>3, <3>1
            <3>2. CASE i = c + 1
                <4>1. n + i = n + c + 1
                    BY <3>2
                <4>2. QED
                    BY <2>2, <3>2, <4>1
            <3>3. QED
                BY <3>1, <3>2
        <2>5. c + 1 <= EventBuffer
            BY <1>2, <1>6, ConstantFacts
        <2>6. QED
            <3>1. \A i \in 1..(c + 1) : channel'[s][i] = Event("delta", text'[s][n + i])
                BY <1>2, <2>4
            <3>2. n + (c + 1) <= Len(text'[s])
                BY <1>2, <1>5
            <3>3. Len(channel'[s]) = (c + 1) + u /\ u # 1
                BY <1>3, <2>2
            <3>4. QED
                BY <2>2, <2>5, <3>1, <3>2, <3>3 DEF Buffers
    <1>8. Passes(s, r, n, t)' /\ NothingIsMissing(s, n, c + 1, u)'
        <2>1. Passes(s, r, n, t)'
            BY <1>1, <1>2, <1>3, <1>4 DEF Shape, Passes, Closed
        <2>2. n + (c + 1) = Len(text'[s])
            BY <1>2, <1>5
        <2>3. NothingIsMissing(s, n, c + 1, u)'
            BY <1>2, <1>3, <2>2 DEF NothingIsMissing
        <2>4. QED
            BY <2>1, <2>3
    <1>9. Shape(s, r, n, t, c + 1, u)'
        BY <1>1, <1>2, <1>7, <1>8 DEF Shape
    <1>10. QED
        BY <1>9 DEF StreamInv

\* The terminal event goes behind the text, unless nobody is there.
LEMMA SendTerminalStep ==
    ASSUME TypeOK, NEW s \in Streams, StreamInv(s), LoopInv(s), SendTerminal(s)
    PROVE  StreamInv(s)'
    <1>1. PICK r \in 0..1, n \in Nat, t \in 0..2, c \in Nat, u \in 0..1 : Shape(s, r, n, t, c, u)
        BY DEF StreamInv
    <1>2. /\ text'[s] = text[s] /\ seen'[s] = seen[s] /\ body'[s] = body[s]
          /\ job[s] = "terminal" /\ job'[s] \in {"completed", "failed"}
          /\ pending[s].event = TellsOf[job'[s]]
        BY DEF SendTerminal, Terminated, TypeOK, LoopInv, bodyVars, TellsOf
    <1>3. t = 0 /\ u = 0
        BY <1>1, <1>2 DEF Shape, Passes, Buffers
    <1>4. CASE Closed(s)
        <2>1. channel'[s] = channel[s] /\ channel[s] = <<>>
            BY <1>1, <1>4 DEF SendTerminal, Shape, Passes
        <2>2. Buffers(s, n, c, u)'
            BY <1>1, <1>2, <1>3, <2>1 DEF Shape, Buffers
        <2>3. Passes(s, r, n, t)' /\ NothingIsMissing(s, n, c, u)'
            BY <1>1, <1>2, <1>3, <1>4, <2>1 DEF Shape, Passes, NothingIsMissing, Closed
        <2>4. Shape(s, r, n, t, c, u)'
            BY <1>1, <1>2, <2>2, <2>3 DEF Shape
        <2>5. QED
            BY <2>4 DEF StreamInv
    <1>5. CASE ~Closed(s)
        <2>1. /\ channel'[s] = Append(channel[s], Event(TellsOf[job'[s]], 0))
              /\ Len(channel[s]) < EventBuffer
            BY <1>2, <1>5 DEF SendTerminal, TypeOK
        <2>2. body[s] \in {"role", "open"}
            BY <1>1, <1>2, <1>3, <1>5, ValuesAt DEF Shape, Passes, Closed, BodyPcs
        <2>3. /\ n + c = Len(text[s]) /\ Len(channel[s]) = c
              /\ \A i \in 1..c : channel[s][i] = Event("delta", text[s][n + i])
            BY <1>1, <1>2, <1>3, <2>2 DEF Shape, Buffers, NothingIsMissing
        <2>4. channel[s] \in Seq(JobEvents)
            BY ValuesAt
        <2>5. /\ Len(channel'[s]) = c + 1 /\ channel'[s][c + 1] = Event(TellsOf[job'[s]], 0)
              /\ \A i \in 1..c : channel'[s][i] = channel[s][i]
            BY <2>1, <2>3, <2>4
        <2>6. c + 1 <= EventBuffer
            BY <2>1, <2>3, ConstantFacts
        <2>7. Buffers(s, n, c, 1)'
            BY <1>2, <2>3, <2>5, <2>6 DEF Buffers
        <2>8. Passes(s, r, n, t)' /\ NothingIsMissing(s, n, c, 1)'
            BY <1>1, <1>2, <1>3, <2>2 DEF Shape, Passes, NothingIsMissing, Closed
        <2>9. Shape(s, r, n, t, c, 1)'
            BY <1>1, <1>2, <2>7, <2>8 DEF Shape
        <2>10. QED
            BY <2>9 DEF StreamInv
    <1>6. QED
        BY <1>4, <1>5

\* The role is read, or the client leaves.
LEMMA RoleOrLeaveStep ==
    ASSUME TypeOK, NEW s \in Streams, StreamInv(s), PollRole(s) \/ Leave(s)
    PROVE  StreamInv(s)'
    <1>1. PICK r \in 0..1, n \in Nat, t \in 0..2, c \in Nat, u \in 0..1 : Shape(s, r, n, t, c, u)
        BY DEF StreamInv
    <1>2. /\ text'[s] = text[s] /\ job'[s] = job[s] /\ pending'[s] = pending[s]
          /\ tokens'[s] = tokens[s] /\ body[s] \in {"role", "open", "done_marker"}
        BY DEF PollRole, Leave, jobVars
    <1>3. job[s] \notin {"unposted", "refused"}
        BY <1>1, <1>2 DEF Shape, Passes
    <1>4. CASE PollRole(s)
        <2>1. /\ seen'[s] = Append(seen[s], Event("role", 0)) /\ body'[s] = "open"
              /\ channel'[s] = channel[s] /\ body[s] = "role"
            BY <1>4 DEF PollRole, See, TypeOK
        <2>2. r = 0 /\ n = 0 /\ t = 0
            BY <1>1, <2>1 DEF Shape, Passes
        <2>3. ReadsAs(seen'[s], text'[s], 1, 0, 0)
            BY <1>1, <1>2, <2>1, <2>2, ReadRole, ValuesAt DEF Shape
        <2>4. Buffers(s, n, c, u)'
            BY <1>1, <1>2, <2>1 DEF Shape, Buffers
        <2>5. Passes(s, 1, 0, 0)' /\ NothingIsMissing(s, n, c, u)'
            BY <1>1, <1>2, <1>3, <2>1 DEF Shape, Passes, NothingIsMissing, Closed
        <2>6. Shape(s, 1, 0, 0, c, u)'
            BY <1>1, <1>2, <2>2, <2>3, <2>4, <2>5 DEF Shape
        <2>7. QED
            BY <2>6 DEF StreamInv
    <1>5. CASE Leave(s)
        <2>1. seen'[s] = seen[s] /\ body'[s] = "gone" /\ channel'[s] = <<>>
            BY <1>5 DEF Leave, TypeOK
        <2>2. Buffers(s, n, 0, 0)'
            BY <1>1, <1>2, <2>1, ConstantFacts, ValuesAt DEF Shape, Buffers
        <2>3. Passes(s, r, n, t)' /\ NothingIsMissing(s, n, 0, 0)'
            BY <1>1, <1>2, <1>3, <2>1 DEF Shape, Passes, NothingIsMissing
        <2>4. Shape(s, r, n, t, 0, 0)'
            BY <1>1, <1>2, <2>1, <2>2, <2>3 DEF Shape
        <2>5. QED
            BY <2>4 DEF StreamInv
    <1>6. QED
        BY <1>4, <1>5

\* An event is read: the next text, or the event that ends the job's stream.
LEMMA ReadStep ==
    ASSUME TypeOK, NEW s \in Streams, StreamInv(s), PollEvent(s)
    PROVE  StreamInv(s)'
    <1>1. PICK r \in 0..1, n \in Nat, t \in 0..2, c \in Nat, u \in 0..1 : Shape(s, r, n, t, c, u)
        BY DEF StreamInv
    <1>2. /\ text'[s] = text[s] /\ job'[s] = job[s] /\ pending'[s] = pending[s]
          /\ tokens'[s] = tokens[s] /\ body[s] = "open" /\ channel[s] # <<>>
          /\ channel'[s] = Tail(channel[s]) /\ seen'[s] = Append(seen[s], Head(channel[s]))
          /\ body'[s] = IF Head(channel[s]).kind = "delta" THEN "open" ELSE "done_marker"
        BY DEF PollEvent, See, TypeOK, jobVars
    <1>3. t = 0 /\ job[s] \notin {"unposted", "refused"}
        BY <1>1, <1>2 DEF Shape, Passes
    <1>4. /\ channel[s] \in Seq(JobEvents) /\ text[s] \in Seq(Nat) /\ Len(text[s]) \in Nat
          /\ seen[s] \in Seq(SeenEvents)
        BY ValuesAt
    <1>5. /\ Len(channel[s]) = c + u /\ c + u >= 1 /\ Len(channel[s]) <= EventBuffer
          /\ n + c <= Len(text[s])
          /\ \A i \in 1..c : channel[s][i] = Event("delta", text[s][n + i])
        BY <1>1, <1>2, <1>4 DEF Shape, Buffers
    <1>6. /\ Len(channel'[s]) = c + u - 1
          /\ \A i \in 1..(c + u - 1) : channel'[s][i] = channel[s][i + 1]
        BY <1>2, <1>4, <1>5
    <1>7. CASE c >= 1
        <2>1. Head(channel[s]) = Event("delta", text[s][n + 1])
            BY <1>2, <1>4, <1>5, <1>7
        <2>2. body'[s] = "open"
            BY <1>2, <2>1 DEF Event
        <2>3. n \in 0..Len(text[s]) /\ n < Len(text[s])
            BY <1>4, <1>5, <1>7
        <2>5. ReadsAs(seen'[s], text'[s], r, n + 1, 0)
            BY <1>1, <1>2, <1>3, <1>4, <2>1, <2>3, ReadDelta DEF Shape
        <2>6. Buffers(s, n + 1, c - 1, u)'
            <3>1. \A i \in 1..(c - 1) : channel'[s][i] = Event("delta", text'[s][(n + 1) + i])
                <4> SUFFICES ASSUME NEW i \in 1..(c - 1)
                             PROVE  channel'[s][i] = Event("delta", text'[s][(n + 1) + i])
                    OBVIOUS
                <4>1. i \in 1..(c + u - 1) /\ i + 1 \in 1..c /\ n + (i + 1) = (n + 1) + i
                    OBVIOUS
                <4>2. QED
                    BY <1>2, <1>5, <1>6, <4>1
            <3>2. Len(channel'[s]) = (c - 1) + u /\ Len(channel'[s]) <= EventBuffer
                BY <1>5, <1>6, ConstantFacts
            <3>3. (n + 1) + (c - 1) <= Len(text'[s])
                BY <1>2, <1>5
            <3>4. ASSUME u = 1
                  PROVE  /\ job'[s] \in {"completed", "failed"} /\ (n + 1) + (c - 1) = Len(text'[s])
                         /\ channel'[s][(c - 1) + 1] = Event(TellsOf[job'[s]], 0)
                <4>1. c \in 1..(c + u - 1) /\ (c - 1) + 1 = c /\ (n + 1) + (c - 1) = n + c
                    BY <1>7, <3>4
                <4>2. /\ job[s] \in {"completed", "failed"} /\ n + c = Len(text[s])
                      /\ channel[s][c + 1] = Event(TellsOf[job[s]], 0)
                    BY <1>1, <3>4 DEF Shape, Buffers
                <4>3. QED
                    BY <1>2, <1>6, <4>1, <4>2
            <3>5. QED
                BY <3>1, <3>2, <3>3, <3>4 DEF Buffers
        <2>7. Passes(s, r, n + 1, 0)'
            BY <1>1, <1>2, <1>3, <2>2 DEF Shape, Passes, Closed
        <2>8. NothingIsMissing(s, n + 1, c - 1, u)'
            <3>1. (n + 1) + (c - 1) = n + c
                OBVIOUS
            <3>2. QED
                BY <1>1, <1>2, <3>1 DEF Shape, NothingIsMissing
        <2>9. Shape(s, r, n + 1, 0, c - 1, u)'
            BY <1>2, <2>3, <2>5, <2>6, <2>7, <2>8 DEF Shape
        <2>10. n + 1 \in Nat /\ c - 1 \in Nat
            BY <1>7
        <2>11. QED
            BY <2>9, <2>10 DEF StreamInv
    <1>8. CASE c = 0
        <2>1. u = 1
            BY <1>5, <1>8
        <2>2. /\ job[s] \in {"completed", "failed"} /\ n = Len(text[s])
              /\ channel[s][1] = Event(TellsOf[job[s]], 0)
            BY <1>1, <1>8, <2>1 DEF Shape, Buffers
        <2>3. Head(channel[s]) = Event(TellsOf[job[s]], 0) /\ channel'[s] = <<>>
            <3>1. Len(channel[s]) = 1 /\ Len(channel'[s]) = 0
                BY <1>5, <1>6, <1>8, <2>1
            <3>2. Head(channel[s]) = channel[s][1] /\ channel'[s] \in Seq(JobEvents)
                BY <1>2, <1>4
            <3>3. QED
                BY <2>2, <3>1, <3>2
        <2>4. Event(TellsOf[job[s]], 0) \in Terminals /\ TellsOf[job[s]] # "delta"
            BY <2>2 DEF TellsOf, Terminals
        <2>5. body'[s] = "done_marker"
            BY <1>2, <2>3, <2>4 DEF Event
        <2>6. /\ ReadsAs(seen'[s], text'[s], r, n, 1)
              /\ seen'[s][r + n + 1] = Event(TellsOf[job[s]], 0)
            <3>1. ReadsAs(seen[s], text[s], r, n, 0) /\ n = Len(text[s])
                BY <1>1, <1>3, <2>2 DEF Shape
            <3>2. ReadsAs(Append(seen[s], Event(TellsOf[job[s]], 0)), text[s], r, n, 1)
                BY <1>4, <2>4, <3>1, ReadTerminal
            <3>3. seen'[s] = Append(seen[s], Event(TellsOf[job[s]], 0)) /\ text'[s] = text[s]
                BY <1>2, <2>3
            <3>4. Len(seen[s]) = r + n
                BY <3>1 DEF ReadsAs
            <3>5. QED
                BY <1>4, <3>2, <3>3, <3>4
        <2>7. Buffers(s, n, 0, 0)'
            <3>1. Len(channel'[s]) = 0
                BY <2>3
            <3>2. n + 0 <= Len(text'[s])
                BY <1>2, <1>4, <2>2
            <3>3. QED
                BY <3>1, <3>2, ConstantFacts DEF Buffers
        <2>8. Passes(s, r, n, 1)' /\ NothingIsMissing(s, n, 0, 0)'
            BY <1>1, <1>2, <1>3, <2>2, <2>3, <2>5, <2>6 DEF Shape, Passes, NothingIsMissing
        <2>9. Shape(s, r, n, 1, 0, 0)'
            BY <1>2, <1>4, <2>2, <2>6, <2>7, <2>8 DEF Shape
        <2>10. QED
            BY <2>9 DEF StreamInv
    <1>9. QED
        BY <1>7, <1>8

\* The channel is empty and its sender gone: only a panic leaves that.
LEMMA ClosedStep ==
    ASSUME TypeOK, NEW s \in Streams, StreamInv(s), PollClosed(s)
    PROVE  StreamInv(s)'
    <1>1. PICK r \in 0..1, n \in Nat, t \in 0..2, c \in Nat, u \in 0..1 : Shape(s, r, n, t, c, u)
        BY DEF StreamInv
    <1>2. /\ text'[s] = text[s] /\ job'[s] = job[s] /\ body[s] = "open"
          /\ body'[s] = "done_marker" /\ channel'[s] = <<>> /\ channel[s] = <<>>
          /\ seen'[s] = Append(seen[s], Event("worker_failed", 0)) /\ job[s] \in Over
        BY DEF PollClosed, See, TypeOK, jobVars
    <1>3. t = 0 /\ c = 0 /\ u = 0
        BY <1>1, <1>2 DEF Shape, Passes, Buffers
    <1>4. job[s] = "panicked" /\ n = Len(text[s])
        BY <1>1, <1>2, <1>3 DEF Shape, NothingIsMissing, Over
    <1>5. Event("worker_failed", 0) \in Terminals /\ TellsOf[job[s]] = "worker_failed"
        BY <1>4 DEF Terminals, TellsOf
    <1>6. /\ ReadsAs(seen'[s], text'[s], r, n, 1)
          /\ seen'[s][r + n + 1] = Event(TellsOf[job[s]], 0)
        <2>1. ReadsAs(seen[s], text[s], r, n, 0) /\ n = Len(text[s])
            BY <1>1, <1>3, <1>4 DEF Shape
        <2>2. ReadsAs(Append(seen[s], Event(TellsOf[job[s]], 0)), text[s], r, n, 1)
            BY <1>5, <2>1, ValuesAt, ReadTerminal
        <2>3. seen'[s] = Append(seen[s], Event(TellsOf[job[s]], 0)) /\ text'[s] = text[s]
            BY <1>2, <1>5
        <2>4. Len(seen[s]) = r + n
            BY <2>1 DEF ReadsAs
        <2>5. QED
            BY <1>2, <2>2, <2>3, <2>4, ValuesAt
    <1>7. Buffers(s, n, 0, 0)'
        BY <1>2, <1>4, ValuesAt, ConstantFacts DEF Buffers
    <1>8. Passes(s, r, n, 1)' /\ NothingIsMissing(s, n, 0, 0)'
        BY <1>1, <1>2, <1>4, <1>6 DEF Shape, Passes, NothingIsMissing
    <1>9. Shape(s, r, n, 1, 0, 0)'
        BY <1>2, <1>4, <1>6, <1>7, <1>8, ValuesAt DEF Shape
    <1>10. QED
        BY <1>9 DEF StreamInv

LEMMA DoneStep ==
    ASSUME TypeOK, NEW s \in Streams, StreamInv(s), PollDone(s)
    PROVE  StreamInv(s)'
    <1>1. PICK r \in 0..1, n \in Nat, t \in 0..2, c \in Nat, u \in 0..1 : Shape(s, r, n, t, c, u)
        BY DEF StreamInv
    <1>2. /\ text'[s] = text[s] /\ job'[s] = job[s] /\ body[s] = "done_marker"
          /\ body'[s] = "end" /\ channel'[s] = channel[s]
          /\ seen'[s] = Append(seen[s], Event("[DONE]", 0))
        BY DEF PollDone, See, TypeOK, jobVars
    <1>3. t = 1 /\ n \in 0..Len(text[s])
        BY <1>1, <1>2, ValuesAt DEF Shape, Passes
    <1>4. /\ ReadsAs(seen'[s], text'[s], r, n, 2)
          /\ seen'[s][r + n + 1] = seen[s][r + n + 1]
        BY <1>1, <1>2, <1>3, ValuesAt, ReadDone DEF Shape
    <1>5. Buffers(s, n, c, u)'
        BY <1>1, <1>2 DEF Shape, Buffers
    <1>6. Passes(s, r, n, 2)'
        <2>1. /\ channel[s] = <<>> /\ job[s] \in {"completed", "failed", "panicked"}
              /\ seen[s][r + n + 1] = Event(TellsOf[job[s]], 0)
            BY <1>1, <1>3 DEF Shape, Passes
        <2>2. QED
            BY <1>2, <1>4, <2>1 DEF Passes
    <1>7. NothingIsMissing(s, n, c, u)'
        BY <1>2 DEF NothingIsMissing
    <1>8. Shape(s, r, n, 2, c, u)'
        BY <1>1, <1>2, <1>4, <1>5, <1>6, <1>7 DEF Shape
    <1>9. QED
        BY <1>8 DEF StreamInv
-----------------------------------------------------------------------------
(* The invariant *)

LEMMA InvInit == Init => Inv
    <1> SUFFICES ASSUME Init PROVE Inv
        OBVIOUS
    <1>1. ASSUME NEW s \in Streams PROVE StreamInv(s) /\ LoopInv(s) /\ LateInv(s)
        <2>1. /\ job[s] = "unposted" /\ body[s] = "none" /\ late[s] = 0 /\ tokens[s] = 0
              /\ text[s] = <<>> /\ channel[s] = <<>> /\ seen[s] = <<>> /\ budget[s] \in 0..MaxBudget
            BY DEF Init
        <2>2. ReadsAs(seen[s], text[s], 0, 0, 0) /\ Buffers(s, 0, 0, 0)
            BY <2>1, ConstantFacts DEF ReadsAs, Buffers
        <2>3. Passes(s, 0, 0, 0) /\ NothingIsMissing(s, 0, 0, 0)
            BY <2>1 DEF Passes, NothingIsMissing
        <2>4. Shape(s, 0, 0, 0, 0, 0)
            BY <2>1, <2>2, <2>3 DEF Shape
        <2>5. StreamInv(s)
            BY <2>4 DEF StreamInv
        <2>6. LoopInv(s) /\ LateInv(s)
            BY <2>1, ConstantFacts DEF LoopInv, LateInv
        <2>7. QED
            BY <2>5, <2>6
    <1>2. QED
        BY <1>1, TypeInit DEF Inv

LEMMA InvStep ==
    ASSUME Inv, [Next]_vars
    PROVE  Inv'
    <1>1. ASSUME NEW q \in Streams, UNCHANGED StateOf(q)
          PROVE  StreamInv(q)' /\ LoopInv(q)' /\ LateInv(q)'
        <2>1. StreamInv(q) /\ LoopInv(q) /\ LateInv(q)
            BY DEF Inv
        <2>2. StreamInv(q)'
            <3>1. PICK r \in 0..1, n \in Nat, t \in 0..2, c \in Nat, u \in 0..1 : Shape(q, r, n, t, c, u)
                BY <2>1 DEF StreamInv
            <3>2. Shape(q, r, n, t, c, u)'
                BY <1>1, <3>1 DEF Shape, Buffers, Passes, NothingIsMissing, Closed, StateOf
            <3>3. QED
                BY <3>2 DEF StreamInv
        <2>3. LoopInv(q)' /\ LateInv(q)'
            BY <1>1, <2>1 DEF LoopInv, LateInv, Closed, StateOf
        <2>4. QED
            BY <2>2, <2>3
    <1>2. ASSUME NEW s \in Streams, StepOf(s)
          PROVE  Inv'
        <2>1. TypeOK /\ StreamInv(s) /\ LoopInv(s) /\ LateInv(s)
            BY DEF Inv
        <2>2. TypeOK' /\ LoopInv(s)' /\ LateInv(s)'
            BY <1>2, <2>1, TypeStep, LoopStep, LateStep
        <2>3. StreamInv(s)'
            BY <1>2, <2>1, QuietStep, ChooseStep, SendDeltaStep, SendTerminalStep,
               RoleOrLeaveStep, ReadStep, ClosedStep, DoneStep DEF StepOf, JobStep, Poll
        <2>4. \A q \in Streams \ {s} : StreamInv(q)' /\ LoopInv(q)' /\ LateInv(q)'
            BY <1>1, <1>2, <2>1, OneStream
        <2>5. QED
            BY <2>2, <2>3, <2>4 DEF Inv
    <1>3. CASE UNCHANGED vars
        BY <1>1, <1>3 DEF Inv, vars, TypeOK, StateOf
    <1>4. QED
        BY <1>2, <1>3 DEF Next, StepOf

LEMMA StreamInvariant == Spec => []Inv
    <1>1. Inv /\ [Next]_vars => Inv'
        BY InvStep
    <1>2. QED
        BY InvInit, <1>1, PTL DEF Spec
-----------------------------------------------------------------------------
(* What an event's place in the stream says of it *)

\* Only the first event is a role, the next n are text, and a terminal event is
\* the one behind them.
LEMMA PlaceOfKinds ==
    ASSUME NEW events \in Seq(SeenEvents), NEW decoded, NEW r \in 0..1, NEW n \in Nat,
           NEW t \in 0..2, ReadsAs(events, decoded, r, n, t), NEW i \in DOMAIN events
    PROVE  /\ events[i].kind = "delta" <=> i \in (r + 1)..(r + n)
           /\ events[i].kind \in {"finished", "failed", "worker_failed"} => i = r + n + 1 /\ t >= 1
    <1>1. Len(events) = r + n + t /\ i \in 1..(r + n + t)
        BY DEF ReadsAs
    <1>2. CASE i \in (r + 1)..(r + n)
        <2>1. i - r \in 1..n /\ r + (i - r) = i
            BY <1>2
        <2>2. events[i] = Event("delta", decoded[i - r])
            BY <2>1 DEF ReadsAs
        <2>3. QED
            BY <1>2, <2>2 DEF Event
    <1>3. CASE i <= r
        <2>1. r = 1 /\ i = 1
            BY <1>1, <1>3
        <2>2. events[i] = Event("role", 0)
            BY <2>1 DEF ReadsAs
        <2>3. QED
            BY <1>3, <2>2 DEF Event
    <1>4. CASE i = r + n + 1
        <2>1. events[i] \in Terminals /\ t >= 1
            BY <1>1, <1>4 DEF ReadsAs
        <2>2. QED
            BY <1>4, <2>1 DEF Terminals, Event
    <1>5. CASE i = r + n + 2
        <2>1. events[i] = Event("[DONE]", 0)
            BY <1>1, <1>5 DEF ReadsAs
        <2>2. QED
            BY <1>5, <2>1 DEF Event
    <1>6. QED
        BY <1>1, <1>2, <1>3, <1>4, <1>5

\* The texts a client has received are the n of its reading.
LEMMA ReceivedIsRead ==
    ASSUME NEW s \in Streams, seen[s] \in Seq(SeenEvents), NEW r \in 0..1, NEW n \in Nat,
           NEW t \in 0..2, ReadsAs(seen[s], text[s], r, n, t)
    PROVE  Received(s) = n
    <1>1. Len(seen[s]) = r + n + t /\ DOMAIN seen[s] = 1..(r + n + t)
        BY DEF ReadsAs
    <1>2. \A i \in DOMAIN seen[s] : seen[s][i].kind = "delta" <=> i \in (r + 1)..(r + n)
        BY PlaceOfKinds
    <1>3. {i \in DOMAIN seen[s] : seen[s][i].kind = "delta"} = (r + 1)..(r + n)
        BY <1>1, <1>2
    <1>4. Cardinality((r + 1)..(r + n)) = n
        <2>1. r + 1 \in Int /\ r + n \in Int
            OBVIOUS
        <2>2. Cardinality((r + 1)..(r + n)) = IF r + 1 > r + n THEN 0 ELSE (r + n) - (r + 1) + 1
            BY <2>1, FS_Interval
        <2>3. QED
            BY <2>2
    <1>5. QED
        BY <1>3, <1>4 DEF Received
-----------------------------------------------------------------------------
(* The theorems *)

\* Every variable of StreamGeneration keeps its type: no job decodes more tokens than the
\* largest budget, and only events of its own kinds pass its channel (runtime.rs, stream.rs).
THEOREM TypeCorrect == Spec => []TypeOK
    BY StreamInvariant, PTL DEF Inv

\* What a client reads is the beginning of one stream, and the event that ends it
\* tells the truth about the job and comes after all of its text, whenever clients
\* read or leave and jobs end, fail or panic (stream_generation).
THEOREM StreamsAreWhole == Spec => []TerminalMeansWhole
    <1>1. Inv => TerminalMeansWhole
        <2> SUFFICES ASSUME Inv, NEW s \in Streams
                     PROVE  /\ IsWellFormed(seen[s], text[s])
                            /\ "finished" \in Kinds(s) => job[s] = "completed"
                            /\ "failed" \in Kinds(s) => job[s] = "failed"
                            /\ "worker_failed" \in Kinds(s) => job[s] = "panicked"
            BY DEF TerminalMeansWhole
        <2>1. PICK r \in 0..1, n \in Nat, t \in 0..2, c \in Nat, u \in 0..1 : Shape(s, r, n, t, c, u)
            BY DEF Inv, StreamInv
        <2>2. /\ seen[s] \in Seq(SeenEvents) /\ Len(text[s]) \in Nat
              /\ n \in 0..Len(text[s]) /\ ReadsAs(seen[s], text[s], r, n, t)
            BY <2>1, ValuesAt DEF Inv, Shape
        <2>3. IsWellFormed(seen[s], text[s])
            BY <2>2 DEF IsWellFormed
        <2>4. ASSUME NEW kind \in {"finished", "failed", "worker_failed"}, kind \in Kinds(s)
              PROVE  job[s] \in {"completed", "failed", "panicked"} /\ TellsOf[job[s]] = kind
            <3>1. PICK i \in DOMAIN seen[s] : seen[s][i].kind = kind
                BY <2>4 DEF Kinds
            <3>2. i = r + n + 1 /\ t >= 1
                BY <2>2, <3>1, PlaceOfKinds
            <3>3. /\ job[s] \in {"completed", "failed", "panicked"}
                  /\ seen[s][i] = Event(TellsOf[job[s]], 0)
                BY <2>1, <3>2 DEF Shape, Passes
            <3>4. QED
                BY <3>1, <3>3 DEF Event
        <2>5. QED
            BY <2>3, <2>4 DEF TellsOf
    <1>2. QED
        BY StreamInvariant, <1>1, PTL

\* A client that left costs at most the token whose forward pass was under way
\* (run_stream_generation's callback).
THEOREM DepartureIsNoticed == Spec => []DepartedCostsAtMostOneToken
    <1>1. Inv => DepartedCostsAtMostOneToken
        BY DEF Inv, LateInv, DepartedCostsAtMostOneToken
    <1>2. QED
        BY StreamInvariant, <1>1, PTL

\* For any EVENT_BUFFER, what is decoded is ahead of what a client that is still
\* there has read by no more than the buffer and the one blocked send.
THEOREM SlowReadersHoldCompute == Spec => []ComputeStaysNearTheReader
    <1>1. Inv => ComputeStaysNearTheReader
        <2> SUFFICES ASSUME Inv, NEW s \in Streams, ~Closed(s)
                     PROVE  Len(text[s]) <= Received(s) + EventBuffer + 1
            BY DEF ComputeStaysNearTheReader
        <2>1. PICK r \in 0..1, n \in Nat, t \in 0..2, c \in Nat, u \in 0..1 : Shape(s, r, n, t, c, u)
            BY DEF Inv, StreamInv
        <2>2. /\ seen[s] \in Seq(SeenEvents) /\ text[s] \in Seq(Nat) /\ Len(text[s]) \in Nat
              /\ job[s] \in JobPcs /\ body[s] \in BodyPcs /\ pending[s] \in Pendings
            BY ValuesAt DEF Inv
        <2>3. Received(s) = n
            BY <2>1, <2>2, ReceivedIsRead DEF Shape
        <2>4. c + u <= EventBuffer
            BY <2>1 DEF Shape, Buffers
        <2>5. Len(text[s]) <= n + c + 1
            <3>1. CASE body[s] = "done_marker"
                BY <2>1, <2>2, <3>1 DEF Shape, Passes, ReadsAs
            <3>2. CASE body[s] \in {"role", "open"}
                <4>1. job[s] \notin {"unposted", "refused", "cancelled"}
                    BY <2>1, <3>2 DEF Shape, Passes, NothingIsMissing
                <4>2. CASE job[s] = "queued"
                    BY <2>1, <2>2, <3>2, <4>2 DEF Shape, NothingIsMissing
                <4>3. CASE job[s] \in {"computing", "terminal", "panicked"}
                    BY <2>1, <2>2, <3>2, <4>3 DEF Shape, NothingIsMissing
                <4>4. CASE job[s] \in {"on_token", "sending"}
                    BY <2>1, <2>2, <3>2, <4>4 DEF Shape, NothingIsMissing
                <4>5. CASE job[s] \in {"completed", "failed"}
                    BY <2>1, <2>2, <3>2, <4>5 DEF Shape, NothingIsMissing, Buffers
                <4>6. QED
                    BY <2>2, <4>1, <4>2, <4>3, <4>4, <4>5 DEF JobPcs
            <3>3. QED
                BY <2>2, <3>1, <3>2 DEF Closed, BodyPcs
        <2>6. QED
            BY <2>2, <2>3, <2>4, <2>5, ConstantFacts
    <1>2. QED
        BY StreamInvariant, <1>1, PTL
=============================================================================
