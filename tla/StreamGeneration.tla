-------------------------- MODULE StreamGeneration --------------------------
(***************************************************************************)
(* A streamed generation, src/crates/server/src/in_tree/stream.rs, with    *)
(* the decode loop that feeds it (engine-core/src/runtime.rs and           *)
(* forward/compute.rs).                                                    *)
(*                                                                         *)
(* Two actors share one bounded channel of EVENT_BUFFER events:            *)
(*   - the job, a thread of the generation pool, which decodes one token   *)
(*     at a time and sends its text with a blocking send;                  *)
(*   - the response body, which the client's reads poll and which the      *)
(*     client may drop at any moment, closing the channel.                 *)
(* The pool is here what GenerationPool guarantees of it: a posted job     *)
(* waits, and runs once one of the slots is free.                          *)
(***************************************************************************)
EXTENDS Naturals, Sequences, FiniteSets

CONSTANTS Streams,      \* the streamed requests
          SlotCount,    \* how many generations the pool runs at once
          EventBuffer,  \* EVENT_BUFFER
          Budgets,      \* bound: the values of max_new_tokens each request may ask for
          MaxBudget     \* bound: the largest of them

ASSUME StreamAssumption ==
    /\ IsFiniteSet(Streams)
    /\ SlotCount \in Nat \ {0} /\ EventBuffer \in Nat \ {0}
    /\ MaxBudget \in Nat
    /\ \A s \in Streams : Budgets[s] # {} /\ Budgets[s] \subseteq 0..MaxBudget

VARIABLES job,      \* where the job of each stream is
          budget,   \* max_new_tokens
          tokens,   \* the tokens the decode loop has chosen so far
          pending,  \* the token whose callback is running, or the job's terminal event
          text,     \* the tokens that carried text: the completion so far
          channel,  \* the events sent and not yet received
          body,     \* where the response body is
          seen,     \* the events the client has received
          late      \* the tokens chosen after the client left (history)

vars == <<job, budget, tokens, pending, text, channel, body, seen, late>>

bodyVars == <<body, seen>>
jobVars  == <<job, budget, tokens, pending, text, late>>
-----------------------------------------------------------------------------
JobPcs  == {"unposted", "refused", "queued", "computing", "on_token", "sending",
            "terminal", "completed", "cancelled", "failed", "panicked"}
BodyPcs == {"none", "role", "open", "done_marker", "end", "gone"}

\* The job's thread is on a slot; it owns the sender until it is over.
OnSlot  == {"computing", "on_token", "sending", "terminal"}
Over    == {"completed", "cancelled", "failed", "panicked"}

Event(kind, at) == [kind |-> kind, at |-> at]

Deltas      == {Event("delta", n) : n \in 1..MaxBudget}
JobEvents   == Deltas \cup {Event("finished", 0), Event("failed", 0)}
Terminals   == {Event("finished", 0), Event("failed", 0), Event("worker_failed", 0)}
SeenEvents  == Deltas \cup Terminals \cup {Event("role", 0), Event("[DONE]", 0)}
NoToken     == [has_text |-> FALSE, eog |-> FALSE, event |-> "none"]
Pendings    == [has_text : BOOLEAN, eog : BOOLEAN, event : {"none", "finished", "failed"}]

TypeOK ==
    /\ job \in [Streams -> JobPcs]
    /\ budget \in [Streams -> 0..MaxBudget]
    /\ tokens \in [Streams -> 0..MaxBudget]
    /\ pending \in [Streams -> Pendings]
    /\ text \in [Streams -> Seq(1..MaxBudget)]
    /\ channel \in [Streams -> Seq(JobEvents)]
    /\ body \in [Streams -> BodyPcs]
    /\ seen \in [Streams -> Seq(SeenEvents)]
    /\ late \in [Streams -> Nat]

Closed_AtTheEndOnly(s) == body[s] \in {"none", "end"}

\* is_closed: the receiver has been dropped, by the client or at the end of the
\* body's own generator.
Closed(s) == body[s] \in {"none", "end", "gone"}

\* The text deltas the client has received.
Received(s) == Cardinality({i \in DOMAIN seen[s] : seen[s][i].kind = "delta"})

Kinds(s) == {seen[s][i].kind : i \in DOMAIN seen[s]}
-----------------------------------------------------------------------------
Init ==
    /\ job = [s \in Streams |-> "unposted"]
    /\ budget \in {f \in [Streams -> 0..MaxBudget] : \A s \in Streams : f[s] \in Budgets[s]}
    /\ tokens = [s \in Streams |-> 0]
    /\ pending = [s \in Streams |-> NoToken]
    /\ text = [s \in Streams |-> <<>>]
    /\ channel = [s \in Streams |-> <<>>]
    /\ body = [s \in Streams |-> "none"]
    /\ seen = [s \in Streams |-> <<>>]
    /\ late = [s \in Streams |-> 0]
-----------------------------------------------------------------------------
(* The handler: stream_generation *)

\* The pool accepts the job and the response starts; a chat body opens with the
\* assistant role, a plain completion with its first delta.
Post(s, chat) ==
    /\ job[s] = "unposted"
    /\ job' = [job EXCEPT ![s] = "queued"]
    /\ body' = [body EXCEPT ![s] = IF chat THEN "role" ELSE "open"]
    /\ UNCHANGED <<budget, tokens, pending, text, channel, seen, late>>

\* The pool refuses: engine_post_error is the whole response and both ends of
\* the channel are dropped.
PostRefused(s) ==
    /\ job[s] = "unposted"
    /\ job' = [job EXCEPT ![s] = "refused"]
    /\ UNCHANGED <<budget, tokens, pending, text, channel, bodyVars, late>>
-----------------------------------------------------------------------------
(* The job: run_stream_generation around generate_incremental *)

\* A slot picks the job up. A client that left while it was queued costs no
\* forward pass.
Begin(s) ==
    /\ job[s] = "queued"
    /\ Cardinality({r \in Streams : job[r] \in OnSlot}) < SlotCount
    /\ job' = [job EXCEPT ![s] = IF Closed(s) THEN "cancelled" ELSE "computing"]
    /\ UNCHANGED <<budget, tokens, pending, text, channel, bodyVars, late>>

\* A forward pass chooses the next token. It may carry no text (a control token,
\* or the middle of a UTF-8 sequence) and may end the generation.
Choose(s, has_text, eog) ==
    /\ job[s] = "computing" /\ budget[s] > 0
    /\ tokens' = [tokens EXCEPT ![s] = @ + 1]
    /\ pending' = [pending EXCEPT ![s] = [NoToken EXCEPT !.has_text = has_text, !.eog = eog]]
    /\ text' = IF has_text THEN [text EXCEPT ![s] = Append(@, tokens[s] + 1)] ELSE text
    /\ late' = IF Closed(s) THEN [late EXCEPT ![s] = @ + 1] ELSE late
    /\ job' = [job EXCEPT ![s] = "on_token"]
    /\ UNCHANGED <<budget, channel, bodyVars>>

\* The job's result: its terminal event is about to be sent.
Conclude(s, event) ==
    /\ pending' = [pending EXCEPT ![s] = [NoToken EXCEPT !.event = event]]
    /\ job' = [job EXCEPT ![s] = "terminal"]

\* max_new_tokens of zero completes without a forward pass.
CompleteEmpty(s) ==
    /\ job[s] = "computing" /\ budget[s] = 0
    /\ Conclude(s, "finished")
    /\ UNCHANGED <<budget, tokens, text, channel, bodyVars, late>>

\* The backend returns an error, or panics and takes the sender with it.
Fail(s) ==
    /\ job[s] = "computing"
    /\ Conclude(s, "failed")
    /\ UNCHANGED <<budget, tokens, text, channel, bodyVars, late>>

Panic(s) ==
    /\ job[s] = "computing"
    /\ job' = [job EXCEPT ![s] = "panicked"]
    /\ UNCHANGED <<budget, tokens, pending, text, channel, bodyVars, late>>

\* After the callback: an end-of-generation token completes the generation even
\* if the consumer cancelled at it, then a cancellation, then the budget.
AfterToken(s, control) ==
    \/ /\ pending[s].eog \/ (control = "Continue" /\ tokens[s] = budget[s])
       /\ Conclude(s, "finished")
    \/ /\ ~pending[s].eog /\ control = "Cancel"
       /\ job' = [job EXCEPT ![s] = "cancelled"]
       /\ UNCHANGED pending
    \/ /\ ~pending[s].eog /\ control = "Continue" /\ tokens[s] < budget[s]
       /\ job' = [job EXCEPT ![s] = "computing"]
       /\ UNCHANGED pending

OnToken_TextFirst(s) ==
    /\ job[s] = "on_token"
    /\ \/ ~pending[s].has_text /\ AfterToken(s, "Continue")
       \/ pending[s].has_text /\ Closed(s) /\ AfterToken(s, "Cancel")
       \/ /\ pending[s].has_text /\ ~Closed(s)
          /\ job' = [job EXCEPT ![s] = "sending"]
          /\ UNCHANGED pending
    /\ UNCHANGED <<budget, tokens, text, channel, bodyVars, late>>

\* The callback asks first whether anyone is still there, then sends the token's
\* text if it has any.
OnToken(s) ==
    /\ job[s] = "on_token"
    /\ \/ Closed(s) /\ AfterToken(s, "Cancel")
       \/ ~Closed(s) /\ ~pending[s].has_text /\ AfterToken(s, "Continue")
       \/ /\ ~Closed(s) /\ pending[s].has_text
          /\ job' = [job EXCEPT ![s] = "sending"]
          /\ UNCHANGED pending
    /\ UNCHANGED <<budget, tokens, text, channel, bodyVars, late>>

SendDelta_Unbounded(s) ==
    /\ job[s] = "sending" /\ ~Closed(s)
    /\ channel' = [channel EXCEPT ![s] = Append(@, Event("delta", tokens[s]))]
    /\ AfterToken(s, "Continue")
    /\ UNCHANGED <<budget, tokens, text, bodyVars, late>>

\* blocking_send returns once there is room.
SendDelta(s) ==
    /\ job[s] = "sending" /\ ~Closed(s)
    /\ Len(channel[s]) < EventBuffer
    /\ channel' = [channel EXCEPT ![s] = Append(@, Event("delta", tokens[s]))]
    /\ AfterToken(s, "Continue")
    /\ UNCHANGED <<budget, tokens, text, bodyVars, late>>

\* blocking_send also returns, with an error, once the receiver is gone.
SendDeltaFails(s) ==
    /\ job[s] = "sending" /\ Closed(s)
    /\ AfterToken(s, "Cancel")
    /\ UNCHANGED <<budget, tokens, text, channel, bodyVars, late>>

Terminated(s) == IF pending[s].event = "finished" THEN "completed" ELSE "failed"

\* The terminal event waits for room like any other; the sender goes with the job.
SendTerminal(s) ==
    /\ job[s] = "terminal"
    /\ \/ Closed(s) /\ UNCHANGED channel
       \/ /\ ~Closed(s) /\ Len(channel[s]) < EventBuffer
          /\ channel' = [channel EXCEPT ![s] = Append(@, Event(pending[s].event, 0))]
    /\ job' = [job EXCEPT ![s] = Terminated(s)]
    /\ UNCHANGED <<budget, tokens, pending, text, bodyVars, late>>

JobStep(s) ==
    \/ Begin(s)
    \/ \E has_text, eog \in BOOLEAN : Choose(s, has_text, eog)
    \/ CompleteEmpty(s) \/ Fail(s) \/ Panic(s)
    \/ OnToken(s) \/ SendDelta(s) \/ SendDeltaFails(s) \/ SendTerminal(s)
-----------------------------------------------------------------------------
(* The response body, polled by the client's reads *)

See(s, event, next) ==
    /\ seen' = [seen EXCEPT ![s] = Append(@, event)]
    /\ body' = [body EXCEPT ![s] = next]

PollRole(s) ==
    /\ body[s] = "role"
    /\ See(s, Event("role", 0), "open")
    /\ UNCHANGED <<channel, jobVars>>

PollEvent_StaysOpen(s) ==
    /\ body[s] = "open" /\ channel[s] # <<>>
    /\ See(s, Head(channel[s]), "open")
    /\ channel' = [channel EXCEPT ![s] = Tail(@)]
    /\ UNCHANGED jobVars

\* An event: a delta keeps the body open, a terminal event is its last but one.
PollEvent(s) ==
    /\ body[s] = "open" /\ channel[s] # <<>>
    /\ See(s, Head(channel[s]), IF Head(channel[s]).kind = "delta" THEN "open" ELSE "done_marker")
    /\ channel' = [channel EXCEPT ![s] = Tail(@)]
    /\ UNCHANGED jobVars

PollClosed_NotOfAPanic(s) ==
    /\ body[s] = "open" /\ channel[s] = <<>> /\ job[s] \in Over \ {"panicked"}
    /\ See(s, Event("worker_failed", 0), "done_marker")
    /\ UNCHANGED <<channel, jobVars>>

PollClosed_AsFinish(s) ==
    /\ body[s] = "open" /\ channel[s] = <<>> /\ job[s] \in Over
    /\ See(s, Event("finished", 0), "done_marker")
    /\ UNCHANGED <<channel, jobVars>>

\* The sender is gone and nothing is buffered: the job ended without a terminal
\* event, and the body reports that as a failure.
PollClosed(s) ==
    /\ body[s] = "open" /\ channel[s] = <<>> /\ job[s] \in Over
    /\ See(s, Event("worker_failed", 0), "done_marker")
    /\ UNCHANGED <<channel, jobVars>>

PollDone(s) ==
    /\ body[s] = "done_marker"
    /\ See(s, Event("[DONE]", 0), "end")
    /\ UNCHANGED <<channel, jobVars>>

\* The client leaves; the receiver and what it had buffered are dropped.
Leave(s) ==
    /\ body[s] \in {"role", "open", "done_marker"}
    /\ body' = [body EXCEPT ![s] = "gone"]
    /\ channel' = [channel EXCEPT ![s] = <<>>]
    /\ UNCHANGED <<seen, jobVars>>

Poll(s) == PollRole(s) \/ PollEvent(s) \/ PollClosed(s) \/ PollDone(s)
-----------------------------------------------------------------------------
Next == \E s \in Streams :
            \/ \E chat \in BOOLEAN : Post(s, chat)
            \/ PostRefused(s) \/ JobStep(s) \/ Poll(s) \/ Leave(s)

Spec == Init /\ [][Next]_vars

\* Slots run: a forward pass ends, and a send that can return does. Nothing makes
\* a client read, so a slow one may hold its slot for ever.
SlotFairSpec == Spec /\ \A s \in Streams : WF_vars(JobStep(s))
-----------------------------------------------------------------------------
(* Safety *)

\* Events that read, from the first to the last: r roles, then the first n tokens
\* of what was decoded, then t closing events, a terminal one and [DONE]. The
\* terminal one comes after all that was decoded.
ReadsAs(events, decoded, r, n, t) ==
    /\ Len(events) = r + n + t
    /\ r = 1 => events[1] = Event("role", 0)
    /\ \A i \in 1..n : events[r + i] = Event("delta", decoded[i])
    /\ t >= 1 => events[r + n + 1] \in Terminals /\ n = Len(decoded)
    /\ t = 2 => events[r + n + 2] = Event("[DONE]", 0)

IsWellFormed(events, decoded) ==
    \E r \in 0..1, n \in 0..Len(decoded), t \in 0..2 : ReadsAs(events, decoded, r, n, t)

\* What a client has received is the beginning of one event stream, and the event
\* that ends it tells what became of the job: a client told that the generation
\* finished, or failed, has all of the text there is, and until it is told has a
\* gapless beginning of it (stream_generation and run_stream_generation).
TerminalMeansWhole ==
    \A s \in Streams :
        /\ IsWellFormed(seen[s], text[s])
        /\ "finished" \in Kinds(s) => job[s] = "completed"
        /\ "failed" \in Kinds(s) => job[s] = "failed"
        /\ "worker_failed" \in Kinds(s) => job[s] = "panicked"

\* "a disconnected or slow client cannot detach compute" (worker.rs:4-6). Once
\* the client has left, at most the forward pass under way chooses a token: the
\* next callback cancels, text or no text.
DepartedCostsAtMostOneToken == \A s \in Streams : late[s] <= 1

\* A slow client holds its own generation back: at most a full buffer and the
\* one blocked send separate what is decoded from what the client has read.
ComputeStaysNearTheReader ==
    \A s \in Streams :
        ~Closed(s) => Len(text[s]) <= Received(s) + EventBuffer + 1
-----------------------------------------------------------------------------
(* Liveness *)

\* The slot of a client that left is freed, even if no other client ever reads.
DepartedFreesItsSlot ==
    \A s \in Streams : (body[s] = "gone" /\ job[s] \in OnSlot) ~> (job[s] \in Over)

\* If the clients that stay keep reading, every stream is served to its [DONE],
\* whatever becomes of its generation.
ReadersAreServed ==
    (\A s \in Streams : WF_vars(Poll(s))) =>
        \A s \in Streams : (body[s] \in {"role", "open"}) ~> (body[s] \in {"end", "gone"})

\* Both: nobody's leaving and nobody's waiting keeps a slot or a stream for ever.
EveryStreamEnds == DepartedFreesItsSlot /\ ReadersAreServed
=============================================================================
