--------------------------- MODULE InProcessQuota ---------------------------
(***************************************************************************)
(* The per-organization request quota a gateway counts by itself:          *)
(* InProcessQuota in src/crates/gateway/src/lib.rs.                        *)
(*                                                                         *)
(* A window is fixed and starts at an organization's first request. A call *)
(* reads the clock, and only then takes the lock: it may judge by a time   *)
(* that has passed. The rest of the call is one critical section.          *)
(***************************************************************************)
EXTENDS Integers, FiniteSets, Sequences

CONSTANTS Calls,    \* calls of admit that may be under way at once
          Orgs,     \* organizations
          Limit,    \* requests an organization may make in a window
          Window,   \* the length of a window, in ticks
          MaxLag,   \* bound: ticks between reading the clock and the lock
          MaxClock, \* bound on the clock
          Absent    \* no call, no window

VARIABLES clock,   \* Instant::now()
          windows, \* the window each organization has in the map, if any
          call,    \* what each call under way has read
          charged  \* the ticks of each organization's charges, in order (history)

vars == <<clock, windows, call, charged>>
-----------------------------------------------------------------------------
Times == 0..MaxClock

TypeOK ==
    /\ clock \in Times
    /\ windows \in [Orgs -> [started_at : Times, count : 1..Limit] \cup {Absent}]
    /\ call \in [Calls -> [org : Orgs, now : Times] \cup {Absent}]
    /\ charged \in [Orgs -> Seq(Times)]

Init ==
    /\ clock = 0
    /\ windows = [o \in Orgs |-> Absent]
    /\ call = [c \in Calls |-> Absent]
    /\ charged = [o \in Orgs |-> <<>>]

\* No call waits for the lock longer than MaxLag.
Tick ==
    /\ clock < MaxClock
    /\ \A c \in Calls : call[c] # Absent => clock < call[c].now + MaxLag
    /\ clock' = clock + 1
    /\ UNCHANGED <<windows, call, charged>>

\* let now = Instant::now()
ReadClock(c, o) ==
    /\ call[c] = Absent
    /\ call' = [call EXCEPT ![c] = [org |-> o, now |-> clock]]
    /\ UNCHANGED <<clock, windows, charged>>
-----------------------------------------------------------------------------
\* duration_since is zero for an instant that is not in the past.
Expired(w, now) == now - w.started_at >= Window

\* The map an organization new to it finds: expired windows are swept.
Swept(now) ==
    [o \in Orgs |-> IF windows[o] # Absent /\ Expired(windows[o], now)
                    THEN Absent ELSE windows[o]]

Fresh(now) == [started_at |-> now, count |-> 0]

Current_KeepsStart(o, now) ==
    IF windows[o] = Absent THEN Fresh(now)
    ELSE IF Expired(windows[o], now) THEN [windows[o] EXCEPT !.count = 0]
    ELSE windows[o]

Current_KeepsCount(o, now) ==
    IF windows[o] = Absent THEN Fresh(now)
    ELSE IF Expired(windows[o], now) THEN [windows[o] EXCEPT !.started_at = now]
    ELSE windows[o]

\* The window the call is judged by: opened, restarted or as it is.
Current(o, now) ==
    IF windows[o] = Absent \/ Expired(windows[o], now) THEN Fresh(now) ELSE windows[o]

\* The whole map, once o's window is w.
Recorded(o, now, w) ==
    [(IF windows[o] = Absent THEN Swept(now) ELSE windows) EXCEPT ![o] = w]

Admit_OneMore(c) ==
    /\ call[c] # Absent
    /\ LET o == call[c].org
           w == Current(o, call[c].now)
       IN /\ w.count <= Limit
          /\ windows' = Recorded(o, call[c].now, [w EXCEPT !.count = @ + 1])
          /\ charged' = [charged EXCEPT ![o] = Append(@, clock)]
    /\ call' = [call EXCEPT ![c] = Absent]
    /\ UNCHANGED clock

Admit(c) ==
    /\ call[c] # Absent
    /\ LET o == call[c].org
           w == Current(o, call[c].now)
       IN /\ w.count < Limit
          /\ windows' = Recorded(o, call[c].now, [w EXCEPT !.count = @ + 1])
          /\ charged' = [charged EXCEPT ![o] = Append(@, clock)]
    /\ call' = [call EXCEPT ![c] = Absent]
    /\ UNCHANGED clock

\* A full window is neither new nor restarted: the map stays.
Refuse(c) ==
    /\ call[c] # Absent
    /\ Current(call[c].org, call[c].now).count >= Limit
    /\ call' = [call EXCEPT ![c] = Absent]
    /\ UNCHANGED <<clock, windows, charged>>

Next ==
    \/ Tick
    \/ \E c \in Calls : (\E o \in Orgs : ReadClock(c, o)) \/ Admit(c) \/ Refuse(c)

Spec == Init /\ [][Next]_vars
-----------------------------------------------------------------------------
\* Charges to o from tick first to tick last.
ChargedIn(o, first, last) ==
    Cardinality({i \in DOMAIN charged[o] : first <= charged[o][i] /\ charged[o][i] <= last})

\* Whatever calls race and whatever is swept, no span shorter than a window sees
\* two windows' worth of requests ("under 2 * limit requests", lib.rs:946-947), up
\* to the time a call may wait for the lock: a late call opens its window with an
\* early start, and the next may follow that much sooner.
BurstIsBounded ==
    \A o \in Orgs, t \in Times : ChargedIn(o, t, t + Window - MaxLag - 1) < 2 * Limit

\* An organization is refused for its own recent requests only: it has made
\* Limit of them in the time a window lasts.
RefusalIsEarned ==
    [][\A c \in Calls : call[c] # Absent /\ call'[c] = Absent /\ charged' = charged =>
           ChargedIn(call[c].org, clock - Window - MaxLag + 1, clock) >= Limit]_vars
=============================================================================
