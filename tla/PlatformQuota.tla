--------------------------- MODULE PlatformQuota ---------------------------
(***************************************************************************)
(* The per-organization request quota that gateway pods share through      *)
(* PostgreSQL: PlatformQuota and PlatformStore::configure_quota and sweep   *)
(* in src/crates/platform-store/src/lib.rs, and the sweeper of             *)
(* gateway/src/main.rs.                                                    *)
(*                                                                         *)
(* An admission is one statement, but two moments: it takes its snapshot   *)
(* (the time, and the limit its subqueries read) when it begins, and       *)
(* touches its row when it gets the row's lock. A configuration is a       *)
(* transaction under the advisory lock. The clock is the database's, in    *)
(* seconds; no pod's clock plays a part.                                   *)
(***************************************************************************)
EXTENDS Integers, FiniteSets

CONSTANTS Pods,       \* gateway pods
          Requests,   \* admissions asked for, by any pod
          Orgs,       \* organizations
          Limits,     \* values of --org-request-quota
          Windows,    \* values of --org-request-quota-window-seconds
          Timeout,    \* statement_timeout, in seconds
          MaxClock,   \* bound on the clock
          MaxBoots,   \* bound on the starts of pods
          NoPod,      \* nobody has the schema lock
          NoConfig    \* quota_config has no row

ASSUME QuotaAssumption ==
    /\ Limits \subseteq Nat \ {0} /\ Windows \subseteq Nat \ {0}
    /\ Timeout \in Nat /\ MaxClock \in Nat /\ MaxBoots \in Nat
    /\ NoPod \notin Pods /\ NoConfig \notin [limit : Limits, window : Windows]

VARIABLES clock,  \* now(), whole seconds
          config, \* quota_config: its row, or NoConfig
          rows,   \* quota_windows: the count at <<organization, start>>, 0 for no row
          lock,   \* the pod whose transaction has the schema lock, or NoPod
          doomed, \* the rows that transaction has deleted, until it commits
          status, \* each pod: "down", "opening" or "up"
          args,   \* what each pod was started with
          boots,  \* starts of pods so far
          stmt,   \* each admission's statement, at the database
          ans,    \* what the pod made of it
          spent   \* requests charged to each row since it was last discarded (history)

storeVars == <<config, rows, spent>>
podVars   == <<lock, doomed, status, args, boots>>
askVars   == <<stmt, ans>>
vars == <<clock, storeVars, podVars, askVars>>
-----------------------------------------------------------------------------
NoLimit == 0

Args == [limit : Limits, window : Windows, change : {"refuse", "reconfigure"}]
NoArgs == [limit |-> NoLimit]

\* Elapsed windows a sweep leaves in place.
RETENTION_WINDOWS == 3

Keys == Orgs \X (0..MaxClock)

\* The start of the window of length w that t falls in, counted from the epoch.
WindowStart(t, w) == (t \div w) * w

StatementIsOpen == {"queued", "running"}

\* The rows without those of S.
Deleted(S) == [k \in Keys |-> IF k \in S THEN 0 ELSE rows[k]]

Idle == [state |-> "none"]
Ended(r, outcome) == [state |-> outcome, pod |-> stmt[r].pod]

\* The statements, when quota_config changes under those that have begun.
Outdated ==
    [r \in Requests |-> IF stmt[r].state = "running"
                        THEN [stmt[r] EXCEPT !.current = FALSE] ELSE stmt[r]]

TypeOK ==
    /\ clock \in 0..MaxClock
    /\ config \in [limit : Limits, window : Windows] \cup {NoConfig}
    /\ rows \in [Keys -> Nat]
    /\ boots \in 0..MaxBoots
    /\ lock \in Pods \cup {NoPod} /\ doomed \subseteq Keys
    /\ status \in [Pods -> {"down", "opening", "up"}]
    /\ \A p \in Pods : args[p] \in IF status[p] = "down" THEN {NoArgs} ELSE Args
    /\ \A r \in Requests :
           \/ stmt[r] = Idle
           \/ stmt[r] \in [state : {"charged", "full", "unlimited", "aborted"}, pod : Pods]
           \/ stmt[r] \in [state : StatementIsOpen, pod : Pods, org : Orgs, window : Windows,
                           limit : Limits \cup {NoLimit}, at : 0..MaxClock, current : BOOLEAN]
    /\ ans \in [Requests -> {"none", "waiting", "admitted", "exceeded", "unavailable"}]
    /\ spent \in [Keys -> Nat]

Init ==
    /\ clock = 0
    /\ config = NoConfig /\ rows = [k \in Keys |-> 0] /\ spent = [k \in Keys |-> 0]
    /\ lock = NoPod /\ doomed = {} /\ boots = 0
    /\ status = [p \in Pods |-> "down"]
    /\ args = [p \in Pods |-> NoArgs]
    /\ stmt = [r \in Requests |-> Idle] /\ ans = [r \in Requests |-> "none"]

Tick ==
    /\ clock < MaxClock
    /\ clock' = clock + 1
    /\ UNCHANGED <<storeVars, podVars, askVars>>
-----------------------------------------------------------------------------
(* Opening a pod's quota: connect, configure_quota *)

Boot(p, a) ==
    /\ status[p] = "down" /\ boots < MaxBoots
    /\ boots' = boots + 1
    /\ status' = [status EXCEPT ![p] = "opening"]
    /\ args' = [args EXCEPT ![p] = a]
    /\ UNCHANGED <<clock, storeVars, lock, doomed, askVars>>

\* The stored window is not p's.
Mismatch(p) == config # NoConfig /\ config.window # args[p].window

\* QuotaWindowMismatch: the pod does not start.
ConfigureRefuses(p) ==
    /\ status[p] = "opening" /\ lock = NoPod
    /\ Mismatch(p) /\ args[p].change = "refuse"
    /\ status' = [status EXCEPT ![p] = "down"] /\ args' = [args EXCEPT ![p] = NoArgs]
    /\ UNCHANGED <<clock, storeVars, lock, doomed, boots, askVars>>

\* Under the lock: read the row, and in a change of window delete every counter
\* there is.
ConfigureBegins(p) ==
    /\ status[p] = "opening" /\ lock = NoPod
    /\ Mismatch(p) => args[p].change = "reconfigure"
    /\ lock' = p
    /\ doomed' = IF Mismatch(p) THEN {k \in Keys : rows[k] > 0} ELSE {}
    /\ UNCHANGED <<clock, storeVars, status, args, boots, askVars>>

\* The row says what p was started with, whether it was inserted, updated or
\* right already; statements whose snapshot is older keep what they read.
ConfigureCommits(p) ==
    /\ lock = p
    /\ config' = [limit |-> args[p].limit, window |-> args[p].window]
    /\ rows' = Deleted(doomed)
    /\ spent' = [k \in Keys |-> IF k \in doomed THEN 0 ELSE spent[k]]
    /\ lock' = NoPod /\ doomed' = {}
    /\ status' = [status EXCEPT ![p] = "up"]
    /\ stmt' = IF config' # config THEN Outdated ELSE stmt
    /\ UNCHANGED <<clock, args, boots, ans>>

\* A pod dies: its transaction rolls back, its callers are gone; a statement the
\* database already has may still run.
Crash(p) ==
    /\ status[p] # "down"
    /\ status' = [status EXCEPT ![p] = "down"] /\ args' = [args EXCEPT ![p] = NoArgs]
    /\ lock' = IF lock = p THEN NoPod ELSE lock
    /\ doomed' = IF lock = p THEN {} ELSE doomed
    /\ ans' = [r \in Requests |-> IF ans[r] = "waiting" /\ stmt[r].pod = p
                                  THEN "unavailable" ELSE ans[r]]
    /\ stmt' = [r \in Requests |-> IF stmt[r].state = "queued" /\ stmt[r].pod = p
                                   THEN Ended(r, "aborted") ELSE stmt[r]]
    /\ UNCHANGED <<clock, storeVars, boots>>

\* The row goes missing behind the pods' backs (tests/postgres_quota.rs:523).
LoseConfig ==
    /\ config # NoConfig /\ lock = NoPod
    /\ config' = NoConfig
    /\ stmt' = Outdated
    /\ UNCHANGED <<clock, rows, spent, podVars, ans>>
-----------------------------------------------------------------------------
(* admit *)

\* The pod waits for a pooled connection.
Ask(r, p, o) ==
    /\ ans[r] = "none" /\ status[p] = "up"
    /\ ans' = [ans EXCEPT ![r] = "waiting"]
    /\ stmt' = [stmt EXCEPT ![r] = [state |-> "queued", pod |-> p, org |-> o,
                                    window |-> args[p].window,
                                    limit |-> NoLimit, at |-> 0, current |-> FALSE]]
    /\ UNCHANGED <<clock, storeVars, podVars>>

StatementBegins_OwnLimit(r) ==
    /\ stmt[r].state = "queued"
    /\ stmt' = [stmt EXCEPT ![r].state = "running", ![r].at = clock, ![r].current = TRUE,
                            ![r].limit = args[stmt[r].pod].limit]
    /\ UNCHANGED <<clock, storeVars, podVars, ans>>

\* ADMIT_SQL takes its snapshot.
StatementBegins(r) ==
    /\ stmt[r].state = "queued"
    /\ stmt' = [stmt EXCEPT ![r].state = "running", ![r].at = clock, ![r].current = TRUE,
                            ![r].limit = IF config = NoConfig THEN NoLimit ELSE config.limit]
    /\ UNCHANGED <<clock, storeVars, podVars, ans>>

\* The row a statement charges: its window was fixed when it began.
KeyOf(r) == <<stmt[r].org, WindowStart(stmt[r].at, stmt[r].window)>>

\* The statement has its row's lock, in time, and nothing has deleted the row.
HasRow(r) ==
    /\ stmt[r].state = "running"
    /\ clock <= stmt[r].at + Timeout
    /\ KeyOf(r) \notin doomed

\* INSERT, or the conflict's UPDATE on the row as it is now.
StatementCharges(r) ==
    /\ HasRow(r)
    /\ stmt[r].limit # NoLimit
    /\ rows[KeyOf(r)] < stmt[r].limit
    /\ rows' = [rows EXCEPT ![KeyOf(r)] = @ + 1]
    /\ spent' = [spent EXCEPT ![KeyOf(r)] = @ + 1]
    /\ stmt' = [stmt EXCEPT ![r] = Ended(r, "charged")]
    /\ UNCHANGED <<clock, config, podVars, ans>>

\* The conflict's WHERE fails: the row is not updated.
StatementFindsFull(r) ==
    /\ HasRow(r)
    /\ stmt[r].limit # NoLimit
    /\ rows[KeyOf(r)] >= stmt[r].limit
    /\ stmt' = [stmt EXCEPT ![r] = Ended(r, "full")]
    /\ UNCHANGED <<clock, storeVars, podVars, ans>>

\* No limit to admit against: neither branch writes.
StatementFindsNoLimit(r) ==
    /\ stmt[r].state = "running" /\ stmt[r].limit = NoLimit
    /\ stmt' = [stmt EXCEPT ![r] = Ended(r, "unlimited")]
    /\ UNCHANGED <<clock, storeVars, podVars, ans>>

\* No connection in time, or statement_timeout: nothing is written.
StatementAborts(r) ==
    /\ stmt[r].state \in StatementIsOpen
    /\ stmt' = [stmt EXCEPT ![r] = Ended(r, "aborted")]
    /\ ans' = [ans EXCEPT ![r] = IF @ = "waiting" THEN "unavailable" ELSE @]
    /\ UNCHANGED <<clock, storeVars, podVars>>

\* The answer arrives.
Answered(r) ==
    /\ ans[r] = "waiting"
    /\ stmt[r].state \in {"charged", "full", "unlimited"}
    /\ ans' = [ans EXCEPT ![r] = CASE stmt[r].state = "charged"   -> "admitted"
                                   [] stmt[r].state = "full"      -> "exceeded"
                                   [] stmt[r].state = "unlimited" -> "unavailable"]
    /\ UNCHANGED <<clock, storeVars, podVars, stmt>>

Unanswered_Admits(r) ==
    /\ ans[r] = "waiting" /\ stmt[r].state # "queued"
    /\ ans' = [ans EXCEPT ![r] = "admitted"]
    /\ UNCHANGED <<clock, storeVars, podVars, stmt>>

\* The connection breaks; the statement may have run, or still run.
Unanswered(r) ==
    /\ ans[r] = "waiting" /\ stmt[r].state # "queued"
    /\ ans' = [ans EXCEPT ![r] = "unavailable"]
    /\ UNCHANGED <<clock, storeVars, podVars, stmt>>
-----------------------------------------------------------------------------
(* Housekeeping *)

Sweep_NoRetention(p) ==
    /\ status[p] = "up"
    /\ LET old == {k \in Keys \ doomed : rows[k] > 0 /\ k[2] < clock}
       IN old # {} /\ rows' = Deleted(old)
    /\ UNCHANGED <<clock, config, spent, podVars, askVars>>

\* SWEEP_SQL, with the retention of the window p was started with.
Sweep(p) ==
    /\ status[p] = "up"
    /\ LET retention == RETENTION_WINDOWS * args[p].window
           old == {k \in Keys \ doomed : rows[k] > 0 /\ k[2] < clock - retention}
       IN old # {} /\ rows' = Deleted(old)
    /\ UNCHANGED <<clock, config, spent, podVars, askVars>>
-----------------------------------------------------------------------------
Admission(r) ==
    \/ \E p \in Pods, o \in Orgs : Ask(r, p, o)
    \/ StatementBegins(r)
    \/ StatementCharges(r) \/ StatementFindsFull(r) \/ StatementFindsNoLimit(r)
    \/ StatementAborts(r) \/ Answered(r) \/ Unanswered(r)

Next ==
    \/ Tick \/ LoseConfig
    \/ \E r \in Requests : Admission(r)
    \/ \E p \in Pods :
           \/ \E a \in Args : Boot(p, a)
           \/ ConfigureRefuses(p) \/ ConfigureBegins(p) \/ ConfigureCommits(p)
           \/ Crash(p) \/ Sweep(p)

Spec == Init /\ [][Next]_vars
-----------------------------------------------------------------------------
(* Properties *)

\* A sweep, by a pod of any window, leaves the counters of windows of length w in
\* place for as long as a statement may charge them.
RetentionCovers(w) == \A v \in Windows : w + Timeout <= RETENTION_WINDOWS * v

\* "the limit is the deployment's, not the pod's" (lib.rs:16): whichever pods ask
\* and sweep, a charge stays within the recorded limit, unless the statement was
\* under way when that limit was recorded, or its window is so long that a pod
\* which runs a much shorter one may have swept its counter.
LimitIsTheDeployments ==
    [][\A r \in Requests :
           /\ stmt[r].state = "running" /\ stmt'[r].state = "charged" /\ stmt[r].current
           /\ RetentionCovers(stmt[r].window)
           => config # NoConfig /\ spent'[KeyOf(r)] <= config.limit]_vars

\* Fail-closed: admitted means charged, exceeded means not charged; only
\* "unavailable" leaves it open.
AnswersAreTrue ==
    \A r \in Requests :
        /\ ans[r] = "admitted" => stmt[r].state = "charged"
        /\ ans[r] = "exceeded" => stmt[r].state = "full"
=============================================================================
