--------------------------- MODULE OrgQuotaProofs ---------------------------
(***************************************************************************)
(* What the two quotas of OrgQuota guarantee for any pods, tenants, calls, *)
(* limits, windows and waits: first the one pods share through PostgreSQL, *)
(* then the one a process counts by itself.                                *)
(***************************************************************************)
EXTENDS OrgQuota, FiniteSetTheorems, SequenceTheorems, WellFoundedInduction, TLAPS

-----------------------------------------------------------------------------
(* The quota pods share: types *)

OpenStatements ==
    [state : StatementIsOpen, pod : Pods, org : Orgs, window : Windows,
     limit : Limits \cup {NoLimit}, at : 0..MaxClock, current : BOOLEAN]

EndedStatements == [state : {"charged", "full", "unlimited", "aborted"}, pod : Pods]

Configs == [limit : Limits, window : Windows]

PodTypes ==
    /\ clock \in 0..MaxClock
    /\ config \in Configs \cup {NoConfig}
    /\ rows \in [Keys -> Nat] /\ spent \in [Keys -> Nat]
    /\ boots \in 0..MaxBoots
    /\ lock \in Pods \cup {NoPod} /\ doomed \subseteq Keys
    /\ status \in [Pods -> {"down", "opening", "up"}]
    /\ args \in [Pods -> Args \cup {NoArgs}]
    /\ \A p \in Pods : args[p] \in IF status[p] = "down" THEN {NoArgs} ELSE Args
    /\ \A p \in Pods : lock = p => status[p] # "down"

StatementTypes ==
    /\ stmt \in [Requests -> {Idle} \cup EndedStatements \cup OpenStatements]
    /\ ans \in [Requests -> {"none", "waiting", "admitted", "exceeded", "unavailable"}]

LEMMA QuotaFacts ==
    /\ Limits \subseteq Nat \ {0} /\ Windows \subseteq Nat \ {0}
    /\ Timeout \in Nat /\ MaxClock \in Nat
    /\ NoConfig \notin [limit : Limits, window : Windows]
    BY QuotaAssumption DEF QuotaAssumption

\* A window covers the time it was computed for.
LEMMA WindowCovers ==
    ASSUME NEW t \in Nat, NEW w \in Nat \ {0}
    PROVE  /\ WindowStart(t, w) \in Nat
           /\ WindowStart(t, w) <= t /\ t < WindowStart(t, w) + w
    BY DEF WindowStart

\* The key a pod's arguments are read under exists while it is not down.
LEMMA ArgsOf ==
    ASSUME PodTypes, NEW p \in Pods, status[p] # "down"
    PROVE  /\ args[p] \in Args /\ args[p].limit \in Limits /\ args[p].window \in Windows
           /\ [limit |-> args[p].limit, window |-> args[p].window] \in Configs
    BY DEF PodTypes, Args, Configs

LEMMA PodTypesInit == Init => PodTypes /\ StatementTypes
    <1> SUFFICES ASSUME Init PROVE PodTypes /\ StatementTypes
        OBVIOUS
    <1>1. PodTypes
        <2>1. clock \in 0..MaxClock /\ boots \in 0..MaxBoots
            BY QuotaAssumption DEF Init, QuotaAssumption
        <2>2. rows \in [Keys -> Nat] /\ spent \in [Keys -> Nat]
            BY DEF Init
        <2>3. /\ status \in [Pods -> {"down", "opening", "up"}]
              /\ args \in [Pods -> Args \cup {NoArgs}]
              /\ config = NoConfig /\ lock = NoPod /\ doomed = {}
            BY DEF Init
        <2>4. \A p \in Pods : args[p] = NoArgs /\ status[p] = "down" /\ lock # p
            BY QuotaAssumption DEF Init, QuotaAssumption
        <2>5. QED
            BY <2>1, <2>2, <2>3, <2>4 DEF PodTypes
    <1>2. StatementTypes
        BY DEF Init, StatementTypes
    <1>3. QED
        BY <1>1, <1>2

LEMMA PodTypesStep == PodTypes /\ StatementTypes /\ Next => PodTypes'
    <1> SUFFICES ASSUME PodTypes, StatementTypes, Next PROVE PodTypes'
        OBVIOUS
    <1> USE QuotaAssumption DEF QuotaAssumption, storeVars, podVars, askVars
    <1>1. CASE Tick
        BY <1>1 DEF Tick, PodTypes
    <1>2. CASE LoseConfig
        BY <1>2 DEF LoseConfig, PodTypes
    <1>3. ASSUME NEW r \in Requests, Admission(r) PROVE PodTypes'
        <2>1. CASE StatementCharges(r)
            <3>1. /\ rows' = [rows EXCEPT ![KeyOf(r)] = @ + 1]
                  /\ spent' = [spent EXCEPT ![KeyOf(r)] = @ + 1]
                  /\ UNCHANGED <<clock, config, podVars>>
                BY <2>1 DEF StatementCharges
            <3> HIDE QuotaAssumption
            <3>2. \A f \in [Keys -> Nat] : \A k : [f EXCEPT ![k] = f[k] + 1] \in [Keys -> Nat]
                <4> TAKE f \in [Keys -> Nat]
                <4> TAKE k
                <4>1. CASE k \in Keys
                    BY <4>1
                <4>2. CASE k \notin Keys
                    BY <4>2
                <4>3. QED
                    BY <4>1, <4>2
            <3>3. rows' \in [Keys -> Nat] /\ spent' \in [Keys -> Nat]
                BY <3>1, <3>2 DEF PodTypes
            <3>4. QED
                BY <3>1, <3>3 DEF PodTypes
        <2>2. CASE UNCHANGED <<clock, storeVars, podVars>>
            BY <2>2 DEF PodTypes
        <2>3. QED
            BY <1>3, <2>1, <2>2 DEF Admission, Ask, StatementBegins, StatementFindsFull,
               StatementFindsNoLimit, StatementAborts, Answered, Unanswered
    <1>4. ASSUME NEW p \in Pods, NEW a \in Args, Boot(p, a) PROVE PodTypes'
        <2>1. /\ status' = [status EXCEPT ![p] = "opening"]
              /\ args' = [args EXCEPT ![p] = a]
              /\ boots' = boots + 1 /\ boots < MaxBoots
              /\ UNCHANGED <<clock, storeVars, lock, doomed>>
            BY <1>4 DEF Boot
        <2>2. args' \in [Pods -> Args \cup {NoArgs}]
              /\ \A x \in Pods : args'[x] \in IF status'[x] = "down" THEN {NoArgs} ELSE Args
            BY <2>1 DEF PodTypes
        <2>3. QED
            BY <2>1, <2>2 DEF PodTypes
    <1>5. ASSUME NEW p \in Pods, ConfigureRefuses(p) PROVE PodTypes'
        <2>1. /\ status' = [status EXCEPT ![p] = "down"]
              /\ args' = [args EXCEPT ![p] = NoArgs] /\ lock = NoPod
              /\ UNCHANGED <<clock, storeVars, lock, doomed, boots>>
            BY <1>5 DEF ConfigureRefuses
        <2>2. args' \in [Pods -> Args \cup {NoArgs}]
              /\ \A x \in Pods : args'[x] \in IF status'[x] = "down" THEN {NoArgs} ELSE Args
            BY <2>1 DEF PodTypes
        <2>3. QED
            BY <2>1, <2>2 DEF PodTypes
    <1>6. ASSUME NEW p \in Pods, ConfigureBegins(p) PROVE PodTypes'
        <2>1. /\ lock' = p /\ status[p] = "opening"
              /\ doomed' = IF Mismatch(p) THEN {k \in Keys : rows[k] > 0} ELSE {}
              /\ UNCHANGED <<clock, storeVars, status, args, boots>>
            BY <1>6 DEF ConfigureBegins
        <2>2. QED
            BY <2>1 DEF PodTypes
    <1>7. ASSUME NEW p \in Pods, ConfigureCommits(p) PROVE PodTypes'
        <2>1. /\ lock = p /\ lock' = NoPod /\ doomed' = {}
              /\ config' = [limit |-> args[p].limit, window |-> args[p].window]
              /\ rows' = Deleted(doomed)
              /\ spent' = [k \in Keys |-> IF k \in doomed THEN 0 ELSE spent[k]]
              /\ status' = [status EXCEPT ![p] = "up"]
              /\ UNCHANGED <<clock, args, boots>>
            BY <1>7 DEF ConfigureCommits
        <2>2. status[p] # "down" /\ config' \in Configs
            BY <2>1, ArgsOf DEF PodTypes
        <2>3. rows' \in [Keys -> Nat] /\ spent' \in [Keys -> Nat]
            BY <2>1 DEF PodTypes, Deleted
        <2>4. \A x \in Pods : args'[x] \in IF status'[x] = "down" THEN {NoArgs} ELSE Args
            BY <2>1, <2>2 DEF PodTypes
        <2>5. QED
            BY <2>1, <2>2, <2>3, <2>4 DEF PodTypes
    <1>8. ASSUME NEW p \in Pods, Crash(p) PROVE PodTypes'
        <2>1. /\ status' = [status EXCEPT ![p] = "down"]
              /\ args' = [args EXCEPT ![p] = NoArgs]
              /\ lock' = IF lock = p THEN NoPod ELSE lock
              /\ doomed' = IF lock = p THEN {} ELSE doomed
              /\ UNCHANGED <<clock, storeVars, boots>>
            BY <1>8 DEF Crash
        <2>2. args' \in [Pods -> Args \cup {NoArgs}]
              /\ \A x \in Pods : args'[x] \in IF status'[x] = "down" THEN {NoArgs} ELSE Args
            BY <2>1 DEF PodTypes
        <2>3. QED
            BY <2>1, <2>2 DEF PodTypes
    <1>9. ASSUME NEW p \in Pods, Sweep(p) PROVE PodTypes'
        <2>1. /\ \E old : rows' = Deleted(old)
              /\ UNCHANGED <<clock, config, spent, podVars>>
            BY <1>9 DEF Sweep
        <2>2. rows' \in [Keys -> Nat]
            BY <2>1 DEF PodTypes, Deleted
        <2>3. QED
            BY <2>1, <2>2 DEF PodTypes
    <1>10. QED
        BY <1>1, <1>2, <1>3, <1>4, <1>5, <1>6, <1>7, <1>8, <1>9 DEF Next
-----------------------------------------------------------------------------
(* The quota pods share: what becomes of one statement in one step *)

\* A statement is left alone, or outdated, or ended, or it is queued or begins.
StatementStep(r) ==
    \/ stmt'[r] = stmt[r]
    \/ stmt[r].state = "running" /\ stmt'[r] = [stmt[r] EXCEPT !.current = FALSE]
    \/ stmt[r].state \in StatementIsOpen /\ stmt'[r] = Ended(r, "aborted")
    \/ stmt[r].state = "running" /\ stmt'[r] = Ended(r, "full")
    \/ stmt[r].state = "running" /\ stmt'[r] = Ended(r, "unlimited")
    \/ StatementCharges(r)
    \/ StatementBegins(r)
    \/ \E p \in Pods, o \in Orgs : Ask(r, p, o)

LEMMA EveryStatementSteps ==
    ASSUME PodTypes, StatementTypes, Next, NEW r \in Requests
    PROVE  StatementStep(r)
    <1> USE DEF StatementStep
    <1>0. stmt \in [Requests -> {Idle} \cup EndedStatements \cup OpenStatements]
        BY DEF StatementTypes
    <1>1. CASE UNCHANGED stmt
        BY <1>1
    <1>2. CASE stmt' = Outdated
        BY <1>2 DEF Outdated
    <1>3. ASSUME NEW p \in Pods, Crash(p) PROVE StatementStep(r)
        <2>1. stmt' = [x \in Requests |-> IF stmt[x].state = "queued" /\ stmt[x].pod = p
                                          THEN Ended(x, "aborted") ELSE stmt[x]]
            BY <1>3 DEF Crash
        <2>2. QED
            BY <2>1 DEF StatementIsOpen
    <1>4. ASSUME NEW x \in Requests, Admission(x) PROVE StatementStep(r)
        <2>1. CASE x = r
            <3>1. ASSUME NEW outcome, stmt' = [stmt EXCEPT ![x] = Ended(x, outcome)]
                  PROVE  stmt'[r] = Ended(r, outcome)
                BY <1>0, <2>1, <3>1
            <3>2. CASE StatementFindsFull(x) \/ StatementFindsNoLimit(x) \/ StatementAborts(x)
                BY <2>1, <3>1, <3>2
                   DEF StatementFindsFull, StatementFindsNoLimit, StatementAborts, HasRow
            <3>3. CASE Answered(x) \/ Unanswered(x)
                BY <3>3 DEF Answered, Unanswered
            <3>4. QED
                BY <1>4, <2>1, <3>2, <3>3 DEF Admission
        <2>2. CASE x # r
            <3>1. ASSUME NEW v, stmt' = [stmt EXCEPT ![x] = v] PROVE stmt'[r] = stmt[r]
                BY <1>0, <2>2, <3>1
            <3>2. CASE StatementBegins(x)
                BY <1>0, <2>2, <3>2 DEF StatementBegins
            <3>3. QED
                BY <1>4, <3>1, <3>2 DEF Admission, Ask, StatementCharges, StatementFindsFull,
                   StatementFindsNoLimit, StatementAborts, Answered, Unanswered
        <2>3. QED
            BY <2>1, <2>2
    <1>5. ASSUME NEW p \in Pods,
                 ConfigureRefuses(p) \/ ConfigureBegins(p) \/ ConfigureCommits(p) \/ Sweep(p)
                 \/ \E a \in Args : Boot(p, a)
          PROVE  StatementStep(r)
        <2>1. UNCHANGED stmt \/ stmt' = Outdated
            BY <1>5 DEF ConfigureRefuses, ConfigureBegins, ConfigureCommits, Sweep, Boot, askVars
        <2>2. QED
            BY <1>1, <1>2, <2>1
    <1>6. QED
        BY <1>1, <1>2, <1>3, <1>4, <1>5 DEF Next, Tick, LoseConfig, askVars

LEMMA OpenMeansOpen ==
    ASSUME StatementTypes, NEW r \in Requests, stmt[r].state \in StatementIsOpen
    PROVE  stmt[r] \in OpenStatements
    BY DEF StatementTypes, StatementIsOpen, EndedStatements, Idle

RecordedLimit == IF config = NoConfig THEN NoLimit ELSE config.limit

\* What a beginning statement becomes.
LEMMA Beginning ==
    ASSUME PodTypes, StatementTypes, NEW r \in Requests, StatementBegins(r)
    PROVE  /\ stmt'[r] \in OpenStatements
           /\ stmt'[r].state = "running" /\ stmt'[r].at = clock
           /\ stmt'[r].limit = RecordedLimit
    <1>1. stmt[r].state = "queued" /\ stmt[r] \in OpenStatements
        BY OpenMeansOpen DEF StatementBegins, StatementIsOpen
    <1>2. stmt'[r] = [stmt[r] EXCEPT !.state = "running", !.at = clock, !.current = TRUE,
                                     !.limit = RecordedLimit]
        BY DEF StatementBegins, StatementTypes, RecordedLimit
    <1>3. clock \in 0..MaxClock /\ RecordedLimit \in Limits \cup {NoLimit}
        BY DEF PodTypes, Configs, RecordedLimit
    <1>4. QED
        BY <1>1, <1>2, <1>3 DEF OpenStatements, StatementIsOpen

LEMMA Outdating ==
    ASSUME NEW s \in OpenStatements
    PROVE  LET t == [s EXCEPT !.current = FALSE]
           IN  /\ t \in OpenStatements /\ t.state = s.state /\ t.at = s.at
               /\ t.limit = s.limit /\ t.current = FALSE
    BY DEF OpenStatements

LEMMA StatementTypesStep == PodTypes /\ StatementTypes /\ Next => StatementTypes'
    <1> SUFFICES ASSUME PodTypes, StatementTypes, Next PROVE StatementTypes'
        OBVIOUS
    <1>1. ans' \in [Requests -> {"none", "waiting", "admitted", "exceeded", "unavailable"}]
        <2>1. ASSUME NEW r \in Requests, Answered(r)
              PROVE  ans' \in [Requests -> {"none", "waiting", "admitted", "exceeded",
                                             "unavailable"}]
            <3>1. PICK a \in {"admitted", "exceeded", "unavailable"} : ans' = [ans EXCEPT ![r] = a]
                BY <2>1 DEF Answered
            <3>2. QED
                BY <3>1 DEF StatementTypes
        <2>2. ASSUME NEW r \in Requests, Admission(r), ~Answered(r)
              PROVE  ans' \in [Requests -> {"none", "waiting", "admitted", "exceeded",
                                             "unavailable"}]
            BY <2>2 DEF Admission, Ask, StatementBegins, StatementCharges, StatementFindsFull,
               StatementFindsNoLimit, StatementAborts, Unanswered, StatementTypes
        <2>3. ASSUME NEW p \in Pods, Crash(p)
              PROVE  ans' \in [Requests -> {"none", "waiting", "admitted", "exceeded",
                                             "unavailable"}]
            BY <2>3 DEF Crash, StatementTypes
        <2>4. QED
            BY <2>1, <2>2, <2>3 DEF Next, Tick, LoseConfig, Boot, ConfigureRefuses,
               ConfigureBegins, ConfigureCommits, Sweep, askVars, StatementTypes
    <1>2. ASSUME NEW r \in Requests
          PROVE  stmt'[r] \in {Idle} \cup EndedStatements \cup OpenStatements
        <2>0. stmt[r] \in {Idle} \cup EndedStatements \cup OpenStatements
            BY DEF StatementTypes
        <2>1. ASSUME NEW outcome \in {"charged", "full", "unlimited", "aborted"},
                     stmt[r].state \in StatementIsOpen
              PROVE  Ended(r, outcome) \in EndedStatements
            BY <2>1, OpenMeansOpen DEF Ended, EndedStatements, OpenStatements
        <2>2. ASSUME NEW p \in Pods, NEW o \in Orgs, Ask(r, p, o)
              PROVE  stmt'[r] \in OpenStatements
            <3>1. status[p] = "up"
                  /\ stmt' = [stmt EXCEPT ![r] = [state |-> "queued", pod |-> p, org |-> o,
                                    window |-> args[p].window,
                                    limit |-> NoLimit, at |-> 0, current |-> FALSE]]
                BY <2>2 DEF Ask
            <3>2. args[p].window \in Windows
                <4>1. status[p] # "down"
                    BY <3>1
                <4>2. QED
                    BY <4>1, ArgsOf
            <3>3. 0 \in 0..MaxClock
                BY QuotaFacts
            <3>4. QED
                BY <3>1, <3>2, <3>3 DEF StatementTypes, OpenStatements, StatementIsOpen
        <2>3. CASE stmt[r].state = "running" /\ stmt'[r] = [stmt[r] EXCEPT !.current = FALSE]
            BY <2>3, OpenMeansOpen, Outdating DEF StatementIsOpen
        <2>4. CASE StatementCharges(r)
            <3>1. stmt[r].state = "running" /\ stmt'[r] = Ended(r, "charged")
                BY <2>4 DEF StatementCharges, HasRow, StatementTypes
            <3>2. QED
                BY <2>1, <3>1 DEF StatementIsOpen
        <2>5. QED
            BY <2>0, <2>1, <2>2, <2>3, <2>4, Beginning, EveryStatementSteps
               DEF StatementStep, StatementIsOpen
    <1>3. DOMAIN stmt' = Requests /\ stmt' = [r \in Requests |-> stmt'[r]]
        BY DEF Next, Tick, LoseConfig, Boot, ConfigureRefuses, ConfigureBegins, ConfigureCommits,
           Sweep, Crash, Admission, Ask, StatementBegins, StatementCharges, StatementFindsFull,
           StatementFindsNoLimit, StatementAborts, Answered, Unanswered, askVars, Outdated,
           StatementTypes
    <1>4. QED
        BY <1>1, <1>2, <1>3 DEF StatementTypes
-----------------------------------------------------------------------------
(* The quota pods share: answers and limits *)

\* A running statement began in the past, and while the configuration it read
\* stands its limit is the recorded one.
SnapshotInv ==
    \A r \in Requests :
        stmt[r].state = "running" =>
            /\ stmt[r].at <= clock
            /\ stmt[r].current => stmt[r].limit = RecordedLimit

\* A row counts every charge made to it for as long as a statement may charge it whose
\* window the sweeps leave in place.
CountInv ==
    \A k \in Keys :
        (\E w \in Windows : RetentionCovers(w) /\ clock < k[2] + w + Timeout)
            => spent[k] = rows[k]

LEMMA ConfigurationOutdates ==
    ASSUME Next
    PROVE  \/ config' = config
           \/ clock' = clock /\ stmt' = Outdated
    BY DEF Next, Tick, LoseConfig, Boot, ConfigureRefuses, ConfigureBegins, ConfigureCommits,
       Sweep, Crash, Admission, Ask, StatementBegins, StatementCharges, StatementFindsFull,
       StatementFindsNoLimit, StatementAborts, Answered, Unanswered, storeVars

LEMMA ClockMoves ==
    ASSUME Next, PodTypes
    PROVE  /\ clock' = clock \/ (clock' = clock + 1 /\ UNCHANGED <<storeVars, podVars, askVars>>)
           /\ clock \in Nat
    <1>1. clock \in Nat
        BY QuotaFacts DEF PodTypes
    <1>2. CASE Tick
        BY <1>1, <1>2 DEF Tick
    <1>3. CASE ~Tick
        BY <1>1, <1>3 DEF Next, LoseConfig, Boot, ConfigureRefuses, ConfigureBegins,
           ConfigureCommits, Sweep, Crash, Admission, Ask, StatementBegins, StatementCharges,
           StatementFindsFull, StatementFindsNoLimit, StatementAborts, Answered, Unanswered
    <1>4. QED
        BY <1>1, <1>2, <1>3

LEMMA SnapshotStep == PodTypes /\ StatementTypes /\ SnapshotInv /\ Next => SnapshotInv'
    <1> SUFFICES ASSUME PodTypes, StatementTypes, SnapshotInv, Next,
                        NEW r \in Requests, stmt'[r].state = "running"
                 PROVE  stmt'[r].at <= clock' /\ (stmt'[r].current => stmt'[r].limit = RecordedLimit')
        BY DEF SnapshotInv
    <1>0. /\ clock \in Nat /\ clock' \in Nat /\ clock <= clock'
          /\ stmt[r].state = "running" => stmt[r] \in OpenStatements /\ stmt[r].at \in Nat
        BY ClockMoves, OpenMeansOpen, QuotaFacts DEF StatementIsOpen, OpenStatements
    <1>1. CASE stmt' = Outdated /\ clock' = clock
        <2>1. stmt[r].state = "running" /\ stmt'[r] = [stmt[r] EXCEPT !.current = FALSE]
            BY <1>1 DEF Outdated
        <2>2. stmt'[r].at = stmt[r].at /\ stmt'[r].current = FALSE
            BY <1>0, <2>1, Outdating
        <2>3. stmt'[r].at <= clock'
            BY <1>1, <2>1, <2>2 DEF SnapshotInv
        <2>4. QED
            BY <2>2, <2>3
    <1>2. CASE config' = config
        <2>0. RecordedLimit' = RecordedLimit
            BY <1>2 DEF RecordedLimit
        <2>1. CASE stmt'[r] = stmt[r]
            BY <1>0, <2>0, <2>1 DEF SnapshotInv
        <2>2. CASE stmt[r].state = "running" /\ stmt'[r] = [stmt[r] EXCEPT !.current = FALSE]
            <3>1. stmt'[r].at = stmt[r].at /\ stmt'[r].current = FALSE
                BY <1>0, <2>2, Outdating
            <3>2. stmt[r].at <= clock /\ stmt[r].at \in Nat
                BY <1>0, <2>2 DEF SnapshotInv
            <3>3. QED
                BY <1>0, <3>1, <3>2
        <2>3. CASE StatementBegins(r)
            <3>1. stmt'[r].at = clock /\ stmt'[r].limit = RecordedLimit
                BY <2>3, Beginning
            <3>2. QED
                BY <1>0, <2>0, <3>1
        <2>4. ASSUME NEW outcome \in {"aborted", "full", "unlimited", "charged"},
                     stmt'[r] = Ended(r, outcome)
              PROVE  FALSE
            BY <2>4 DEF Ended
        <2>5. CASE StatementCharges(r)
            BY <2>4, <2>5 DEF StatementCharges, StatementTypes
        <2>6. ASSUME NEW p \in Pods, NEW o \in Orgs, Ask(r, p, o) PROVE FALSE
            BY <2>6 DEF Ask, StatementTypes
        <2>7. QED
            BY <2>1, <2>2, <2>3, <2>4, <2>5, <2>6, EveryStatementSteps DEF StatementStep
    <1>3. QED
        BY <1>1, <1>2, ConfigurationOutdates

\* An answer, once given, stays true of the statement it is about.
LEMMA AnswersStep == PodTypes /\ StatementTypes /\ AnswersAreTrue /\ Next => AnswersAreTrue'
    <1> SUFFICES ASSUME PodTypes, StatementTypes, AnswersAreTrue, Next, NEW r \in Requests
                 PROVE  /\ ans'[r] = "admitted" => stmt'[r].state = "charged"
                        /\ ans'[r] = "exceeded" => stmt'[r].state = "full"
        BY DEF AnswersAreTrue
    <1>1. ans[r] # "none" /\ stmt[r].state \in {"charged", "full"} => stmt'[r] = stmt[r]
        BY EveryStatementSteps DEF StatementStep, StatementIsOpen, StatementCharges, HasRow,
           StatementBegins, Ask
    <1>2. \/ ans'[r] = ans[r]
          \/ ans'[r] = "waiting" \/ ans'[r] = "unavailable"
          \/ Answered(r)
        BY DEF Next, Tick, LoseConfig, Boot, ConfigureRefuses, ConfigureBegins,
           ConfigureCommits, Sweep, Crash, Admission, Ask, StatementBegins, StatementCharges,
           StatementFindsFull, StatementFindsNoLimit, StatementAborts, Answered, Unanswered,
           askVars, StatementTypes
    <1>3. CASE Answered(r)
        <2>1. /\ stmt' = stmt /\ stmt[r].state \in {"charged", "full", "unlimited"}
              /\ stmt[r].state = "charged" => ans'[r] = "admitted"
              /\ stmt[r].state = "full" => ans'[r] = "exceeded"
              /\ stmt[r].state = "unlimited" => ans'[r] = "unavailable"
            BY <1>3, Zenon DEF Answered, StatementTypes
        <2>2. QED
            BY <2>1
    <1>4. QED
        BY <1>1, <1>2, <1>3 DEF AnswersAreTrue

\* A statement may charge its row until its window and its timeout are over.
LEMMA ChargedRowIsLive ==
    ASSUME PodTypes, StatementTypes, SnapshotInv, NEW r \in Requests, HasRow(r)
    PROVE  /\ KeyOf(r) \in Keys
           /\ stmt[r].window \in Windows
           /\ clock < KeyOf(r)[2] + stmt[r].window + Timeout
    <1>1. /\ stmt[r] \in OpenStatements /\ stmt[r].at <= clock
          /\ clock <= stmt[r].at + Timeout
        BY OpenMeansOpen DEF HasRow, StatementIsOpen, SnapshotInv
    <1> DEFINE t == stmt[r].at
               w == stmt[r].window
               start == WindowStart(t, w)
    <1>2. /\ stmt[r].org \in Orgs /\ w \in Windows /\ w \in Nat \ {0}
          /\ t \in 0..MaxClock /\ t \in Nat
        <2>1. stmt[r].org \in Orgs /\ w \in Windows /\ t \in 0..MaxClock
            BY <1>1 DEF OpenStatements
        <2> HIDE DEF t, w
        <2>2. QED
            BY <2>1, QuotaFacts
    <1>3. start \in Nat /\ start <= t /\ t < start + w
        BY <1>2, WindowCovers
    <1>4. KeyOf(r) = <<stmt[r].org, start>>
        BY DEF KeyOf
    <1> HIDE DEF t, w, start
    <1>5. start \in 0..MaxClock
        BY <1>2, <1>3, QuotaFacts
    <1>6. clock < start + w + Timeout
        <2>1. clock \in Nat /\ clock <= t + Timeout
            BY <1>1, QuotaFacts DEF PodTypes, t
        <2>2. QED
            BY <1>2, <1>3, <2>1, QuotaFacts
    <1>7. QED
        BY <1>2, <1>4, <1>5, <1>6 DEF Keys, w

LEMMA CountStep ==
    ASSUME PodTypes, StatementTypes, SnapshotInv, CountInv, Next
    PROVE  CountInv'
    <1> SUFFICES ASSUME NEW k \in Keys, NEW w \in Windows, RetentionCovers(w),
                        clock' < k[2] + w + Timeout
                 PROVE  spent'[k] = rows'[k]
        BY DEF CountInv, RetentionCovers
    <1>0. /\ k[2] \in Nat /\ w \in Nat /\ Timeout \in Nat
          /\ clock \in Nat /\ clock' \in Nat /\ clock <= clock'
        BY QuotaFacts, ClockMoves DEF Keys
    <1>1. clock < k[2] + w + Timeout
        BY <1>0
    <1>2. spent[k] = rows[k]
        BY <1>1 DEF CountInv
    <1>3. CASE UNCHANGED <<rows, spent>>
        BY <1>2, <1>3
    <1>4. ASSUME NEW r \in Requests, StatementCharges(r) PROVE spent'[k] = rows'[k]
        <2>1. /\ rows' = [rows EXCEPT ![KeyOf(r)] = @ + 1]
              /\ spent' = [spent EXCEPT ![KeyOf(r)] = @ + 1]
            BY <1>4 DEF StatementCharges
        <2>2. QED
            BY <1>2, <2>1 DEF PodTypes
    <1>5. ASSUME NEW p \in Pods, ConfigureCommits(p) PROVE spent'[k] = rows'[k]
        BY <1>2, <1>5 DEF ConfigureCommits, Deleted
    <1>6. ASSUME NEW p \in Pods, Sweep(p) PROVE spent'[k] = rows'[k]
        <2> DEFINE v == args[p].window
                   old == {x \in Keys \ doomed : rows[x] > 0 /\ x[2] < clock - RETENTION_WINDOWS * v}
        <2>1. rows' = Deleted(old) /\ spent' = spent /\ status[p] # "down"
            BY <1>6 DEF Sweep, storeVars
        <2>2. v \in Windows /\ v \in Nat /\ RETENTION_WINDOWS * v = 3 * v
            BY <2>1, ArgsOf, QuotaFacts DEF RETENTION_WINDOWS
        <2>3. w + Timeout <= 3 * v
            BY <2>2 DEF RetentionCovers
        <2>4. k \notin old
            <3>1. ~(k[2] < clock - RETENTION_WINDOWS * v)
                BY <1>0, <1>1, <2>2, <2>3
            <3>2. QED
                BY <3>1
        <2>5. QED
            BY <1>2, <2>1, <2>4 DEF Deleted
    <1>7. QED
        BY <1>3, <1>4, <1>5, <1>6 DEF Next, Tick, LoseConfig, Boot, ConfigureRefuses,
           ConfigureBegins, Crash, Admission, Ask, StatementBegins, StatementFindsFull,
           StatementFindsNoLimit, StatementAborts, Answered, Unanswered, storeVars

\* Only a charge makes a running statement a charged one.
LEMMA ChargingIsTheOnlyWay ==
    ASSUME PodTypes, StatementTypes, Next, NEW r \in Requests,
           stmt[r].state = "running", stmt'[r].state = "charged"
    PROVE  StatementCharges(r)
    <1>1. stmt[r] \in OpenStatements
        BY OpenMeansOpen DEF StatementIsOpen
    <1>2. stmt'[r] # [stmt[r] EXCEPT !.current = FALSE]
        BY <1>1, Outdating
    <1>3. ~StatementBegins(r) /\ ~\E p \in Pods, o \in Orgs : Ask(r, p, o)
        BY DEF StatementBegins, Ask, StatementTypes
    <1>4. stmt'[r] # Ended(r, "aborted") /\ stmt'[r] # Ended(r, "full")
          /\ stmt'[r] # Ended(r, "unlimited")
        BY DEF Ended
    <1>5. QED
        BY <1>2, <1>3, <1>4, EveryStatementSteps DEF StatementStep

PlatformInv == PodTypes /\ StatementTypes /\ SnapshotInv /\ AnswersAreTrue

LEMMA PlatformInit == OpenOrgQuota => PlatformInv /\ CountInv
    <1> SUFFICES ASSUME Init PROVE PlatformInv /\ CountInv
        BY DEF OpenOrgQuota
    <1>1. SnapshotInv /\ AnswersAreTrue
        BY DEF Init, SnapshotInv, AnswersAreTrue, Idle
    <1>2. CountInv
        BY DEF Init, CountInv
    <1>3. QED
        BY <1>1, <1>2, PodTypesInit DEF PlatformInv

LEMMA PlatformStep == PlatformInv /\ [Charges]_orgVars => PlatformInv'
    <1> SUFFICES ASSUME PlatformInv, [Charges]_orgVars PROVE PlatformInv'
        OBVIOUS
    <1>1. CASE Next
        BY <1>1, PodTypesStep, StatementTypesStep, SnapshotStep, AnswersStep DEF PlatformInv
    <1>2. CASE UNCHANGED vars
        BY <1>2 DEF PlatformInv, PodTypes, StatementTypes, SnapshotInv, AnswersAreTrue,
           RecordedLimit, vars, storeVars, podVars, askVars
    <1>3. QED
        BY <1>1, <1>2 DEF Charges, orgVars

LEMMA PlatformInvariant == OrgSpec => []PlatformInv
    BY PlatformInit, PlatformStep, PTL DEF OrgSpec

\* Whatever is lost on the way, a caller told "admitted" was charged and one told
\* "exceeded" was not.
THEOREM AnswersHold == OrgSpec => []AnswersAreTrue
    BY PlatformInvariant, PTL DEF PlatformInv

\* A charge stays within the limit on record, whichever pods ask and sweep: a
\* statement that read the limit on record charges a row that counts everything.
LEMMA ChargeWithinLimit ==
    ASSUME PlatformInv, CountInv, Next, NEW r \in Requests,
           stmt[r].state = "running", stmt'[r].state = "charged", stmt[r].current,
           RetentionCovers(stmt[r].window)
    PROVE  config # NoConfig /\ spent'[KeyOf(r)] <= config.limit
    <1> USE DEF PlatformInv
    <1>1. StatementCharges(r)
        BY ChargingIsTheOnlyWay
    <1>2. /\ stmt[r].limit = RecordedLimit /\ stmt[r].limit # NoLimit
          /\ rows[KeyOf(r)] < stmt[r].limit
        BY <1>1 DEF SnapshotInv, StatementCharges
    <1>3. config # NoConfig /\ stmt[r].limit = config.limit /\ config.limit \in Nat
        BY <1>2, QuotaFacts DEF RecordedLimit, PodTypes, Configs
    <1>4. KeyOf(r) \in Keys /\ spent[KeyOf(r)] = rows[KeyOf(r)] /\ rows[KeyOf(r)] \in Nat
        BY <1>1, ChargedRowIsLive DEF StatementCharges, CountInv, PodTypes
    <1>5. spent'[KeyOf(r)] = rows[KeyOf(r)] + 1
        BY <1>1, <1>4 DEF StatementCharges, PodTypes
    <1>6. QED
        BY <1>2, <1>3, <1>4, <1>5

\* "The limit is the deployment's, not the pod's": between two changes of the window
\* never more than the recorded limit is charged to a row, by any pods together whose
\* windows every pod's sweep leaves in place; with one window of at least half the
\* statement timeout (a second, lib.rs:255) that is all of them.
THEOREM LimitHolds == OrgSpec => LimitIsTheDeployments
    <1> DEFINE Within ==
          \A r \in Requests :
              /\ stmt[r].state = "running" /\ stmt'[r].state = "charged" /\ stmt[r].current
              /\ RetentionCovers(stmt[r].window)
              => config # NoConfig /\ spent'[KeyOf(r)] <= config.limit
    <1>1. PlatformInv /\ CountInv /\ [Charges]_orgVars => CountInv'
        <2> SUFFICES ASSUME PlatformInv, CountInv, [Charges]_orgVars PROVE CountInv'
            OBVIOUS
        <2>1. CASE Next
            BY <2>1, CountStep DEF PlatformInv
        <2>2. CASE UNCHANGED vars
            BY <2>2 DEF CountInv, vars, storeVars
        <2>3. QED
            BY <2>1, <2>2 DEF Charges, orgVars
    <1>2. PlatformInv /\ CountInv /\ [Charges]_orgVars => [Within]_vars
        <2> SUFFICES ASSUME PlatformInv, CountInv, [Charges]_orgVars PROVE Within \/ UNCHANGED vars
            OBVIOUS
        <2>1. CASE Next
            BY <2>1, ChargeWithinLimit
        <2>2. QED
            BY <2>1 DEF Charges, orgVars
    <1>3. QED
        BY <1>1, <1>2, PlatformInit, PlatformInvariant, PTL DEF OrgSpec, LimitIsTheDeployments
-----------------------------------------------------------------------------
(* The quota of one process *)

LEMMA InProcessFacts ==
    /\ Limit \in Nat \ {0} /\ Window \in Nat \ {0} /\ MaxLag \in Nat /\ MaxInstant \in Nat
    BY InProcessAssumption DEF InProcessAssumption

OpenWindows == [started_at : 0..MaxInstant, count : 1..Limit]
OpenCalls   == [org : Tenants, now : 0..MaxInstant]

LEMMA AbsentIsNothing == Absent \notin OpenWindows /\ Absent \notin OpenCalls
    BY InProcessAssumption DEF InProcessAssumption, OpenWindows, OpenCalls

CallInv ==
    /\ instant \in 0..MaxInstant
    /\ windows \in [Tenants -> OpenWindows \cup {Absent}]
    /\ call \in [Calls -> OpenCalls \cup {Absent}]
    /\ charged \in [Tenants -> Seq(0..MaxInstant)]
    /\ \A c \in Calls : call[c] # Absent => call[c].now <= instant /\ instant <= call[c].now + MaxLag

\* The charges s of one tenant are those of windows that opened at the places P:
\* whatever the order late calls come in, each window takes Limit charges at most
\* and opens a window's length, less the lag of one call, after the one before.
Windowed(s, P) ==
    /\ \A i, j \in 1..Len(s) : i <= j => s[i] <= s[j]
    /\ \A i \in 1..Len(s) : i + Limit - 1 <= Len(s) => \E p \in P : i <= p /\ p <= i + Limit - 1
    /\ \A p, q \in P : p < q => s[p] + Window - MaxLag <= s[q]

\* Where the tenant's window stands: its charges are the last ones, and without a
\* window the next may open at once.
Standing(s, P, w, now) ==
    /\ \A i \in 1..Len(s) : s[i] <= now
    /\ w = Absent => \A p \in P : s[p] + Window - MaxLag <= now
    /\ w # Absent =>
          LET first == Len(s) - w.count + 1
          IN  /\ w.count <= Len(s) /\ first \in P /\ \A p \in P : p <= first
              /\ w.started_at <= s[first] /\ s[first] <= w.started_at + MaxLag

WindowsInv ==
    \A o \in Tenants : \E P \in SUBSET (1..Len(charged[o])) :
        Windowed(charged[o], P) /\ Standing(charged[o], P, windows[o], instant)

\* An expired window, or one that a sweep has removed, lets the next one open.
LEMMA ExpiredMayReopen ==
    ASSUME NEW s \in Seq(0..MaxInstant), NEW P \in SUBSET (1..Len(s)),
           NEW w \in OpenWindows, NEW now \in 0..MaxInstant, NEW t \in 0..MaxInstant,
           Windowed(s, P), Standing(s, P, w, t), w # Absent,
           now <= t, now - w.started_at >= Window
    PROVE  Standing(s, P, Absent, t)
    <1> DEFINE first == Len(s) - w.count + 1
    <1>1. /\ Len(s) \in Nat /\ w.count \in 1..Limit /\ w.started_at \in 0..MaxInstant
          /\ \A i \in 1..Len(s) : s[i] \in Int
          /\ Window \in Nat /\ MaxLag \in Nat /\ now \in Int /\ t \in Int
        BY InProcessFacts DEF OpenWindows
    <1>2. /\ first \in P /\ \A p \in P : p <= first
          /\ s[first] <= w.started_at + MaxLag
          /\ \A i \in 1..Len(s) : s[i] <= t
        BY DEF Standing
    <1> HIDE DEF first
    <1>3. ASSUME NEW p \in P PROVE s[p] + Window - MaxLag <= t
        <2>1. p \in 1..Len(s) /\ first \in 1..Len(s) /\ s[p] <= s[first]
            BY <1>2 DEF Windowed
        <2>2. QED
            BY <1>1, <1>2, <2>1
    <1>4. QED
        BY <1>2, <1>3 DEF Standing

\* A charge that opens a window.
LEMMA OpeningCharge ==
    ASSUME NEW s \in Seq(0..MaxInstant), NEW P \in SUBSET (1..Len(s)),
           NEW now \in 0..MaxInstant, NEW t \in 0..MaxInstant,
           Windowed(s, P), Standing(s, P, Absent, t), now <= t, t <= now + MaxLag,
           NEW w \in OpenWindows, w.started_at = now, w.count = 1, w # Absent
    PROVE  LET Q == P \cup {Len(s) + 1}
           IN  /\ Q \in SUBSET (1..Len(Append(s, t)))
               /\ Windowed(Append(s, t), Q)
               /\ Standing(Append(s, t), Q, w, t)
    <1> DEFINE n == Len(s)
               a == Append(s, t)
               Q == P \cup {n + 1}
    <1>1. /\ n \in Nat /\ Len(a) = n + 1 /\ a[n + 1] = t /\ \A i \in 1..n : a[i] = s[i]
          /\ \A i \in 1..n : s[i] \in Int /\ s[i] <= t
          /\ Limit \in Nat \ {0} /\ Window \in Nat /\ MaxLag \in Nat /\ now \in Int /\ t \in Int
        BY InProcessFacts DEF Standing
    <1>2. /\ \A i, j \in 1..n : i <= j => s[i] <= s[j]
          /\ \A i \in 1..n : i + Limit - 1 <= n => \E p \in P : i <= p /\ p <= i + Limit - 1
          /\ \A p, q \in P : p < q => s[p] + Window - MaxLag <= s[q]
          /\ \A p \in P : p \in 1..n /\ s[p] + Window - MaxLag <= t
        BY DEF Windowed, Standing
    <1> HIDE DEF a, n
    <1>3. Q \in SUBSET (1..n + 1)
        BY <1>1, <1>2
    <1>4. \A i, j \in 1..n + 1 : i <= j => a[i] <= a[j]
        <2> TAKE i, j \in 1..n + 1
        <2> HAVE i <= j
        <2>1. CASE j = n + 1
            <3>1. i \in 1..n \/ i = n + 1
                BY <1>1
            <3>2. QED
                BY <1>1, <2>1, <3>1
        <2>2. CASE j # n + 1
            <3>1. i \in 1..n /\ j \in 1..n
                BY <1>1, <2>2
            <3>2. QED
                BY <1>1, <1>2, <3>1
        <2>3. QED
            BY <2>1, <2>2
    <1>5. \A i \in 1..n + 1 : i + Limit - 1 <= n + 1 =>
              \E p \in Q : i <= p /\ p <= i + Limit - 1
        <2> TAKE i \in 1..n + 1
        <2> HAVE i + Limit - 1 <= n + 1
        <2>1. CASE i + Limit - 1 = n + 1
            <3>1. n + 1 \in Q /\ i <= n + 1 /\ n + 1 <= i + Limit - 1
                BY <1>1, <2>1
            <3>2. QED
                BY <3>1
        <2>2. CASE i + Limit - 1 # n + 1
            <3>1. i \in 1..n /\ i + Limit - 1 <= n
                BY <1>1, <2>2
            <3>2. QED
                BY <1>2, <3>1
        <2>3. QED
            BY <2>1, <2>2
    <1>6. \A p, q \in Q : p < q => a[p] + Window - MaxLag <= a[q]
        <2> TAKE p, q \in Q
        <2> HAVE p < q
        <2>1. p \in P /\ p \in 1..n
            BY <1>1, <1>2
        <2>2. CASE q \in P
            BY <1>1, <1>2, <2>1, <2>2
        <2>3. CASE q = n + 1
            BY <1>1, <1>2, <2>1, <2>3
        <2>4. QED
            BY <2>2, <2>3
    <1>7. \A i \in 1..n + 1 : a[i] <= t
        <2> TAKE i \in 1..n + 1
        <2>1. i \in 1..n \/ i = n + 1
            BY <1>1
        <2>2. QED
            BY <1>1, <2>1
    <1>8. (n + 1) - w.count + 1 = n + 1
        BY <1>1
    <1>9. \A p \in Q : p <= n + 1
        BY <1>1, <1>2
    <1>10. Standing(a, Q, w, t)
        BY <1>1, <1>7, <1>8, <1>9 DEF Standing
    <1>11. Windowed(a, Q)
        BY <1>1, <1>4, <1>5, <1>6 DEF Windowed
    <1>12. QED
        BY <1>1, <1>3, <1>10, <1>11 DEF a, n

\* A charge to the window that runs.
LEMMA RunningCharge ==
    ASSUME NEW s \in Seq(0..MaxInstant), NEW P \in SUBSET (1..Len(s)),
           NEW t \in 0..MaxInstant, NEW w \in OpenWindows, w.count < Limit,
           Windowed(s, P), Standing(s, P, w, t)
    PROVE  LET v == [w EXCEPT !.count = @ + 1]
           IN  /\ v \in OpenWindows
               /\ P \in SUBSET (1..Len(Append(s, t)))
               /\ Windowed(Append(s, t), P)
               /\ Standing(Append(s, t), P, v, t)
    <1> DEFINE n == Len(s)
               a == Append(s, t)
               v == [w EXCEPT !.count = @ + 1]
               first == n - w.count + 1
    <1>0. w # Absent /\ w.count \in 1..Limit /\ w.started_at \in Nat /\ Limit \in Nat
        BY AbsentIsNothing, InProcessFacts DEF OpenWindows
    <1>1. /\ n \in Nat /\ Len(a) = n + 1 /\ a[n + 1] = t /\ \A i \in 1..n : a[i] = s[i]
          /\ \A i \in 1..n : s[i] \in Int /\ s[i] <= t
          /\ Limit \in Nat \ {0} /\ Window \in Nat /\ MaxLag \in Nat /\ t \in Int
        BY InProcessFacts DEF Standing
    <1>2. /\ \A i, j \in 1..n : i <= j => s[i] <= s[j]
          /\ \A i \in 1..n : i + Limit - 1 <= n => \E p \in P : i <= p /\ p <= i + Limit - 1
          /\ \A p, q \in P : p < q => s[p] + Window - MaxLag <= s[q]
          /\ w.count <= n /\ first \in P /\ \A p \in P : p <= first
          /\ w.started_at <= s[first] /\ s[first] <= w.started_at + MaxLag
        BY <1>0 DEF Windowed, Standing
    <1>3. /\ v \in OpenWindows /\ v.count = w.count + 1 /\ v.started_at = w.started_at
        BY <1>0 DEF OpenWindows
    <1> HIDE DEF a, n, v
    <1>4. \A i, j \in 1..n + 1 : i <= j => a[i] <= a[j]
        <2> TAKE i, j \in 1..n + 1
        <2> HAVE i <= j
        <2>1. CASE j = n + 1
            <3>1. i \in 1..n \/ i = n + 1
                BY <1>1
            <3>2. QED
                BY <1>1, <2>1, <3>1
        <2>2. CASE j # n + 1
            <3>1. i \in 1..n /\ j \in 1..n
                BY <1>1, <2>2
            <3>2. QED
                BY <1>1, <1>2, <3>1
        <2>3. QED
            BY <2>1, <2>2
    <1>5. \A i \in 1..n + 1 : i + Limit - 1 <= n + 1 =>
              \E p \in P : i <= p /\ p <= i + Limit - 1
        <2> TAKE i \in 1..n + 1
        <2> HAVE i + Limit - 1 <= n + 1
        <2>1. CASE i + Limit - 1 = n + 1
            <3>1. i <= first /\ first <= i + Limit - 1
                BY <1>0, <1>1, <2>1
            <3>2. QED
                BY <1>2, <3>1
        <2>2. CASE i + Limit - 1 # n + 1
            <3>1. i \in 1..n /\ i + Limit - 1 <= n
                BY <1>1, <2>2
            <3>2. QED
                BY <1>2, <3>1
        <2>3. QED
            BY <2>1, <2>2
    <1>6. \A p \in P : p \in 1..n /\ p \in 1..n + 1 /\ a[p] = s[p]
        BY <1>1 DEF n
    <1>7. \A i \in 1..n + 1 : a[i] <= t
        <2> TAKE i \in 1..n + 1
        <2>1. i \in 1..n \/ i = n + 1
            BY <1>1
        <2>2. QED
            BY <1>1, <2>1
    <1>8. (n + 1) - v.count + 1 = first
        BY <1>0, <1>1, <1>3
    <1>9. Standing(a, P, v, t)
        <2>1. v # Absent /\ v.count <= n + 1
            BY <1>0, <1>1, <1>2, <1>3, AbsentIsNothing
        <2> HIDE DEF first
        <2>2. QED
            BY <1>1, <1>2, <1>3, <1>6, <1>7, <1>8, <2>1 DEF Standing
    <1>10. Windowed(a, P)
        BY <1>1, <1>2, <1>4, <1>5, <1>6 DEF Windowed
    <1>11. P \in SUBSET (1..Len(a))
        BY <1>1, <1>6
    <1>12. QED
        BY <1>3, <1>9, <1>10, <1>11 DEF a, v

LEMMA InProcessInit == OpenOrgQuota => CallInv /\ WindowsInv
    <1> SUFFICES ASSUME InProcess!Init PROVE CallInv /\ WindowsInv
        BY DEF OpenOrgQuota
    <1> USE DEF InProcess!Init, InProcess!Times
    <1>1. CallInv
        BY InProcessFacts, AbsentIsNothing DEF CallInv
    <1>2. ASSUME NEW o \in Tenants
          PROVE  \E P \in SUBSET (1..Len(charged[o])) :
                     Windowed(charged[o], P) /\ Standing(charged[o], P, windows[o], instant)
        <2>1. charged[o] = <<>> /\ Len(charged[o]) = 0 /\ windows[o] = Absent
            OBVIOUS
        <2>2. \A i \in 1..0 : FALSE
            OBVIOUS
        <2>3. Windowed(charged[o], {}) /\ Standing(charged[o], {}, windows[o], instant)
            BY <2>1, <2>2 DEF Windowed, Standing
        <2>4. QED
            BY <2>3
    <1>3. QED
        BY <1>1, <1>2 DEF WindowsInv

\* What an admission does to the tenant it is about: a window opens, or the one
\* that runs takes the charge.
LEMMA AdmittedTenant ==
    ASSUME CallInv, WindowsInv, NEW c \in Calls, InProcess!Admit(c)
    PROVE  LET o == call[c].org
           IN  /\ o \in Tenants
               /\ windows'[o] \in OpenWindows
               /\ charged' = [charged EXCEPT ![o] = Append(@, instant)]
               /\ \E P \in SUBSET (1..Len(charged'[o])) :
                      Windowed(charged'[o], P) /\ Standing(charged'[o], P, windows'[o], instant)
    <1> DEFINE o == call[c].org
               now == call[c].now
               w == InProcess!Current(o, now)
               s == charged[o]
    <1>1. /\ call[c] \in OpenCalls /\ o \in Tenants /\ now \in 0..MaxInstant
          /\ now <= instant /\ instant <= now + MaxLag /\ instant \in 0..MaxInstant
        BY DEF InProcess!Admit, CallInv, OpenCalls
    <1>2. /\ w.count < Limit
          /\ windows' = InProcess!Recorded(o, now, [w EXCEPT !.count = @ + 1])
          /\ charged' = [charged EXCEPT ![o] = Append(@, instant)]
        BY DEF InProcess!Admit
    <1>3. /\ s \in Seq(0..MaxInstant) /\ windows[o] \in OpenWindows \cup {Absent}
          /\ charged'[o] = Append(s, instant)
        BY <1>1, <1>2 DEF CallInv
    <1>4. windows'[o] = [w EXCEPT !.count = @ + 1]
        BY <1>1, <1>2 DEF InProcess!Recorded, InProcess!Swept, CallInv
    <1>5. PICK P \in SUBSET (1..Len(s)) : Windowed(s, P) /\ Standing(s, P, windows[o], instant)
        BY <1>1 DEF WindowsInv
    <1> HIDE DEF o, now, s
    <1>6. CASE windows[o] = Absent \/ InProcess!Expired(windows[o], now)
        <2>1. Standing(s, P, Absent, instant)
            <3>1. CASE windows[o] = Absent
                BY <1>5, <3>1
            <3>2. CASE windows[o] # Absent
                <4>1. windows[o] \in OpenWindows /\ now - windows[o].started_at >= Window
                    BY <1>3, <1>6, <3>2 DEF InProcess!Expired
                <4>2. QED
                    BY <1>1, <1>3, <1>5, <3>2, <4>1, ExpiredMayReopen
            <3>3. QED
                BY <3>1, <3>2
        <2>2. w = [started_at |-> now, count |-> 0]
            BY <1>6 DEF InProcess!Current, InProcess!Fresh
        <2> DEFINE v == [started_at |-> now, count |-> 1]
        <2>3. windows'[o] = v
            BY <1>4, <2>2
        <2>4. v \in OpenWindows /\ v.started_at = now /\ v.count = 1 /\ v # Absent
            BY <1>1, InProcessFacts, AbsentIsNothing DEF OpenWindows
        <2> HIDE DEF v
        <2>5. LET Q == P \cup {Len(s) + 1}
              IN  /\ Q \in SUBSET (1..Len(Append(s, instant)))
                  /\ Windowed(Append(s, instant), Q)
                  /\ Standing(Append(s, instant), Q, v, instant)
            BY <1>1, <1>3, <1>5, <2>1, <2>4, OpeningCharge
        <2>6. QED
            BY <1>1, <1>2, <1>3, <2>3, <2>4, <2>5 DEF o
    <1>7. CASE ~(windows[o] = Absent \/ InProcess!Expired(windows[o], now))
        <2>1. w = windows[o] /\ w \in OpenWindows
            BY <1>3, <1>7 DEF InProcess!Current
        <2> HIDE DEF w
        <2>2. LET v == [w EXCEPT !.count = @ + 1]
              IN  /\ v \in OpenWindows
                  /\ P \in SUBSET (1..Len(Append(s, instant)))
                  /\ Windowed(Append(s, instant), P)
                  /\ Standing(Append(s, instant), P, v, instant)
            BY <1>1, <1>2, <1>3, <1>5, <2>1, RunningCharge
        <2>3. QED
            BY <1>1, <1>2, <1>3, <1>4, <2>2 DEF o
    <1>8. QED
        BY <1>6, <1>7

\* And to the others: their windows stay, or an expired one is swept.
LEMMA OtherTenants ==
    ASSUME CallInv, WindowsInv, NEW c \in Calls, InProcess!Admit(c),
           NEW p \in Tenants, p # call[c].org
    PROVE  /\ windows'[p] \in OpenWindows \cup {Absent}
           /\ \E P \in SUBSET (1..Len(charged[p])) :
                  Windowed(charged[p], P) /\ Standing(charged[p], P, windows'[p], instant)
    <1> DEFINE now == call[c].now
    <1>1. /\ now \in 0..MaxInstant /\ now <= instant /\ instant \in 0..MaxInstant
        BY DEF InProcess!Admit, CallInv, OpenCalls
    <1>2. /\ charged[p] \in Seq(0..MaxInstant) /\ windows[p] \in OpenWindows \cup {Absent}
        BY DEF CallInv
    <1>3. \/ windows'[p] = windows[p]
          \/ windows'[p] = Absent /\ windows[p] # Absent /\ InProcess!Expired(windows[p], now)
        BY DEF InProcess!Admit, InProcess!Recorded, InProcess!Swept, CallInv
    <1>4. PICK P \in SUBSET (1..Len(charged[p])) :
              Windowed(charged[p], P) /\ Standing(charged[p], P, windows[p], instant)
        BY DEF WindowsInv
    <1>5. CASE windows'[p] = windows[p]
        BY <1>2, <1>4, <1>5
    <1>6. CASE windows'[p] = Absent /\ windows[p] # Absent /\ InProcess!Expired(windows[p], now)
        <2>1. windows[p] \in OpenWindows /\ now - windows[p].started_at >= Window
            BY <1>2, <1>6 DEF InProcess!Expired
        <2> HIDE DEF now
        <2>2. Standing(charged[p], P, Absent, instant)
            BY <1>1, <1>2, <1>4, <1>6, <2>1, ExpiredMayReopen
        <2>3. QED
            BY <1>4, <1>6, <2>2
    <1>7. QED
        BY <1>3, <1>5, <1>6

LEMMA InProcessStep == CallInv /\ WindowsInv /\ [Charges]_orgVars => CallInv' /\ WindowsInv'
    <1> SUFFICES ASSUME CallInv, WindowsInv, [Charges]_orgVars PROVE CallInv' /\ WindowsInv'
        OBVIOUS
    <1>1. CASE InProcess!Tick
        <2>1. /\ instant < MaxInstant /\ instant' = instant + 1
              /\ \A c \in Calls : call[c] # Absent => instant < call[c].now + MaxLag
              /\ UNCHANGED <<windows, call, charged>>
            BY <1>1 DEF InProcess!Tick
        <2>2. instant \in 0..MaxInstant /\ instant' \in 0..MaxInstant /\ instant <= instant'
            BY <2>1, InProcessFacts DEF CallInv
        <2>3. ASSUME NEW c \in Calls, call[c] # Absent
              PROVE  call[c].now <= instant' /\ instant' <= call[c].now + MaxLag
            <3>1. call[c].now \in 0..MaxInstant /\ call[c].now <= instant
                BY <2>3 DEF CallInv, OpenCalls
            <3>2. QED
                BY <2>1, <2>2, <2>3, <3>1, InProcessFacts
        <2>4. CallInv'
            BY <2>1, <2>2, <2>3 DEF CallInv
        <2>5. ASSUME NEW o \in Tenants, NEW P \in SUBSET (1..Len(charged[o])),
                     Standing(charged[o], P, windows[o], instant)
              PROVE  Standing(charged[o], P, windows[o], instant')
            <3>1. /\ charged[o] \in Seq(0..MaxInstant) /\ Window \in Nat /\ MaxLag \in Nat
                  /\ \A i \in 1..Len(charged[o]) : charged[o][i] \in Nat
                BY InProcessFacts DEF CallInv
            <3>2. \A i \in 1..Len(charged[o]) : charged[o][i] <= instant'
                BY <2>2, <2>5, <3>1 DEF Standing
            <3>3. windows[o] = Absent =>
                      \A p \in P : charged[o][p] + Window - MaxLag <= instant'
                BY <2>2, <2>5, <3>1 DEF Standing
            <3>4. QED
                BY <2>5, <3>2, <3>3 DEF Standing
        <2>6. WindowsInv'
            BY <2>1, <2>5 DEF WindowsInv
        <2>7. QED
            BY <2>4, <2>6
    <1>2. ASSUME NEW c \in Calls, NEW o \in Tenants, InProcess!ReadClock(c, o)
          PROVE  CallInv' /\ WindowsInv'
        <2>1. /\ call' = [call EXCEPT ![c] = [org |-> o, now |-> instant]]
              /\ UNCHANGED <<instant, windows, charged>>
            BY <1>2 DEF InProcess!ReadClock
        <2>2. /\ [org |-> o, now |-> instant] \in OpenCalls
              /\ instant <= instant /\ instant <= instant + MaxLag
            BY InProcessFacts DEF CallInv, OpenCalls
        <2>3. CallInv'
            BY <2>1, <2>2 DEF CallInv
        <2>4. QED
            BY <2>1, <2>3 DEF WindowsInv
    <1>3. ASSUME NEW c \in Calls, InProcess!Admit(c)
          PROVE  CallInv' /\ WindowsInv'
        <2> DEFINE o == call[c].org
        <2>1. /\ call' = [call EXCEPT ![c] = Absent] /\ instant' = instant
              /\ windows' = [p \in Tenants |-> windows'[p]]
            BY <1>3 DEF InProcess!Admit, InProcess!Recorded, InProcess!Swept, CallInv
        <2>2. /\ o \in Tenants /\ windows'[o] \in OpenWindows
              /\ charged' = [charged EXCEPT ![o] = Append(@, instant)]
              /\ \E P \in SUBSET (1..Len(charged'[o])) :
                     Windowed(charged'[o], P) /\ Standing(charged'[o], P, windows'[o], instant)
            BY <1>3, AdmittedTenant
        <2>3. ASSUME NEW p \in Tenants, p # o
              PROVE  /\ windows'[p] \in OpenWindows \cup {Absent}
                     /\ charged'[p] = charged[p]
                     /\ \E P \in SUBSET (1..Len(charged'[p])) :
                            Windowed(charged'[p], P) /\ Standing(charged'[p], P, windows'[p], instant)
            <3>1. charged'[p] = charged[p]
                BY <2>2, <2>3 DEF CallInv
            <3>2. QED
                BY <1>3, <2>3, <3>1, OtherTenants
        <2> HIDE DEF o
        <2>4. Append(charged[o], instant) \in Seq(0..MaxInstant)
            BY <2>2 DEF CallInv
        <2>5. charged' \in [Tenants -> Seq(0..MaxInstant)]
            BY <2>2, <2>4 DEF CallInv
        <2>6. windows' \in [Tenants -> OpenWindows \cup {Absent}]
            BY <2>1, <2>2, <2>3
        <2>7. CallInv'
            BY <2>1, <2>5, <2>6 DEF CallInv
        <2>8. WindowsInv'
            BY <2>1, <2>2, <2>3 DEF WindowsInv
        <2>9. QED
            BY <2>7, <2>8
    <1>4. ASSUME NEW c \in Calls, InProcess!Refuse(c)
          PROVE  CallInv' /\ WindowsInv'
        BY <1>4 DEF InProcess!Refuse, CallInv, WindowsInv
    <1>5. CASE UNCHANGED inProcessVars
        BY <1>5 DEF inProcessVars, CallInv, WindowsInv
    <1>6. QED
        BY <1>1, <1>2, <1>3, <1>4, <1>5 DEF Charges, orgVars, InProcess!Next

LEMMA InProcessInvariant == OrgSpec => [](CallInv /\ WindowsInv)
    BY InProcessInit, InProcessStep, PTL DEF OrgSpec

\* A set of natural numbers has a least one.
LEMMA LeastOf ==
    ASSUME NEW T \in SUBSET Nat, T # {}
    PROVE  \E a \in T : \A i \in T : a <= i
    <1>1. PICK a \in T : \A i \in T : ~ (<<i, a>> \in OpToRel(<, Nat))
        BY NatLessThanWellFounded, WFMin, Zenon
    <1>2. \A i \in T : i \in Nat /\ a \in Nat /\ ~ (i < a)
        BY <1>1 DEF OpToRel
    <1>3. QED
        BY <1>2

LEMMA ChargesCounted ==
    ASSUME NEW o, NEW first, NEW last
    PROVE  InProcess!ChargedIn(o, first, last)
               = Cardinality({i \in DOMAIN charged[o] :
                                  first <= charged[o][i] /\ charged[o][i] <= last})
    BY Zenon DEF InProcess!ChargedIn, InProcess!Cardinality, Cardinality

\* Charges within a span shorter than a window less the lag are those of one
\* window, and of the tail of the one before it at most.
LEMMA SpansAreShort ==
    ASSUME NEW s \in Seq(0..MaxInstant), NEW P \in SUBSET (1..Len(s)), Windowed(s, P),
           NEW t \in Nat, NEW i \in 1..Len(s), NEW j \in 1..Len(s),
           t <= s[i], s[j] <= t + Window - MaxLag - 1
    PROVE  j < i + 2 * Limit - 1
    <1> SUFFICES ASSUME i + 2 * Limit - 1 <= j PROVE FALSE
        BY InProcessFacts
    <1>1. /\ Len(s) \in Nat /\ i \in Nat /\ j \in Nat /\ j <= Len(s) /\ 1 <= i
          /\ Limit \in Nat /\ 1 <= Limit /\ Window \in Nat /\ MaxLag \in Nat
          /\ \A k \in 1..Len(s) : s[k] \in Nat
        BY InProcessFacts
    <1>2. PICK p \in P : i <= p /\ p <= i + Limit - 1
        BY <1>1 DEF Windowed
    <1>3. i + Limit \in 1..Len(s) /\ (i + Limit) + Limit - 1 <= Len(s)
        BY <1>1
    <1>4. PICK q \in P : i + Limit <= q /\ q <= (i + Limit) + Limit - 1
        BY <1>3 DEF Windowed
    <1>5. /\ p \in 1..Len(s) /\ q \in 1..Len(s) /\ p < q /\ q <= j
        BY <1>1, <1>2, <1>4
    <1>6. s[i] <= s[p] /\ s[q] <= s[j] /\ s[p] + Window - MaxLag <= s[q]
        BY <1>2, <1>5 DEF Windowed
    <1>7. s[i] \in Nat /\ s[j] \in Nat /\ s[p] \in Nat /\ s[q] \in Nat
        BY <1>1, <1>5
    <1>8. QED
        BY <1>1, <1>6, <1>7

\* Whatever calls race and whatever a sweep removes, no tenant makes twice its
\* limit of requests in a span shorter than a window, less the time a call may wait
\* for the lock (lib.rs:946-947).
THEOREM BurstHolds == OrgSpec => []BurstIsBounded
    <1>1. CallInv /\ WindowsInv => BurstIsBounded
        <2> SUFFICES ASSUME CallInv, WindowsInv, NEW o \in Tenants, NEW t \in 0..MaxInstant
                     PROVE  InProcess!ChargedIn(o, t, t + Window - MaxLag - 1) < 2 * Limit
            BY DEF BurstIsBounded, InProcess!BurstIsBounded, InProcess!Times
        <2> DEFINE s == charged[o]
                   last == t + Window - MaxLag - 1
                   T == {i \in DOMAIN s : t <= s[i] /\ s[i] <= last}
        <2>1. s \in Seq(0..MaxInstant) /\ DOMAIN s = 1..Len(s) /\ Len(s) \in Nat
            BY DEF CallInv
        <2>2. PICK P \in SUBSET (1..Len(s)) : Windowed(s, P)
            BY DEF WindowsInv
        <2>3. Limit \in Nat /\ 1 <= Limit
            BY InProcessFacts
        <2>4. InProcess!ChargedIn(o, t, last) = Cardinality(T)
            BY ChargesCounted
        <2>5. T \in SUBSET (1..Len(s)) /\ T \in SUBSET Nat
            BY <2>1
        <2>6. \A i, j \in T : j < i + 2 * Limit - 1
            BY <2>1, <2>2, SpansAreShort
        <2> HIDE DEF T, last
        <2>7. CASE T = {}
            BY <2>3, <2>4, <2>7, FS_EmptySet DEF last
        <2>8. CASE T # {}
            <3>1. PICK a \in T : \A i \in T : a <= i
                BY <2>5, <2>8, LeastOf
            <3>2. T \in SUBSET (a .. a + 2 * Limit - 2) /\ a \in Int
                BY <2>3, <2>5, <2>6, <3>1
            <3>3. /\ IsFiniteSet(a .. a + 2 * Limit - 2)
                  /\ Cardinality(a .. a + 2 * Limit - 2) = 2 * Limit - 1
                BY <2>3, <3>2, FS_Interval
            <3>4. Cardinality(T) <= 2 * Limit - 1 /\ Cardinality(T) \in Nat
                <4>1. IsFiniteSet(T)
                      /\ Cardinality(T) <= Cardinality(a .. a + 2 * Limit - 2)
                    BY <3>2, <3>3, FS_Subset
                <4>2. QED
                    BY <3>3, <4>1, FS_CardinalityType
            <3>5. QED
                BY <2>3, <2>4, <3>4 DEF last
        <2>9. QED
            BY <2>7, <2>8
    <1>2. QED
        BY <1>1, InProcessInvariant, PTL

\* A full window holds its last Limit charges, the first no older than its start.
LEMMA FullWindow ==
    ASSUME NEW s \in Seq(0..MaxInstant), NEW P \in SUBSET (1..Len(s)), Windowed(s, P),
           NEW w \in OpenWindows, NEW t \in 0..MaxInstant, Standing(s, P, w, t),
           w.count >= Limit, NEW since \in Int, since <= w.started_at
    PROVE  Cardinality({i \in DOMAIN s : since <= s[i] /\ s[i] <= t}) >= Limit
    <1> DEFINE n == Len(s)
               T == {i \in DOMAIN s : since <= s[i] /\ s[i] <= t}
               first == n - Limit + 1
    <1>1. /\ n \in Nat /\ DOMAIN s = 1..n /\ \A i \in 1..n : s[i] \in Nat /\ s[i] <= t
          /\ Limit \in Nat /\ 1 <= Limit
        BY InProcessFacts DEF Standing
    <1>2. /\ w # Absent /\ w.count = Limit /\ w.started_at \in Nat
        BY <1>1, AbsentIsNothing DEF OpenWindows
    <1>3. /\ Limit <= n /\ first \in P /\ w.started_at <= s[first]
        BY <1>2 DEF Standing
    <1>4. ASSUME NEW i \in first..n PROVE i \in T
        <2>1. i \in 1..n /\ first \in 1..n /\ first <= i
            BY <1>1, <1>3
        <2>2. s[first] <= s[i]
            BY <2>1 DEF Windowed
        <2>3. since <= s[i] /\ s[i] <= t
            BY <1>1, <1>2, <1>3, <2>1, <2>2
        <2>4. QED
            BY <1>1, <2>1, <2>3
    <1>5. IsFiniteSet(T)
        <2>1. IsFiniteSet(1..n) /\ T \in SUBSET (1..n)
            BY <1>1, FS_Interval
        <2>2. QED
            BY <2>1, FS_Subset
    <1> HIDE DEF T
    <1>6. IsFiniteSet(first..n) /\ Cardinality(first..n) = Limit
        BY <1>1, <1>3, FS_Interval
    <1>7. Cardinality(first..n) <= Cardinality(T)
        <2>1. (first..n) \in SUBSET T
            BY <1>4
        <2>2. QED
            BY <1>5, <2>1, FS_Subset
    <1>8. QED
        BY <1>1, <1>5, <1>6, <1>7, FS_CardinalityType DEF T

\* A call is refused only where the tenant itself has made its limit of requests in
\* the time a window lasts: neither another tenant nor a window that has passed
\* refuses it (lib.rs:976-985).
THEOREM RefusalHolds == OrgSpec => RefusalIsEarned
    <1> DEFINE Earned ==
            \A c \in Calls : call[c] # Absent /\ call'[c] = Absent /\ charged' = charged =>
                InProcess!ChargedIn(call[c].org, instant - Window - MaxLag + 1, instant) >= Limit
    <1>1. CallInv /\ WindowsInv /\ [Charges]_orgVars => [Earned]_inProcessVars
        <2> SUFFICES ASSUME CallInv, WindowsInv, [Charges]_orgVars, NEW c \in Calls,
                            call[c] # Absent, call'[c] = Absent, charged' = charged
                     PROVE  InProcess!ChargedIn(call[c].org, instant - Window - MaxLag + 1, instant)
                                >= Limit
            OBVIOUS
        <2>1. InProcess!Refuse(c)
            <3>1. CASE UNCHANGED inProcessVars
                BY <3>1 DEF inProcessVars
            <3>2. CASE InProcess!Tick
                BY <3>2 DEF InProcess!Tick
            <3>3. ASSUME NEW d \in Calls, NEW o \in Tenants, InProcess!ReadClock(d, o) PROVE FALSE
                BY <3>3 DEF InProcess!ReadClock, CallInv
            <3>4. ASSUME NEW d \in Calls, InProcess!Admit(d) PROVE FALSE
                <4> DEFINE o == call[d].org
                <4>1. o \in Tenants /\ charged'[o] = Append(charged[o], instant)
                    BY <3>4 DEF InProcess!Admit, CallInv, OpenCalls
                <4>2. charged[o] \in Seq(0..MaxInstant)
                    BY <4>1 DEF CallInv
                <4> HIDE DEF o
                <4>3. Len(Append(charged[o], instant)) = Len(charged[o]) + 1
                      /\ Len(charged[o]) \in Nat
                    BY <4>2 DEF CallInv
                <4>4. QED
                    BY <4>1, <4>3
            <3>5. ASSUME NEW d \in Calls, InProcess!Refuse(d) PROVE d = c
                BY <3>5 DEF InProcess!Refuse, CallInv
            <3>6. QED
                BY <3>1, <3>2, <3>3, <3>4, <3>5 DEF Charges, orgVars, InProcess!Next
        <2> DEFINE o == call[c].org
                   now == call[c].now
                   since == instant - Window - MaxLag + 1
        <2>2. /\ call[c] \in OpenCalls /\ o \in Tenants /\ now \in 0..MaxInstant
              /\ instant <= now + MaxLag /\ instant \in 0..MaxInstant
            BY DEF CallInv, OpenCalls
        <2>3. InProcess!Current(o, now).count >= Limit /\ Limit \in Nat /\ 1 <= Limit
            BY <2>1, InProcessFacts DEF InProcess!Refuse
        <2>4. /\ windows[o] # Absent /\ ~ InProcess!Expired(windows[o], now)
              /\ windows[o].count >= Limit
            BY <2>3 DEF InProcess!Current, InProcess!Fresh
        <2>5. /\ charged[o] \in Seq(0..MaxInstant) /\ windows[o] \in OpenWindows
              /\ windows[o].started_at \in 0..MaxInstant
            BY <2>2, <2>4 DEF CallInv, OpenWindows
        <2>6. since \in Int /\ since <= windows[o].started_at
            BY <2>2, <2>4, <2>5, InProcessFacts DEF InProcess!Expired
        <2>7. PICK P \in SUBSET (1..Len(charged[o])) :
                  Windowed(charged[o], P) /\ Standing(charged[o], P, windows[o], instant)
            BY <2>2 DEF WindowsInv
        <2> HIDE DEF o, now, since
        <2>8. Cardinality({i \in DOMAIN charged[o] :
                               since <= charged[o][i] /\ charged[o][i] <= instant}) >= Limit
            BY <2>2, <2>4, <2>5, <2>6, <2>7, FullWindow
        <2>9. QED
            BY <2>8, ChargesCounted DEF o, since
    <1>2. QED
        BY <1>1, InProcessInvariant, PTL
           DEF OrgSpec, RefusalIsEarned, InProcess!RefusalIsEarned, InProcess!vars, inProcessVars
=============================================================================
