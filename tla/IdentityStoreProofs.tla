------------------------ MODULE IdentityStoreProofs -------------------------
(***************************************************************************)
(* What SqliteIdentityStore guarantees for any processes, principals,      *)
(* organizations, secrets and lifetimes: it implements TokenWorth, and no  *)
(* rotation buys more than was held.                                       *)
(***************************************************************************)
EXTENDS IdentityStore, TLAPS

LastInstant == MaxClock + MaxSpan

Places == {"closed", "checked", "deciding", "upgrading", "refused", "open"}

ShortCalls == [at : Places]
IssuingCalls == [at : {"issuing"}, who : Principals, org : Organizations, until : Instants]
RotatingCalls ==
    [at : {"rotating", "reissued"}, token : Tokens, preserved : BOOLEAN, until : Instants]

Calls == ShortCalls \cup IssuingCalls \cup RotatingCalls

StoreTypes ==
    /\ clock \in 0..MaxClock
    /\ schema \in Schemas
    /\ users \subseteq Principals /\ organizations \subseteq Organizations
    /\ members \subseteq Organizations \X Principals
    /\ tokens \in [Tokens -> Rows \cup {NoRow}]
    /\ minted \subseteq Tokens
    /\ lock \in Procs \cup {NoOne}

CallTypes == proc \in [Procs -> Calls]

\* A call that holds the write lock is the only one that does, and a store that
\* is open has the current schema, whoever upgraded it.
LockInv ==
    \A c \in Procs :
        /\ proc[c].at \in {"upgrading", "issuing", "rotating", "reissued"} => lock = c
        /\ proc[c].at \in {"open", "issuing", "rotating", "reissued"} => schema.tables = "v3"

\* A file without tables holds nothing.
EmptyInv == schema.tables = "none" =>
    users = {} /\ members = {} /\ \A t \in Tokens : tokens[t] = NoRow

Lasts(until, from) == until # Never => until <= from + MaxSpan

\* Every row is of a secret that was drawn, lasts no longer than a lifetime from
\* its creation, and is scoped to a membership that is there.
RowInv ==
    \A t \in Tokens : tokens[t] # NoRow =>
        /\ t \in minted
        /\ tokens[t].created <= clock /\ Lasts(tokens[t].until, tokens[t].created)
        /\ Current => <<tokens[t].org, tokens[t].who>> \in members

\* What a call has read still holds, and the instant it will write is no further
\* away than it may be.
CallHolds(k) ==
    /\ k.at = "issuing" => <<k.org, k.who>> \in members /\ Lasts(k.until, clock)
    /\ k.at \in {"rotating", "reissued"} =>
           LET old == tokens[k.token]
           IN  /\ Found(k.token) /\ Lasts(k.until, clock)
               /\ old.until # Never => old.created < old.until
               /\ k.at = "reissued" /\ k.preserved =>
                      IF old.until = Never THEN k.until = Never
                      ELSE k.until # Never /\ k.until <= clock + old.until - old.created

CallInv == \A c \in Procs : CallHolds(proc[c])

StoreInv == StoreTypes /\ CallTypes /\ LockInv /\ EmptyInv /\ RowInv /\ CallInv

LEMMA IdentityFacts ==
    /\ MaxClock \in Nat /\ MaxSpan \in Nat /\ LastInstant \in Nat
    /\ NoOne \notin Procs /\ NoRow \notin Rows /\ Never \notin 0..LastInstant
    /\ Instants = (0..LastInstant) \cup {Never}
    BY IdentityAssumption DEF IdentityAssumption, LastInstant, Instants

\* What each place of a call says of its arguments.
LEMMA CallShapes ==
    ASSUME NEW k \in Calls
    PROVE  /\ k.at \in Places \cup {"issuing", "rotating", "reissued"}
           /\ k.at = "issuing" => /\ k \in IssuingCalls /\ k.who \in Principals
                                  /\ k.org \in Organizations /\ k.until \in Instants
           /\ k.at \in {"rotating", "reissued"} =>
                  /\ k \in RotatingCalls /\ k.token \in Tokens
                  /\ k.preserved \in BOOLEAN /\ k.until \in Instants
    BY DEF Calls, ShortCalls, IssuingCalls, RotatingCalls, Places

LEMMA RowShapes ==
    ASSUME StoreTypes, NEW t \in Tokens, tokens[t] # NoRow
    PROVE  /\ tokens[t] \in Rows /\ tokens[t].who \in Principals
           /\ tokens[t].org \in Organizations \cup {NoOrg}
           /\ tokens[t].created \in 0..MaxClock /\ tokens[t].until \in Instants
           /\ tokens[t].credential \in Tokens
           /\ tokens[t].until # Never => tokens[t].until \in 0..LastInstant
    BY IdentityFacts DEF StoreTypes, Rows

LEMMA StoreInit == Init => StoreInv
    <1> SUFFICES ASSUME Init PROVE StoreInv
        OBVIOUS
    <1>1. /\ clock = 0 /\ schema \in Schemas /\ lock = NoOne
          /\ proc = [c \in Procs |-> Idle]
        BY DEF Init
    <1> DEFINE scoped == schema.tables = "v2"
               Row(p, t) == [who |-> p, org |-> IF scoped THEN p ELSE NoOrg, created |-> 0,
                             until |-> Never, credential |-> t]
    <1>2. PICK left \in Left(schema), p \in Principals, t \in Tokens :
              /\ users = IF left # "nothing" /\ left # "orphan" THEN {p} ELSE {}
              /\ organizations = IF scoped THEN users ELSE {}
              /\ members = {<<q, q>> : q \in organizations}
              /\ left = "orphan" => schema.tables = "legacy"
              /\ tokens = [u \in Tokens |-> IF u = t /\ left \in {"token", "orphan"}
                                            THEN Row(p, t) ELSE NoRow]
              /\ minted = IF left \in {"token", "orphan"} THEN {t} ELSE {}
        BY DEF Init
    <1>3. Row(p, t) \in Rows
        BY IdentityFacts DEF Rows, Organizations
    <1>4. StoreTypes
        <2>1. users \subseteq Principals /\ organizations \subseteq Organizations
            BY <1>2 DEF Organizations
        <2>2. members \subseteq Organizations \X Principals
            BY <1>2, <2>1
        <2> HIDE DEF Row
        <2>3. tokens \in [Tokens -> Rows \cup {NoRow}] /\ minted \subseteq Tokens
            BY <1>2, <1>3
        <2>4. QED
            BY <1>1, <2>1, <2>2, <2>3, IdentityFacts DEF StoreTypes
    <1>5. CallTypes
        BY <1>1 DEF CallTypes, Calls, ShortCalls, Places, Idle
    <1>6. LockInv /\ CallInv
        BY <1>1 DEF LockInv, CallInv, CallHolds, Idle
    <1>7. schema.tables \notin {"legacy", "v2", "strange"} => left = "nothing"
        BY DEF Left
    <1>8. EmptyInv
        BY <1>2, <1>7 DEF EmptyInv
    <1>9. ASSUME NEW u \in Tokens, tokens[u] # NoRow
          PROVE  /\ u \in minted /\ tokens[u].created <= clock
                 /\ Lasts(tokens[u].until, tokens[u].created)
                 /\ Current => <<tokens[u].org, tokens[u].who>> \in members
        <2>1. u = t /\ left \in {"token", "orphan"} /\ tokens[u] = Row(p, t) /\ u \in minted
            BY <1>2, <1>9
        <2>2. tokens[u].created = 0 /\ tokens[u].until = Never /\ tokens[u].who = p
            BY <2>1
        <2>3. ASSUME Current PROVE <<tokens[u].org, tokens[u].who>> \in members
            <3>1. schema.tables = "v2" /\ left = "token"
                BY <1>2, <1>7, <2>1, <2>3 DEF Current
            <3>2. organizations = {p} /\ tokens[u].org = p
                BY <1>2, <2>1, <3>1
            <3>3. QED
                BY <1>2, <2>2, <3>2
        <2>4. QED
            BY <1>1, <2>1, <2>2, <2>3 DEF Lasts
    <1>10. RowInv
        BY <1>9 DEF RowInv
    <1>11. QED
        BY <1>4, <1>5, <1>6, <1>8, <1>10 DEF StoreInv
-----------------------------------------------------------------------------
(* Steps *)

\* Calls that are not under the lock have read nothing that must hold.
LEMMA ShortHolds ==
    ASSUME NEW k, k.at \notin {"issuing", "rotating", "reissued"} PROVE CallHolds(k)
    BY DEF CallHolds

LEMMA UnlockedIsShort ==
    ASSUME LockInv, CallTypes, NEW c \in Procs, lock # c
    PROVE  proc[c] \in Calls /\ proc[c].at \in Places \ {"upgrading"}
    BY CallShapes DEF LockInv, CallTypes, Places

\* A call goes on, and the store stays.
LEMMA CallMoves ==
    ASSUME StoreInv, NEW c \in Procs, NEW k \in Calls,
           UNCHANGED <<clock, schemaVars, tokens, minted>>,
           proc' = [proc EXCEPT ![c] = k],
           lock' \in Procs \cup {NoOne}, \A d \in Procs : d # c /\ lock = d => lock' = d,
           k.at \in {"upgrading", "issuing", "rotating", "reissued"} => lock' = c,
           k.at \in {"open", "issuing", "rotating", "reissued"} => schema.tables = "v3",
           CallHolds(k)
    PROVE  StoreInv'
    <1>1. UNCHANGED <<clock, schema, users, organizations, members, tokens, minted>>
        BY DEF schemaVars
    <1>2. /\ proc \in [Procs -> Calls]
          /\ proc'[c] = k /\ \A d \in Procs : d # c => proc'[d] = proc[d]
        BY DEF StoreInv, CallTypes
    <1>3. StoreTypes' /\ EmptyInv' /\ RowInv'
        BY <1>1 DEF StoreInv, StoreTypes, EmptyInv, RowInv, Current
    <1>4. CallTypes'
        BY <1>2 DEF CallTypes
    <1>5. LockInv'
        <2> SUFFICES ASSUME NEW d \in Procs
                     PROVE  /\ proc'[d].at \in {"upgrading", "issuing", "rotating", "reissued"} =>
                                   lock' = d
                            /\ proc'[d].at \in {"open", "issuing", "rotating", "reissued"} =>
                                   schema'.tables = "v3"
            BY DEF LockInv
        <2>1. CASE d = c
            BY <1>1, <1>2, <2>1
        <2>2. CASE d # c
            BY <1>1, <1>2, <2>2 DEF StoreInv, LockInv
        <2>3. QED
            BY <2>1, <2>2
    <1>6. CallInv'
        <2> SUFFICES ASSUME NEW d \in Procs PROVE CallHolds(proc[d])'
            BY DEF CallInv
        <2>1. CallHolds(proc'[d])
            BY <1>2 DEF StoreInv, CallInv
        <2>2. QED
            BY <1>1, <2>1 DEF CallHolds, Found
    <1>7. QED
        BY <1>3, <1>4, <1>5, <1>6 DEF StoreInv

\* A call that goes to a place where it has read nothing yet.
LEMMA CallGoes ==
    ASSUME StoreInv, NEW c \in Procs, NEW place \in Places, Goto(c, place),
           UNCHANGED <<clock, schemaVars, tokens, minted>>,
           lock' \in Procs \cup {NoOne}, \A d \in Procs : d # c /\ lock = d => lock' = d,
           place = "upgrading" => lock' = c,
           place = "open" => schema.tables = "v3"
    PROVE  StoreInv'
    <1> DEFINE k == [at |-> place]
    <1>1. k \in Calls /\ k.at = place
        BY DEF Calls, ShortCalls
    <1>2. proc' = [proc EXCEPT ![c] = k]
        BY DEF Goto
    <1> HIDE DEF k
    <1>3. CallHolds(k)
        BY <1>1, ShortHolds DEF Places
    <1>4. QED
        BY <1>1, <1>2, <1>3, CallMoves DEF Places

LEMMA OpeningStep ==
    ASSUME StoreInv, NEW c \in Procs,
           EnsureSupported(c) \/ InitializeSchema(c) \/ BeginUpgrade(c) \/ UpgradeRefused(c)
               \/ Exit(c)
    PROVE  StoreInv'
    <1>1. lock \in Procs \cup {NoOne} /\ NoOne \notin Procs
        BY IdentityFacts DEF StoreInv, StoreTypes
    <1>2. CASE EnsureSupported(c)
        <2>1. PICK place \in {"refused", "checked"} : Goto(c, place)
            BY <1>2 DEF EnsureSupported
        <2>2. UNCHANGED <<clock, schemaVars, tokens, minted, lock>>
            BY <1>2 DEF EnsureSupported
        <2>3. QED
            BY <1>1, <2>1, <2>2, CallGoes DEF Places
    <1>3. CASE InitializeSchema(c)
        <2>1. PICK place \in {"deciding", "open", "refused"} :
                  Goto(c, place) /\ (place = "open" => schema.tables = "v3")
            <3>1. CASE schema.version # IDENTITY_SCHEMA_VERSION
                BY <1>3, <3>1 DEF InitializeSchema
            <3>2. CASE schema.version = IDENTITY_SCHEMA_VERSION /\ schema.tables = "v3"
                BY <1>3, <3>2 DEF InitializeSchema
            <3>3. CASE schema.version = IDENTITY_SCHEMA_VERSION /\ schema.tables # "v3"
                BY <1>3, <3>3 DEF InitializeSchema
            <3>4. QED
                BY <3>1, <3>2, <3>3
        <2>2. UNCHANGED <<clock, schemaVars, tokens, minted, lock>>
            BY <1>3 DEF InitializeSchema
        <2>3. QED
            BY <1>1, <2>1, <2>2, CallGoes DEF Places
    <1>4. CASE BeginUpgrade(c)
        BY <1>1, <1>4, CallGoes DEF BeginUpgrade, Places
    <1>5. CASE UpgradeRefused(c)
        <2>1. lock = c
            BY <1>5 DEF UpgradeRefused, At, StoreInv, LockInv
        <2>2. QED
            BY <1>1, <1>5, <2>1, CallGoes DEF UpgradeRefused, Places
    <1>6. CASE Exit(c)
        BY <1>1, <1>6, CallGoes DEF Exit, Places
    <1>7. QED
        BY <1>2, <1>3, <1>4, <1>5, <1>6

\* The chain of migrations, whatever the file was.
LEMMA UpgradeStep ==
    ASSUME StoreInv, NEW c \in Procs, Upgrade(c) PROVE StoreInv'
    <1>1. /\ proc[c].at = "upgrading" /\ lock = c /\ lock' = NoOne
          /\ schema' = [version |-> 3, tables |-> "v3"] /\ schema'.tables = "v3"
          /\ proc' = [proc EXCEPT ![c] = [at |-> "open"]]
          /\ UNCHANGED <<clock, users, minted>>
        BY DEF Upgrade, At, Goto, StoreInv, LockInv, IDENTITY_SCHEMA_VERSION
    <1>2. /\ proc \in [Procs -> Calls] /\ [at |-> "open"] \in Calls
          /\ proc'[c] = [at |-> "open"] /\ \A d \in Procs : d # c => proc'[d] = proc[d]
        BY <1>1 DEF StoreInv, CallTypes, Calls, ShortCalls, Places
    <1>3. \A d \in Procs : proc'[d].at \in Places \ {"upgrading"}
        <2> TAKE d \in Procs
        <2>1. CASE d = c
            BY <1>2, <2>1 DEF Places
        <2>2. CASE d # c
            BY <1>1, <1>2, <2>2, UnlockedIsShort DEF StoreInv
        <2>3. QED
            BY <2>1, <2>2
    <1>4. \/ schema.tables = "legacy" /\ MigrateV1toV2
          \/ schema.tables = "v2" /\ UNCHANGED <<organizations, members, tokens>>
          \/ schema.tables \in {"none", "v3"} /\ UNCHANGED <<organizations, members, tokens>>
        <2>1. CASE schema.tables = "legacy"
            BY <2>1 DEF Upgrade
        <2>2. CASE schema.tables = "v2"
            BY <2>2 DEF Upgrade, MigrateV2toV3
        <2>3. CASE schema.tables \notin {"legacy", "v2"}
            BY <2>3 DEF Upgrade
        <2>4. QED
            BY <2>1, <2>2, <2>3
    <1>5. /\ organizations' \subseteq Organizations
          /\ members' \subseteq Organizations \X Principals
          /\ tokens' \in [Tokens -> Rows \cup {NoRow}]
          /\ \A t \in Tokens : tokens'[t] # NoRow =>
                 /\ tokens[t] # NoRow /\ tokens'[t].created = tokens[t].created
                 /\ tokens'[t].until = tokens[t].until
                 /\ <<tokens'[t].org, tokens'[t].who>> \in members'
        <2>1. CASE UNCHANGED <<organizations, members, tokens>>
                   /\ schema.tables \in {"none", "v2", "v3"}
            BY <2>1 DEF StoreInv, StoreTypes, EmptyInv, RowInv, Current
        <2>2. CASE schema.tables = "legacy" /\ MigrateV1toV2
            <3>1. /\ organizations' = users /\ members' = {<<p, p>> : p \in users}
                  /\ \A t \in Tokens : tokens[t] # NoRow => tokens[t].who \in users
                  /\ tokens' = [t \in Tokens |-> IF tokens[t] = NoRow THEN NoRow
                                                 ELSE [tokens[t] EXCEPT !.org = tokens[t].who]]
                BY <2>2 DEF MigrateV1toV2, Orphaned
            <3>2. users \subseteq Principals /\ Principals \subseteq Organizations
                BY DEF StoreInv, StoreTypes, Organizations
            <3>3. ASSUME NEW t \in Tokens, tokens[t] # NoRow
                  PROVE  /\ tokens'[t] \in Rows /\ tokens'[t].org = tokens[t].who
                         /\ tokens'[t].who = tokens[t].who
                         /\ tokens'[t].created = tokens[t].created
                         /\ tokens'[t].until = tokens[t].until
                <4>1. tokens[t] \in Rows /\ tokens[t].who \in Organizations
                    BY <3>2, <3>3, RowShapes DEF StoreInv
                <4>2. tokens'[t] = [tokens[t] EXCEPT !.org = tokens[t].who]
                    BY <3>1, <3>3
                <4>3. QED
                    BY <4>1, <4>2 DEF Rows
            <3>4. tokens' \in [Tokens -> Rows \cup {NoRow}]
                <4>1. \A t \in Tokens : tokens'[t] \in Rows \cup {NoRow}
                    BY <3>1, <3>3
                <4>2. tokens' = [t \in Tokens |-> tokens'[t]]
                    BY <3>1
                <4>3. QED
                    BY <4>1, <4>2
            <3>5. \A t \in Tokens : tokens[t] = NoRow => tokens'[t] = NoRow
                BY <3>1
            <3>6. \A t \in Tokens : tokens[t] # NoRow =>
                      <<tokens'[t].org, tokens'[t].who>> \in members'
                BY <3>1, <3>3
            <3>7. organizations' \subseteq Organizations
                BY <3>1, <3>2
            <3>8. members' \subseteq Organizations \X Principals
                BY <3>1, <3>2
            <3>9. QED
                BY <3>3, <3>4, <3>5, <3>6, <3>7, <3>8
        <2>3. QED
            BY <1>4, <2>1, <2>2
    <1>6. StoreTypes'
        BY <1>1, <1>5 DEF StoreInv, StoreTypes, Schemas
    <1>7. CallTypes'
        BY <1>1, <1>2 DEF CallTypes
    <1>8. LockInv' /\ EmptyInv'
        BY <1>1, <1>3 DEF LockInv, EmptyInv, Places
    <1>9. RowInv'
        BY <1>1, <1>5 DEF StoreInv, RowInv, Lasts
    <1>10. CallInv'
        BY <1>3 DEF CallInv, CallHolds, Places
    <1>11. QED
        BY <1>6, <1>7, <1>8, <1>9, <1>10 DEF StoreInv

\* A write that is a transaction of its own finds every other call short.
LEMMA WriteStep ==
    ASSUME StoreInv, NEW c \in Procs, Writes(c), UNCHANGED <<schema, lock, proc, clock>>,
           StoreTypes', RowInv'
    PROVE  StoreInv'
    <1>1. lock = NoOne /\ NoOne \notin Procs /\ schema.tables = "v3"
        BY IdentityFacts DEF Writes, At, StoreInv, LockInv
    <1>2. \A d \in Procs : proc'[d].at \in Places \ {"upgrading"}
        BY <1>1, UnlockedIsShort DEF StoreInv
    <1>3. CallTypes' /\ LockInv' /\ EmptyInv'
        BY <1>1 DEF StoreInv, CallTypes, LockInv, EmptyInv
    <1>4. CallInv'
        BY <1>2 DEF CallInv, CallHolds, Places
    <1>5. QED
        BY <1>3, <1>4 DEF StoreInv

LEMMA DirectoryStep ==
    ASSUME StoreInv, NEW c \in Procs, Directory(c) PROVE StoreInv'
    <1>1. schema.tables = "v3" /\ Writes(c) /\ UNCHANGED <<clock, schema, minted, lock, proc>>
        BY DEF Directory, CreateUser, CreateOrganization, CreateUserInOrganization,
               AddPrincipalToOrganization, RemovePrincipalFromOrganization, Writes, At,
               StoreInv, LockInv
    <1>2. /\ StoreTypes /\ Current /\ Current'
          /\ \A t \in Tokens : tokens[t] # NoRow =>
                 /\ t \in minted /\ tokens[t].created <= clock
                 /\ Lasts(tokens[t].until, tokens[t].created)
                 /\ <<tokens[t].org, tokens[t].who>> \in members
        BY <1>1 DEF StoreInv, RowInv, Current
    <1>3. PICK p \in Principals, o \in Organizations :
              \/ CreateUser(c, p) \/ (o \in Orgs /\ CreateOrganization(c, o))
              \/ CreateUserInOrganization(c, p, o) \/ AddPrincipalToOrganization(c, p, o)
              \/ RemovePrincipalFromOrganization(c, p, o)
        BY DEF Directory
    <1>4. CASE ~ RemovePrincipalFromOrganization(c, p, o)
        <2>1. p \in Organizations
            BY DEF Organizations
        <2>2. /\ tokens' = tokens /\ members \subseteq members'
              /\ members' \in {members, members \cup {<<p, p>>}, members \cup {<<o, p>>}}
              /\ users' \in {users, users \cup {p}}
              /\ organizations' \in {organizations, organizations \cup {p}, organizations \cup {o}}
            BY <1>3, <1>4 DEF CreateUser, CreateOrganization, CreateUserInOrganization,
               AddPrincipalToOrganization
        <2>3. members' \subseteq Organizations \X Principals
            BY <1>2, <2>1, <2>2 DEF StoreTypes
        <2>4. StoreTypes'
            BY <1>1, <1>2, <2>1, <2>2, <2>3 DEF StoreTypes
        <2>5. RowInv'
            BY <1>1, <1>2, <2>2 DEF RowInv
        <2>6. QED
            BY <1>1, <2>4, <2>5, WriteStep
    <1>5. CASE RemovePrincipalFromOrganization(c, p, o)
        <2>1. /\ members' = members \ {<<o, p>>} /\ UNCHANGED <<users, organizations>>
              /\ tokens' = [t \in Tokens |->
                     IF tokens[t] # NoRow /\ tokens[t].who = p /\ tokens[t].org = o
                     THEN NoRow ELSE tokens[t]]
            BY <1>5 DEF RemovePrincipalFromOrganization
        <2>2. \A t \in Tokens : tokens'[t] # NoRow =>
                  /\ tokens[t] # NoRow /\ tokens'[t] = tokens[t]
                  /\ ~ (tokens[t].who = p /\ tokens[t].org = o)
            BY <2>1
        <2>3. tokens' \in [Tokens -> Rows \cup {NoRow}]
            BY <1>2, <2>1 DEF StoreTypes
        <2>4. StoreTypes'
            BY <1>1, <1>2, <2>1, <2>3 DEF StoreTypes
        <2>5. \A t \in Tokens : tokens'[t] # NoRow => <<tokens'[t].org, tokens'[t].who>> \in members'
            BY <1>2, <2>1, <2>2
        <2>6. RowInv'
            BY <1>1, <1>2, <2>2, <2>5 DEF RowInv
        <2>7. QED
            BY <1>1, <2>4, <2>6, WriteStep
    <1>6. QED
        BY <1>4, <1>5

LEMMA RevokeStep ==
    ASSUME StoreInv, NEW c \in Procs, NEW t \in Tokens, RevokeToken(c, t) PROVE StoreInv'
    <1>1. /\ Writes(c) /\ UNCHANGED <<clock, schema, users, organizations, members, minted, lock, proc>>
          /\ tokens' = [tokens EXCEPT ![t] = NoRow]
        BY DEF RevokeToken, schemaVars
    <1>2. \A u \in Tokens : tokens'[u] # NoRow => tokens[u] # NoRow /\ tokens'[u] = tokens[u]
        BY <1>1 DEF StoreInv, StoreTypes
    <1>3. StoreTypes'
        BY <1>1 DEF StoreInv, StoreTypes
    <1>4. RowInv'
        <2>1. \A u \in Tokens : tokens[u] # NoRow =>
                  /\ u \in minted
                  /\ tokens[u].created <= clock /\ Lasts(tokens[u].until, tokens[u].created)
                  /\ Current => <<tokens[u].org, tokens[u].who>> \in members
            BY DEF StoreInv, RowInv
        <2>2. Current' <=> Current
            BY <1>1 DEF Current
        <2>3. QED
            BY <1>1, <1>2, <2>1, <2>2 DEF RowInv
    <1>5. QED
        BY <1>1, <1>3, <1>4, WriteStep

LEMMA TickStep == ASSUME StoreInv, Tick PROVE StoreInv'
    <1>1. /\ clock \in 0..MaxClock /\ clock' = clock + 1 /\ clock' \in 0..MaxClock
          /\ UNCHANGED <<schema, users, organizations, members, tokens, minted, lock, proc>>
        BY IdentityFacts DEF Tick, schemaVars, StoreInv, StoreTypes
    <1>2. StoreTypes' /\ CallTypes' /\ LockInv' /\ EmptyInv'
        BY <1>1 DEF StoreInv, StoreTypes, CallTypes, LockInv, EmptyInv
    <1>3. \A until \in Instants : Lasts(until, clock) => Lasts(until, clock')
        BY <1>1, IdentityFacts DEF Lasts
    <1>4. ASSUME NEW t \in Tokens, tokens[t] # NoRow PROVE tokens[t].created <= clock'
        <2>1. tokens[t].created \in 0..MaxClock /\ tokens[t].created <= clock
            BY <1>4, RowShapes DEF StoreInv, RowInv
        <2>2. QED
            BY <1>1, <2>1
    <1>5. RowInv'
        BY <1>1, <1>4 DEF StoreInv, RowInv, Current
    <1>6. ASSUME NEW c \in Procs PROVE CallHolds(proc[c])'
        <2> DEFINE k == proc[c]
        <2>1. k \in Calls /\ CallHolds(k)
            BY DEF StoreInv, CallTypes, CallInv
        <2> HIDE DEF k
        <2>2. CASE k.at = "issuing"
            <3>1. k.until \in Instants /\ <<k.org, k.who>> \in members /\ Lasts(k.until, clock)
                BY <2>1, <2>2, CallShapes DEF CallHolds
            <3>2. Lasts(k.until, clock') /\ k.at \notin {"rotating", "reissued"}
                BY <1>3, <2>2, <3>1
            <3>3. QED
                BY <1>1, <3>1, <3>2 DEF CallHolds, k
        <2>3. CASE k.at \in {"rotating", "reissued"}
            <3> DEFINE old == tokens[k.token]
            <3>1. k.token \in Tokens /\ k.until \in Instants
                BY <2>1, <2>3, CallShapes
            <3>2. /\ Found(k.token) /\ Lasts(k.until, clock)
                  /\ old.until # Never => old.created < old.until
                  /\ k.at = "reissued" /\ k.preserved =>
                         IF old.until = Never THEN k.until = Never
                         ELSE k.until # Never /\ k.until <= clock + old.until - old.created
                BY <2>1, <2>3 DEF CallHolds
            <3>3. old.created \in 0..MaxClock /\ old.until \in Instants
                BY <3>1, <3>2, RowShapes DEF Found, StoreInv
            <3> HIDE DEF old
            <3>4. k.at = "reissued" /\ k.preserved /\ old.until # Never =>
                      k.until <= clock' + old.until - old.created
                BY <1>1, <3>1, <3>2, <3>3, IdentityFacts
            <3>5. Lasts(k.until, clock')
                BY <1>3, <3>1, <3>2
            <3>6. QED
                BY <1>1, <2>3, <3>2, <3>4, <3>5 DEF CallHolds, Found, old, k
        <2>4. CASE k.at \notin {"issuing", "rotating", "reissued"}
            BY <1>1, <2>4 DEF CallHolds, k
        <2>5. QED
            BY <2>2, <2>3, <2>4
    <1>7. QED
        BY <1>2, <1>5, <1>6 DEF StoreInv, CallInv

\* The instant a lifetime resolves to.
LEMMA LifetimeNow ==
    ASSUME clock \in 0..MaxClock, NEW span \in Spans \cup {Never}
    PROVE  ExpiresIn(span) \in Instants /\ Lasts(ExpiresIn(span), clock)
    <1>1. CASE span = Never
        BY <1>1, IdentityFacts DEF ExpiresIn, Lasts
    <1>2. CASE span # Never /\ span \in 1..MaxSpan
        <2>1. clock + span \in 0..LastInstant /\ clock + span <= clock + MaxSpan
            BY <1>2, IdentityFacts DEF LastInstant
        <2>2. QED
            BY <1>2, <2>1, IdentityFacts DEF ExpiresIn, Lasts
    <1>3. QED
        BY <1>1, <1>2 DEF Spans

LEMMA IssueBegins ==
    ASSUME StoreInv, NEW c \in Procs, NEW p \in Principals, NEW o \in Organizations,
           NEW span \in Spans \cup {Never}, IssueTokenForOrganization(c, p, o, span)
    PROVE  StoreInv'
    <1> DEFINE until == ExpiresIn(span)
               k == [at |-> "issuing", who |-> p, org |-> o, until |-> until]
    <1>1. until \in Instants /\ Lasts(until, clock)
        BY LifetimeNow DEF StoreInv, StoreTypes
    <1>2. /\ lock = NoOne /\ lock' = c /\ <<o, p>> \in members /\ schema.tables = "v3"
          /\ proc' = [proc EXCEPT ![c] = k] /\ UNCHANGED <<clock, schemaVars, tokens, minted>>
        BY DEF IssueTokenForOrganization, Writes, At, StoreInv, LockInv
    <1> HIDE DEF until
    <1>3. k \in Calls /\ k.at = "issuing" /\ k.who = p /\ k.org = o /\ k.until = until
        BY <1>1 DEF Calls, IssuingCalls
    <1> HIDE DEF k
    <1>4. CallHolds(k)
        BY <1>1, <1>2, <1>3 DEF CallHolds
    <1>5. QED
        BY <1>2, <1>3, <1>4, IdentityFacts, CallMoves

LEMMA RotateBegins ==
    ASSUME StoreInv, NEW c \in Procs, NEW t \in Tokens, NEW preserved \in BOOLEAN,
           NEW until \in Instants, Lasts(until, clock), RotateToken(c, t, preserved, until)
    PROVE  StoreInv'
    <1> DEFINE k == [at |-> "rotating", token |-> t, preserved |-> preserved, until |-> until]
    <1>1. /\ lock = NoOne /\ lock' = c /\ Found(t) /\ StillValid(t) /\ schema.tables = "v3"
          /\ proc' = [proc EXCEPT ![c] = k] /\ UNCHANGED <<clock, schemaVars, tokens, minted>>
        BY DEF RotateToken, Writes, At, StoreInv, LockInv
    <1>2. k \in Calls /\ k.at = "rotating" /\ k.token = t /\ k.until = until
        BY DEF Calls, RotatingCalls
    <1>3. tokens[t].until # Never => tokens[t].created < tokens[t].until
        <2>1. tokens[t] # NoRow /\ tokens[t].created <= clock
            BY <1>1 DEF Found, StoreInv, RowInv
        <2>2. /\ tokens[t].created \in 0..MaxClock /\ clock \in 0..MaxClock
              /\ tokens[t].until # Never => tokens[t].until \in 0..LastInstant
            BY <2>1, RowShapes DEF StoreInv, StoreTypes
        <2>3. QED
            BY <1>1, <2>1, <2>2, IdentityFacts DEF StillValid
    <1> HIDE DEF k
    <1>4. CallHolds(k)
        BY <1>1, <1>2, <1>3 DEF CallHolds
    <1>5. QED
        BY <1>1, <1>2, <1>4, IdentityFacts, CallMoves

\* A secret's remaining life is within the lifetime it was issued with.
LEMMA IssuedLifetimeNow ==
    ASSUME StoreInv, NEW t \in Tokens, Found(t),
           tokens[t].until # Never => tokens[t].created < tokens[t].until
    PROVE  /\ IssuedLifetime(t) \in Instants /\ Lasts(IssuedLifetime(t), clock)
           /\ IF tokens[t].until = Never THEN IssuedLifetime(t) = Never
              ELSE /\ IssuedLifetime(t) # Never
                   /\ IssuedLifetime(t) <= clock + tokens[t].until - tokens[t].created
    <1>1. /\ tokens[t] # NoRow /\ tokens[t].created \in 0..MaxClock /\ clock \in 0..MaxClock
          /\ tokens[t].until # Never => tokens[t].until \in 0..LastInstant
          /\ Lasts(tokens[t].until, tokens[t].created)
        BY RowShapes DEF StoreInv, StoreTypes, RowInv, Found
    <1>2. CASE tokens[t].until = Never
        BY <1>2, IdentityFacts DEF IssuedLifetime, Lasts
    <1>3. CASE tokens[t].until # Never
        <2> DEFINE span == tokens[t].until - tokens[t].created
        <2>1. span \in 1..MaxSpan /\ tokens[t].until \in 0..LastInstant
            BY <1>1, <1>3, IdentityFacts DEF Lasts
        <2>2. IssuedLifetime(t) = clock + span
            BY <1>3 DEF IssuedLifetime, Span
        <2>3. clock + span = clock + tokens[t].until - tokens[t].created
            BY <1>1, <2>1, IdentityFacts
        <2> HIDE DEF span
        <2>4. clock + span \in 0..LastInstant /\ clock + span <= clock + MaxSpan
            BY <1>1, <2>1, IdentityFacts DEF LastInstant
        <2>5. clock + span # Never
            BY <2>4, IdentityFacts
        <2>6. clock + span <= clock + tokens[t].until - tokens[t].created
            BY <2>3, <2>4, IdentityFacts
        <2>7. QED
            BY <1>3, <2>2, <2>4, <2>5, <2>6, IdentityFacts DEF Lasts
    <1>4. QED
        BY <1>2, <1>3

LEMMA Reissued ==
    ASSUME NEW r \in RotatingCalls, NEW until \in Instants
    PROVE  LET k == [r EXCEPT !.at = "reissued", !.until = until]
           IN  /\ k \in RotatingCalls /\ k.at = "reissued" /\ k.until = until
               /\ k.token = r.token /\ k.preserved = r.preserved
    BY DEF RotatingCalls

LEMMA LifetimeStep ==
    ASSUME StoreInv, NEW c \in Procs, RotationLifetime(c) PROVE StoreInv'
    <1> DEFINE t == proc[c].token
               until == IF proc[c].preserved THEN IssuedLifetime(t) ELSE proc[c].until
               k == [proc[c] EXCEPT !.at = "reissued", !.until = until]
    <1>1. /\ proc[c] \in RotatingCalls /\ t \in Tokens /\ proc[c].preserved \in BOOLEAN
          /\ proc[c].until \in Instants /\ proc[c].at = "rotating"
        BY CallShapes DEF RotationLifetime, At, StoreInv, CallTypes
    <1>2. /\ lock = c /\ schema.tables = "v3" /\ CallHolds(proc[c])
          /\ UNCHANGED <<clock, schemaVars, tokens, minted, lock>>
        BY <1>1 DEF RotationLifetime, StoreInv, LockInv, CallInv
    <1>3. /\ Found(t) /\ Lasts(proc[c].until, clock)
          /\ tokens[t].until # Never => tokens[t].created < tokens[t].until
        BY <1>1, <1>2 DEF CallHolds
    <1>4. proc' = [proc EXCEPT ![c] = k]
        BY DEF RotationLifetime
    <1>5. until \in Instants /\ Lasts(until, clock)
        BY <1>1, <1>3, IssuedLifetimeNow
    <1>6. proc[c].preserved =>
              IF tokens[t].until = Never THEN until = Never
              ELSE until # Never /\ until <= clock + tokens[t].until - tokens[t].created
        BY <1>1, <1>3, IssuedLifetimeNow
    <1> HIDE DEF until, t
    <1>7. /\ k \in Calls /\ k.at = "reissued" /\ k.token = t /\ k.until = until
          /\ k.preserved = proc[c].preserved
        BY <1>1, <1>5, Reissued DEF Calls, t
    <1> HIDE DEF k
    <1>8. CallHolds(k)
        BY <1>3, <1>5, <1>6, <1>7 DEF CallHolds
    <1>9. QED
        BY <1>2, <1>4, <1>7, <1>8, CallMoves DEF StoreInv, StoreTypes

\* A call that commits what it holds the lock for leaves every call short.
LEMMA CommitStep ==
    ASSUME StoreInv, NEW c \in Procs, lock = c, schema.tables = "v3", Goto(c, "open"),
           lock' = NoOne, UNCHANGED schema, StoreTypes', RowInv'
    PROVE  StoreInv'
    <1>1. /\ proc \in [Procs -> Calls] /\ [at |-> "open"] \in Calls
          /\ proc' = [proc EXCEPT ![c] = [at |-> "open"]]
        BY DEF StoreInv, CallTypes, Calls, ShortCalls, Places, Goto
    <1>2. \A d \in Procs : proc'[d].at \in Places \ {"upgrading"}
        <2> TAKE d \in Procs
        <2>1. CASE d = c
            BY <1>1, <2>1 DEF Places
        <2>2. CASE d # c
            BY <1>1, <2>2, UnlockedIsShort DEF StoreInv
        <2>3. QED
            BY <2>1, <2>2
    <1>3. CallTypes'
        BY <1>1 DEF CallTypes
    <1>4. LockInv' /\ EmptyInv'
        BY <1>2 DEF LockInv, EmptyInv, Places
    <1>5. CallInv'
        BY <1>2 DEF CallInv, CallHolds, Places
    <1>6. QED
        BY <1>3, <1>4, <1>5 DEF StoreInv

\* One new row, and perhaps one that goes: every row is as it should be.
LEMMA RowsAfter ==
    ASSUME StoreInv, UNCHANGED <<clock, schemaVars>>, NEW u \in Tokens, NEW row \in Rows,
           minted' = minted \cup {u}, lock' \in Procs \cup {NoOne},
           \A v \in Tokens : v # u => tokens'[v] \in {tokens[v], NoRow},
           tokens' = [v \in Tokens |-> tokens'[v]], tokens'[u] = row,
           row.created <= clock, Lasts(row.until, row.created), <<row.org, row.who>> \in members
    PROVE  StoreTypes' /\ RowInv'
    <1>1. UNCHANGED <<clock, schema, users, organizations, members>>
        BY DEF schemaVars
    <1>2. \A v \in Tokens : tokens'[v] \in Rows \cup {NoRow}
        BY DEF StoreInv, StoreTypes
    <1>3. StoreTypes'
        <2>1. tokens' \in [Tokens -> Rows \cup {NoRow}]
            BY <1>2
        <2>2. QED
            BY <1>1, <2>1 DEF StoreInv, StoreTypes
    <1>4. RowInv'
        <2> SUFFICES ASSUME NEW v \in Tokens, tokens'[v] # NoRow
                     PROVE  /\ v \in minted'
                            /\ tokens'[v].created <= clock'
                            /\ Lasts(tokens'[v].until, tokens'[v].created)
                            /\ Current' => <<tokens'[v].org, tokens'[v].who>> \in members'
            BY DEF RowInv
        <2>1. CASE v = u
            BY <1>1, <2>1
        <2>2. CASE v # u
            <3>1. tokens[v] # NoRow /\ tokens'[v] = tokens[v] /\ (Current' <=> Current)
                BY <1>1, <2>2 DEF Current
            <3>2. /\ v \in minted /\ tokens[v].created <= clock
                  /\ Lasts(tokens[v].until, tokens[v].created)
                  /\ Current => <<tokens[v].org, tokens[v].who>> \in members
                BY <3>1 DEF StoreInv, RowInv
            <3>3. QED
                BY <1>1, <3>1, <3>2
        <2>3. QED
            BY <2>1, <2>2
    <1>5. QED
        BY <1>3, <1>4

LEMMA LastsLater ==
    ASSUME NEW until \in Instants, NEW now \in 0..MaxClock, Lasts(until, now)
    PROVE  until # Never => until \in 0..LastInstant /\ until <= now + MaxSpan
    BY IdentityFacts DEF Lasts

LEMMA IssueCommits ==
    ASSUME StoreInv, NEW c \in Procs, NEW t \in Tokens, IssueTokenInTransaction(c, t)
    PROVE  StoreInv'
    <1> DEFINE row == [who |-> proc[c].who, org |-> proc[c].org, created |-> clock,
                       until |-> proc[c].until, credential |-> t]
    <1>1. /\ proc[c].at = "issuing" /\ proc[c].who \in Principals
          /\ proc[c].org \in Organizations /\ proc[c].until \in Instants
        BY CallShapes DEF IssueTokenInTransaction, At, StoreInv, CallTypes
    <1>2. /\ lock = c /\ schema.tables = "v3"
          /\ <<proc[c].org, proc[c].who>> \in members /\ Lasts(proc[c].until, clock)
        BY <1>1 DEF StoreInv, LockInv, CallInv, CallHolds
    <1>3. /\ tokens' = [tokens EXCEPT ![t] = row] /\ minted' = minted \cup {t}
          /\ lock' = NoOne /\ Goto(c, "open") /\ UNCHANGED <<clock, schemaVars>>
        BY DEF IssueTokenInTransaction
    <1>4. clock \in 0..MaxClock /\ clock <= clock
        BY IdentityFacts DEF StoreInv, StoreTypes
    <1>5. /\ row \in Rows /\ row.created <= clock /\ Lasts(row.until, row.created)
          /\ <<row.org, row.who>> \in members
        BY <1>1, <1>2, <1>4 DEF Rows
    <1> HIDE DEF row
    <1>6. /\ tokens'[t] = row /\ tokens' = [v \in Tokens |-> tokens'[v]]
          /\ \A v \in Tokens : v # t => tokens'[v] = tokens[v]
        BY <1>3 DEF StoreInv, StoreTypes
    <1>7. StoreTypes' /\ RowInv'
        BY <1>3, <1>5, <1>6, RowsAfter
    <1>8. QED
        BY <1>2, <1>3, <1>7, CommitStep DEF schemaVars

\* What a rotation reads at the end is what it found at the start.
LEMMA RotationFacts ==
    ASSUME StoreInv, NEW c \in Procs, NEW u \in Tokens, RotateCommits(c, u)
    PROVE  LET t == proc[c].token
               row == [tokens[t] EXCEPT !.created = clock, !.until = proc[c].until]
           IN  /\ t \in Tokens /\ u # t /\ u \notin minted /\ Found(t) /\ CallHolds(proc[c])
               /\ proc[c].at = "reissued" /\ proc[c].preserved \in BOOLEAN
               /\ proc[c].until \in Instants
               /\ lock = c /\ schema.tables = "v3"
               /\ row \in Rows /\ row.who = tokens[t].who /\ row.org = tokens[t].org
               /\ row.credential = tokens[t].credential
               /\ row.created = clock /\ row.until = proc[c].until
               /\ tokens'[u] = row /\ tokens'[t] = NoRow
               /\ \A v \in Tokens : v # u /\ v # t => tokens'[v] = tokens[v]
               /\ tokens' = [v \in Tokens |-> tokens'[v]]
    <1> DEFINE t == proc[c].token
               row == [tokens[t] EXCEPT !.created = clock, !.until = proc[c].until]
    <1>1. /\ proc[c].at = "reissued" /\ t \in Tokens /\ proc[c].preserved \in BOOLEAN
          /\ proc[c].until \in Instants
        BY CallShapes DEF RotateCommits, At, StoreInv, CallTypes
    <1>2. /\ lock = c /\ schema.tables = "v3" /\ CallHolds(proc[c])
        BY <1>1 DEF StoreInv, LockInv, CallInv
    <1>3. Found(t)
        BY <1>1, <1>2 DEF CallHolds
    <1>4. u \notin minted /\ tokens' = [tokens EXCEPT ![u] = row, ![t] = NoRow]
        BY DEF RotateCommits
    <1>5. tokens[t] # NoRow /\ t \in minted /\ u # t
        BY <1>1, <1>3, <1>4 DEF Found, StoreInv, RowInv
    <1>6. tokens[t] \in Rows /\ clock \in 0..MaxClock
        BY <1>1, <1>5, RowShapes DEF StoreInv, StoreTypes
    <1>7. /\ row \in Rows /\ row.who = tokens[t].who /\ row.org = tokens[t].org
          /\ row.credential = tokens[t].credential
          /\ row.created = clock /\ row.until = proc[c].until
        BY <1>1, <1>6 DEF Rows
    <1> HIDE DEF row, t
    <1>8. /\ tokens'[u] = row /\ tokens'[t] = NoRow
          /\ \A v \in Tokens : v # u /\ v # t => tokens'[v] = tokens[v]
          /\ tokens' = [v \in Tokens |-> tokens'[v]]
        BY <1>1, <1>4, <1>5 DEF StoreInv, StoreTypes
    <1> USE DEF row, t
    <1>9. QED
        BY <1>1, <1>2, <1>3, <1>4, <1>5, <1>7, <1>8, Zenon

LEMMA RotateEnds ==
    ASSUME StoreInv, NEW c \in Procs, NEW u \in Tokens, RotateCommits(c, u)
    PROVE  StoreInv'
    <1> DEFINE t == proc[c].token
               row == [tokens[t] EXCEPT !.created = clock, !.until = proc[c].until]
    <1>1. /\ row \in Rows /\ row.created = clock /\ row.until = proc[c].until
          /\ row.who = tokens[t].who /\ row.org = tokens[t].org
        BY RotationFacts
    <1>2. /\ t \in Tokens /\ Found(t) /\ CallHolds(proc[c]) /\ proc[c].at = "reissued"
          /\ lock = c /\ schema.tables = "v3"
        BY RotationFacts
    <1>3. tokens'[u] = row /\ tokens' = [v \in Tokens |-> tokens'[v]]
        BY RotationFacts
    <1>4. \A v \in Tokens : v # u => tokens'[v] \in {tokens[v], NoRow}
        <2>1. tokens'[t] = NoRow /\ \A v \in Tokens : v # u /\ v # t => tokens'[v] = tokens[v]
            BY RotationFacts
        <2>2. QED
            BY <2>1
    <1>5. Lasts(proc[c].until, clock)
        BY <1>2 DEF CallHolds
    <1>6. <<row.org, row.who>> \in members
        BY <1>1, <1>2 DEF Found
    <1>7. /\ minted' = minted \cup {u} /\ lock' = NoOne /\ Goto(c, "open")
          /\ UNCHANGED <<clock, schemaVars>>
        BY DEF RotateCommits
    <1>8. clock <= clock
        BY DEF StoreInv, StoreTypes
    <1> HIDE DEF row
    <1>9. StoreTypes' /\ RowInv'
        BY <1>1, <1>3, <1>4, <1>5, <1>6, <1>7, <1>8, RowsAfter
    <1>10. QED
        BY <1>2, <1>7, <1>9, CommitStep DEF schemaVars

LEMMA CredentialsStep ==
    ASSUME StoreInv, NEW c \in Procs, Credentials(c) PROVE StoreInv'
    <1>1. ASSUME NEW p \in Principals, NEW span \in Spans \cup {Never}, IssueToken(c, p, span)
          PROVE  StoreInv'
        BY <1>1, IssueBegins DEF IssueToken
    <1>2. ASSUME NEW p \in Principals, NEW span \in Spans \cup {Never},
                 NEW o \in Organizations, IssueTokenForOrganization(c, p, o, span)
          PROVE  StoreInv'
        BY <1>2, IssueBegins
    <1>3. ASSUME NEW t \in Tokens, RotateToken(c, t, TRUE, Never) PROVE StoreInv'
        <2>1. Never \in Instants /\ Lasts(Never, clock)
            BY DEF Instants, Lasts
        <2>2. QED
            BY <1>3, <2>1, RotateBegins
    <1>4. ASSUME NEW t \in Tokens, NEW span \in Spans \cup {Never},
                 RotateToken(c, t, FALSE, ExpiresIn(span))
          PROVE  StoreInv'
        <2>1. ExpiresIn(span) \in Instants /\ Lasts(ExpiresIn(span), clock)
            BY LifetimeNow DEF StoreInv, StoreTypes
        <2>2. QED
            BY <1>4, <2>1, RotateBegins
    <1>5. QED
        BY <1>1, <1>2, <1>3, <1>4, IssueCommits, RotateEnds, RevokeStep, LifetimeStep
           DEF Credentials

LEMMA StoreStep == StoreInv /\ [Next]_vars => StoreInv'
    <1> SUFFICES ASSUME StoreInv, [Next]_vars PROVE StoreInv'
        OBVIOUS
    <1>1. CASE UNCHANGED vars
        BY <1>1 DEF vars, schemaVars, StoreInv, StoreTypes, CallTypes, LockInv, EmptyInv,
           RowInv, Current, CallInv, CallHolds, Found
    <1>2. QED
        BY <1>1, TickStep, OpeningStep, UpgradeStep, DirectoryStep, CredentialsStep
           DEF Next, Opening

LEMMA StoreInvariant == Spec => []StoreInv
    BY StoreInit, StoreStep, PTL DEF Spec

\* Every variable of IdentityStore keeps its type, for any lifetimes and clocks: an
\* expiry written by a rotation of a rotation is still an instant a lifetime may end.
THEOREM TypeCorrect == Spec => []TypeOK
    <1>1. StoreInv => TypeOK
        BY CallShapes DEF StoreInv, StoreTypes, CallTypes, TypeOK, Places
    <1>2. QED
        BY <1>1, StoreInvariant, PTL

\* Nobody else writes between the reads and the commit of a transaction: what a
\* call under the lock has found is there until it commits.
THEOREM ReadsStillHold == Spec => [](LockInv /\ CallInv)
    BY StoreInvariant, PTL DEF StoreInv

\* However long a rotation takes between its readings of the clock, one that keeps the
\* lifetime lets the new secret live no longer after its creation than the old one was
\* to, and an expired secret buys nothing (lib.rs:575-634).
THEOREM RotationKeepsLifetimes == Spec => RotationNeverExtends
    <1> DEFINE Bounded(c, u) ==
            LET old == tokens[proc[c].token]
                new == tokens'[u]
            IN  IF old.until = Never THEN new.until = Never
                ELSE /\ new.until # Never
                     /\ new.until - new.created <= old.until - old.created
                     /\ old.created < old.until
    <1>1. ASSUME StoreInv, NEW c \in Procs, NEW u \in Tokens, RotateCommits(c, u),
                 proc[c].preserved
          PROVE  Bounded(c, u)
        <2> DEFINE t == proc[c].token
                   row == [tokens[t] EXCEPT !.created = clock, !.until = proc[c].until]
        <2>1. /\ tokens'[u] = row /\ row.created = clock /\ row.until = proc[c].until
              /\ t \in Tokens /\ Found(t) /\ CallHolds(proc[c]) /\ proc[c].at = "reissued"
              /\ proc[c].until \in Instants
            BY <1>1, RotationFacts
        <2>2. /\ tokens[t].until # Never => tokens[t].created < tokens[t].until
              /\ IF tokens[t].until = Never THEN proc[c].until = Never
                 ELSE /\ proc[c].until # Never
                      /\ proc[c].until <= clock + tokens[t].until - tokens[t].created
            BY <1>1, <2>1 DEF CallHolds
        <2>3. /\ clock \in Nat /\ tokens[t].created \in Nat
              /\ tokens[t].until # Never => tokens[t].until \in Nat
              /\ proc[c].until # Never => proc[c].until \in Nat
            BY <1>1, <2>1, RowShapes, IdentityFacts DEF StoreInv, StoreTypes, Found
        <2> HIDE DEF row
        <2>4. QED
            BY <2>1, <2>2, <2>3
    <1>2. StoreInv /\ [Next]_vars =>
              [\A c \in Procs, u \in Tokens :
                   RotateCommits(c, u) /\ proc[c].preserved => Bounded(c, u)]_vars
        BY <1>1
    <1>3. QED
        BY <1>2, StoreInvariant, PTL DEF Spec, RotationNeverExtends
-----------------------------------------------------------------------------
(* The store implements TokenWorth *)

\* What the row of a live secret is worth.
WorthOf(row) ==
    [who |-> row.who, org |-> row.org, credential |-> row.credential, until |-> row.until]

\* In an open store every row is live.
WorthWhenOpen ==
    schema.tables = "v3" =>
        /\ Membership = members
        /\ \A t \in Tokens :
               /\ t \notin minted => Seen(t) = Unminted
               /\ t \in minted /\ tokens[t] = NoRow => Seen(t) = Dead
               /\ tokens[t] # NoRow =>
                      /\ Seen(t) = WorthOf(tokens[t]) /\ Seen(t) \in Worth!Worths
                      /\ Seen(t).who = tokens[t].who /\ Seen(t).org = tokens[t].org
                      /\ t \in minted /\ <<tokens[t].org, tokens[t].who>> \in members
               /\ tokens[t] = NoRow => Seen(t) \notin Worth!Worths

LEMMA Marks ==
    Unminted # Dead /\ Unminted \notin Worth!Worths /\ Dead \notin Worth!Worths
    BY MarksAreMarks DEF Worth!MarksDiffer

LEMMA OpenStoreWorth == StoreInv => WorthWhenOpen
    <1> SUFFICES ASSUME StoreInv, schema.tables = "v3"
                 PROVE  /\ Membership = members
                        /\ \A t \in Tokens :
                               /\ t \notin minted => Seen(t) = Unminted
                               /\ t \in minted /\ tokens[t] = NoRow => Seen(t) = Dead
                               /\ tokens[t] # NoRow =>
                                   /\ Seen(t) = WorthOf(tokens[t]) /\ Seen(t) \in Worth!Worths
                                   /\ Seen(t).who = tokens[t].who /\ Seen(t).org = tokens[t].org
                                   /\ t \in minted
                                   /\ <<tokens[t].org, tokens[t].who>> \in members
                               /\ tokens[t] = NoRow => Seen(t) \notin Worth!Worths
        BY DEF WorthWhenOpen
    <1>1. Current /\ Membership = members
        BY DEF Current, Membership
    <1>2. ASSUME NEW t \in Tokens, tokens[t] # NoRow
          PROVE  /\ Seen(t) = WorthOf(tokens[t]) /\ Seen(t) \in Worth!Worths
                 /\ Seen(t).who = tokens[t].who /\ Seen(t).org = tokens[t].org
                 /\ t \in minted /\ <<tokens[t].org, tokens[t].who>> \in members
        <2>1. t \in minted /\ <<tokens[t].org, tokens[t].who>> \in members
            BY <1>1, <1>2 DEF StoreInv, RowInv
        <2>2. Seen(t) = WorthOf(tokens[t])
            BY <1>1, <1>2, <2>1 DEF Seen, Home, WorthOf
        <2>3. /\ tokens[t].who \in Principals /\ tokens[t].org \in Organizations
              /\ tokens[t].until \in Instants /\ tokens[t].credential \in Tokens
            BY <1>2, <2>1, RowShapes DEF StoreInv, StoreTypes
        <2>4. WorthOf(tokens[t]) \in Worth!Worths
            BY <2>3 DEF WorthOf, Worth!Worths
        <2>5. WorthOf(tokens[t]).who = tokens[t].who /\ WorthOf(tokens[t]).org = tokens[t].org
            BY DEF WorthOf
        <2>6. QED
            BY <2>1, <2>2, <2>4, <2>5
    <1>3. ASSUME NEW t \in Tokens
          PROVE  /\ t \notin minted => Seen(t) = Unminted
                 /\ t \in minted /\ tokens[t] = NoRow => Seen(t) = Dead
                 /\ tokens[t] = NoRow => Seen(t) \notin Worth!Worths
        BY Marks DEF Seen
    <1>4. QED
        BY <1>1, <1>2, <1>3

\* What nobody sees: anything that leaves schema, users, memberships, rows and
\* drawn secrets alone.
LEMMA UnseenStep ==
    ASSUME UNCHANGED <<schema, users, members, tokens, minted>> PROVE UNCHANGED Worth!vars
    <1>1. Membership' = Membership /\ \A t \in Tokens : Seen(t)' = Seen(t)
        BY DEF Seen, Home, Membership, Current
    <1>2. QED
        BY <1>1 DEF Worth!vars

LEMMA WorthInit == Init => Worth!Init
    <1> SUFFICES ASSUME Init PROVE Worth!Init
        OBVIOUS
    <1>1. StoreInv
        BY StoreInit
    <1>2. Membership \subseteq Organizations \X Principals
        BY <1>1 DEF StoreInv, StoreTypes, Membership, Organizations
    <1>3. ASSUME NEW t \in Tokens, Seen(t) \notin {Unminted, Dead}
          PROVE  /\ Seen(t) \in Worth!Worths /\ Seen(t).credential = t
                 /\ <<Seen(t).org, Seen(t).who>> \in Membership
        <2>1. /\ tokens[t] # NoRow /\ <<Home(tokens[t]), tokens[t].who>> \in Membership
              /\ Seen(t) = [who |-> tokens[t].who, org |-> Home(tokens[t]),
                            credential |-> tokens[t].credential, until |-> tokens[t].until]
            BY <1>3 DEF Seen
        <2>2. tokens[t].credential = t
            BY <2>1 DEF Init
        <2>3. /\ tokens[t].who \in Principals /\ Home(tokens[t]) \in Organizations
              /\ tokens[t].until \in Instants /\ tokens[t].credential \in Tokens
            BY <1>1, <1>2, <2>1, RowShapes DEF StoreInv
        <2> HIDE DEF Home
        <2>4. Seen(t) \in Worth!Worths
            BY <2>1, <2>3 DEF Worth!Worths
        <2>5. Seen(t).credential = t /\ Seen(t).org = Home(tokens[t]) /\ Seen(t).who = tokens[t].who
            BY <2>1, <2>2
        <2>6. QED
            BY <2>1, <2>4, <2>5
    <1>4. QED
        BY <1>2, <1>3 DEF Worth!Init, Worth!Live

\* No upgrade changes what a secret is worth, nor who is a member of what.
LEMMA UpgradeUnseen ==
    ASSUME StoreInv, StoreInv', NEW c \in Procs, Upgrade(c) PROVE UNCHANGED Worth!vars
    <1>1. schema'.tables = "v3" /\ UNCHANGED <<users, minted>> /\ Current'
        BY DEF Upgrade, Current
    <1>2. Membership' = members'
        BY <1>1 DEF Membership
    <1>3. CASE schema.tables = "legacy"
        <2>1. /\ members' = {<<p, p>> : p \in users}
              /\ \A t \in Tokens : tokens[t] # NoRow => tokens[t].who \in users
              /\ tokens' = [t \in Tokens |-> IF tokens[t] = NoRow THEN NoRow
                                             ELSE [tokens[t] EXCEPT !.org = tokens[t].who]]
              /\ ~Current
            BY <1>3 DEF Upgrade, MigrateV1toV2, Orphaned, Current
        <2>2. Membership' = Membership
            BY <1>2, <2>1 DEF Membership
        <2>3. ASSUME NEW t \in Tokens PROVE Seen(t)' = Seen(t)
            <3>1. CASE tokens[t] = NoRow
                BY <1>1, <2>1, <3>1 DEF Seen
            <3>2. CASE tokens[t] # NoRow
                <4>1. tokens[t] \in Rows /\ tokens'[t] = [tokens[t] EXCEPT !.org = tokens[t].who]
                    BY <2>1, <3>2, RowShapes DEF StoreInv
                <4>2. /\ tokens'[t].org = tokens[t].who /\ tokens'[t].who = tokens[t].who
                      /\ tokens'[t].credential = tokens[t].credential
                      /\ tokens'[t].until = tokens[t].until /\ tokens'[t] \in [who : Principals,
                             org : Organizations \cup {NoOrg}, created : 0..MaxClock,
                             until : Instants, credential : Tokens]
                    BY <4>1 DEF Rows, Organizations
                <4>3. tokens'[t] # NoRow
                    BY <4>2, IdentityFacts DEF Rows
                <4>4. Home(tokens[t]) = tokens[t].who /\ Home(tokens[t])' = tokens[t].who
                    BY <1>1, <2>1, <4>2 DEF Home
                <4>5. QED
                    BY <1>1, <2>2, <3>2, <4>2, <4>3, <4>4 DEF Seen
            <3>3. QED
                BY <3>1, <3>2
        <2>4. QED
            BY <2>2, <2>3 DEF Worth!vars
    <1>4. CASE schema.tables \in {"v2", "v3"}
        <2>1. UNCHANGED <<members, tokens>>
            BY <1>4 DEF Upgrade, MigrateV2toV3
        <2>2. Current
            BY <1>4 DEF Current
        <2>3. Membership' = Membership /\ \A t \in Tokens : Seen(t)' = Seen(t)
            BY <1>1, <2>1, <2>2 DEF Seen, Home, Membership
        <2>4. QED
            BY <2>3 DEF Worth!vars
    <1>5. CASE schema.tables = "none"
        <2>1. /\ UNCHANGED <<members, tokens>> /\ members = {} /\ users = {}
              /\ \A t \in Tokens : tokens[t] = NoRow
            BY <1>5 DEF Upgrade, StoreInv, EmptyInv
        <2>2. Membership' = Membership
            BY <1>2, <1>5, <2>1 DEF Membership, Current
        <2>3. \A t \in Tokens : Seen(t)' = Seen(t)
            BY <1>1, <2>1 DEF Seen
        <2>4. QED
            BY <2>2, <2>3 DEF Worth!vars
    <1>6. QED
        BY <1>3, <1>4, <1>5 DEF Upgrade

LEMMA OpenStoreWorthNext == StoreInv' => WorthWhenOpen'
    BY OpenStoreWorth, PTL

\* A secret whose row stays keeps its worth.
LEMMA SameWorth ==
    ASSUME WorthWhenOpen, WorthWhenOpen', schema.tables = "v3", schema' = schema,
           NEW v \in Tokens, tokens'[v] = tokens[v], v \in minted' <=> v \in minted
    PROVE  Seen(v)' = Seen(v)
    <1>1. CASE tokens[v] = NoRow
        BY <1>1 DEF WorthWhenOpen
    <1>2. CASE tokens[v] # NoRow
        BY <1>2 DEF WorthWhenOpen, WorthOf
    <1>3. QED
        BY <1>1, <1>2

LEMMA DirectoryRefines ==
    ASSUME StoreInv, StoreInv', NEW c \in Procs, Directory(c) PROVE [Worth!Next]_Worth!vars
    <1>1. schema.tables = "v3" /\ schema' = schema /\ minted' = minted
        BY DEF Directory, CreateUser, CreateOrganization, CreateUserInOrganization,
               AddPrincipalToOrganization, RemovePrincipalFromOrganization, Writes, At,
               StoreInv, LockInv
    <1>2. WorthWhenOpen /\ WorthWhenOpen'
        BY OpenStoreWorth, OpenStoreWorthNext
    <1>3. Membership = members /\ Membership' = members'
        BY <1>1, <1>2 DEF WorthWhenOpen
    <1>4. PICK p \in Principals, o \in Organizations :
              \/ CreateUser(c, p) \/ (o \in Orgs /\ CreateOrganization(c, o))
              \/ CreateUserInOrganization(c, p, o) \/ AddPrincipalToOrganization(c, p, o)
              \/ RemovePrincipalFromOrganization(c, p, o)
        BY DEF Directory
    <1>5. p \in Organizations
        BY DEF Organizations
    <1>6. tokens' = tokens => \A t \in Tokens : Seen(t)' = Seen(t)
        BY <1>1, <1>2, SameWorth
    <1>7. ASSUME NEW q \in Organizations, tokens' = tokens, members' = members \cup {<<q, p>>}
          PROVE  Worth!Join(q, p)
        BY <1>3, <1>6, <1>7 DEF Worth!Join
    <1>8. CASE CreateUser(c, p)
        <2>1. Worth!Join(p, p)
            BY <1>5, <1>7, <1>8 DEF CreateUser
        <2>2. QED
            BY <1>5, <2>1 DEF Worth!Next
    <1>9. CASE CreateOrganization(c, o)
        BY <1>9, UnseenStep DEF CreateOrganization
    <1>10. CASE CreateUserInOrganization(c, p, o) \/ AddPrincipalToOrganization(c, p, o)
        <2>1. Worth!Join(o, p)
            BY <1>7, <1>10 DEF CreateUserInOrganization, AddPrincipalToOrganization
        <2>2. QED
            BY <2>1 DEF Worth!Next
    <1>11. CASE RemovePrincipalFromOrganization(c, p, o)
        <2>1. /\ members' = members \ {<<o, p>>}
              /\ tokens' = [t \in Tokens |->
                     IF tokens[t] # NoRow /\ tokens[t].who = p /\ tokens[t].org = o
                     THEN NoRow ELSE tokens[t]]
            BY <1>11 DEF RemovePrincipalFromOrganization
        <2>2. ASSUME NEW t \in Tokens
              PROVE  Seen(t)' = IF Seen(t) \in Worth!Worths /\ Seen(t).who = p /\ Seen(t).org = o
                                THEN Dead ELSE Seen(t)
            <3>1. CASE tokens[t] = NoRow
                <4>1. tokens'[t] = NoRow /\ Seen(t) \notin Worth!Worths
                    BY <1>1, <1>2, <2>1, <3>1 DEF WorthWhenOpen
                <4>2. Seen(t)' = Seen(t)
                    BY <1>1, <1>2, <3>1, <4>1 DEF WorthWhenOpen
                <4>3. QED
                    BY <4>1, <4>2
            <3>2. CASE tokens[t] # NoRow /\ tokens[t].who = p /\ tokens[t].org = o
                <4>1. tokens'[t] = NoRow /\ t \in minted
                    BY <1>1, <1>2, <2>1, <3>2 DEF WorthWhenOpen
                <4>2. Seen(t)' = Dead
                    BY <1>1, <1>2, <4>1 DEF WorthWhenOpen
                <4>3. QED
                    BY <1>1, <1>2, <3>2, <4>2 DEF WorthWhenOpen
            <3>3. CASE tokens[t] # NoRow /\ ~ (tokens[t].who = p /\ tokens[t].org = o)
                <4>1. tokens'[t] = tokens[t]
                    BY <2>1, <3>3
                <4>2. Seen(t)' = Seen(t)
                    BY <1>1, <1>2, <3>3, <4>1 DEF WorthWhenOpen, WorthOf
                <4>3. QED
                    BY <1>1, <1>2, <3>3, <4>2 DEF WorthWhenOpen
            <3>4. QED
                BY <3>1, <3>2, <3>3
        <2>3. Worth!Leave(o, p)
            BY <1>3, <2>1, <2>2 DEF Worth!Leave, Worth!Live
        <2>4. QED
            BY <2>3 DEF Worth!Next
    <1>12. QED
        BY <1>4, <1>8, <1>9, <1>10, <1>11

\* The new secret stands for the member it is issued to, and nobody else's changes.
LEMMA IssueRefines ==
    ASSUME StoreInv, StoreInv', NEW c \in Procs, NEW t \in Tokens,
           IssueTokenInTransaction(c, t)
    PROVE  [Worth!Next]_Worth!vars
    <1> DEFINE p == proc[c].who
               o == proc[c].org
               until == proc[c].until
               row == [who |-> p, org |-> o, created |-> clock, until |-> until, credential |-> t]
    <1>1. /\ proc[c].at = "issuing" /\ p \in Principals /\ o \in Organizations
          /\ until \in Instants
        BY CallShapes DEF IssueTokenInTransaction, At, StoreInv, CallTypes
    <1>2. schema.tables = "v3" /\ <<o, p>> \in members
        BY <1>1 DEF StoreInv, LockInv, CallInv, CallHolds
    <1>3. /\ t \notin minted /\ minted' = minted \cup {t}
          /\ tokens' = [tokens EXCEPT ![t] = row] /\ schema' = schema /\ members' = members
        BY DEF IssueTokenInTransaction, schemaVars
    <1>4. /\ WorthWhenOpen /\ WorthWhenOpen'
          /\ Membership = members /\ Membership' = members
        BY <1>2, <1>3, OpenStoreWorth, OpenStoreWorthNext DEF WorthWhenOpen
    <1> HIDE DEF p, o, until
    <1>5. tokens'[t] = row /\ row \in Rows
        <2>1. clock \in 0..MaxClock
            BY DEF StoreInv, StoreTypes
        <2>2. QED
            BY <1>1, <1>3, <2>1 DEF Rows, StoreInv, StoreTypes
    <1>6. /\ tokens'[t] # NoRow
          /\ WorthOf(row) = [who |-> p, org |-> o, credential |-> t, until |-> until]
        BY <1>5, IdentityFacts DEF WorthOf
    <1> HIDE DEF row
    <1>7. Seen(t) = Unminted /\ Seen(t)' = [who |-> p, org |-> o, credential |-> t, until |-> until]
        <2>1. Seen(t) = Unminted
            BY <1>2, <1>3, <1>4 DEF WorthWhenOpen
        <2>2. Seen(t)' = WorthOf(tokens'[t])
            BY <1>2, <1>3, <1>4, <1>6 DEF WorthWhenOpen, WorthOf
        <2>3. QED
            BY <1>5, <1>6, <2>1, <2>2
    <1>8. ASSUME NEW v \in Tokens, v # t PROVE Seen(v)' = Seen(v)
        <2>1. tokens'[v] = tokens[v] /\ (v \in minted' <=> v \in minted)
            BY <1>3, <1>8 DEF StoreInv, StoreTypes
        <2>2. QED
            BY <1>2, <1>3, <1>4, <2>1, SameWorth
    <1>9. Worth!Issue(t, o, p)
        BY <1>1, <1>2, <1>4, <1>7, <1>8 DEF Worth!Issue
    <1>10. QED
        BY <1>1, <1>9 DEF Worth!Next

\* At no instant both secrets, at no instant neither.
LEMMA RotateRefines ==
    ASSUME StoreInv, StoreInv', NEW c \in Procs, NEW u \in Tokens, RotateCommits(c, u)
    PROVE  [Worth!Next]_Worth!vars
    <1>0. PICK t \in Tokens : t = proc[c].token
        BY RotationFacts
    <1> DEFINE until == proc[c].until
               row == [tokens[t] EXCEPT !.created = clock, !.until = until]
    <1>1. /\ t \in Tokens /\ u # t /\ u \notin minted /\ Found(t) /\ until \in Instants
          /\ schema.tables = "v3"
          /\ \A v \in Tokens : v # u /\ v # t => tokens'[v] = tokens[v]
        <2>1. /\ u # proc[c].token /\ u \notin minted /\ Found(proc[c].token)
              /\ until \in Instants /\ schema.tables = "v3"
            BY RotationFacts
        <2>2. \A v \in Tokens : v # u /\ v # proc[c].token => tokens'[v] = tokens[v]
            BY RotationFacts
        <2>3. QED
            BY <1>0, <2>1, <2>2
    <1>2. /\ tokens'[u] = row /\ tokens'[t] = NoRow /\ row \in Rows
          /\ row.who = tokens[t].who /\ row.org = tokens[t].org
          /\ row.credential = tokens[t].credential /\ row.until = until
        BY <1>0, RotationFacts
    <1>3. minted' = minted \cup {u} /\ schema' = schema /\ members' = members
        BY DEF RotateCommits, schemaVars
    <1>4. /\ WorthWhenOpen /\ WorthWhenOpen'
          /\ Membership = members /\ Membership' = members
        BY <1>1, <1>3, OpenStoreWorth, OpenStoreWorthNext DEF WorthWhenOpen
    <1> HIDE DEF row, until
    <1>5. /\ tokens[t] # NoRow /\ tokens[u] = NoRow /\ tokens'[u] # NoRow /\ t \in minted
          /\ WorthOf(row) = [WorthOf(tokens[t]) EXCEPT !.until = until]
        <2>1. tokens[t] # NoRow /\ tokens'[u] # NoRow
            BY <1>1, <1>2, IdentityFacts DEF Found
        <2>2. tokens[u] = NoRow /\ t \in minted
            BY <1>1, <2>1 DEF StoreInv, RowInv
        <2>3. WorthOf(row) = [WorthOf(tokens[t]) EXCEPT !.until = until]
            BY <1>2 DEF WorthOf
        <2>4. QED
            BY <2>1, <2>2, <2>3
    <1>6. Seen(t) = WorthOf(tokens[t]) /\ Seen(t) \in Worth!Worths /\ Seen(u) = Unminted
        BY <1>1, <1>4, <1>5 DEF WorthWhenOpen
    <1>7. Seen(t)' = Dead /\ Seen(u)' = WorthOf(tokens'[u])
        BY <1>1, <1>2, <1>3, <1>4, <1>5 DEF WorthWhenOpen, WorthOf
    <1>8. Seen(u)' = [Seen(t) EXCEPT !.until = until]
        BY <1>2, <1>5, <1>6, <1>7
    <1>9. ASSUME NEW v \in Tokens, v # u, v # t PROVE Seen(v)' = Seen(v)
        <2>1. tokens'[v] = tokens[v] /\ (v \in minted' <=> v \in minted)
            BY <1>1, <1>3, <1>9
        <2>2. QED
            BY <1>1, <1>3, <1>4, <2>1, SameWorth
    <1>10. Worth!Exchange(t, u)
        <2> DEFINE W == [v \in Tokens |-> Seen(v)]
        <2>1. [v \in Tokens |-> Seen(v)'] =
                  [W EXCEPT ![t] = Dead, ![u] = [W[t] EXCEPT !.until = until]]
            BY <1>1, <1>7, <1>8, <1>9
        <2>2. QED
            BY <1>1, <1>4, <1>6, <2>1 DEF Worth!Exchange, Worth!Live
    <1>11. QED
        BY <1>1, <1>10 DEF Worth!Next

LEMMA RevokeRefines ==
    ASSUME StoreInv, StoreInv', NEW c \in Procs, NEW t \in Tokens, RevokeToken(c, t)
    PROVE  [Worth!Next]_Worth!vars
    <1>1. /\ schema.tables = "v3" /\ schema' = schema /\ members' = members /\ minted' = minted
          /\ tokens[t] # NoRow /\ tokens' = [tokens EXCEPT ![t] = NoRow]
        BY DEF RevokeToken, Writes, At, schemaVars, StoreInv, LockInv
    <1>2. /\ WorthWhenOpen /\ WorthWhenOpen'
          /\ Membership = members /\ Membership' = members
        BY <1>1, OpenStoreWorth, OpenStoreWorthNext DEF WorthWhenOpen
    <1>3. /\ tokens'[t] = NoRow /\ \A v \in Tokens : v # t => tokens'[v] = tokens[v]
        BY <1>1 DEF StoreInv, StoreTypes
    <1>4. Seen(t) \in Worth!Worths /\ Seen(t)' = Dead
        BY <1>1, <1>2, <1>3 DEF WorthWhenOpen
    <1>5. \A v \in Tokens : v # t => Seen(v)' = Seen(v)
        BY <1>1, <1>2, <1>3, SameWorth
    <1>6. Worth!Revoke(t)
        BY <1>2, <1>4, <1>5 DEF Worth!Revoke, Worth!Live
    <1>7. QED
        BY <1>6 DEF Worth!Next

LEMMA WorthStep == StoreInv /\ StoreInv' /\ [Next]_vars => [Worth!Next]_Worth!vars
    <1> SUFFICES ASSUME StoreInv, StoreInv', [Next]_vars PROVE [Worth!Next]_Worth!vars
        OBVIOUS
    <1>1. CASE UNCHANGED vars \/ Tick
        BY <1>1, UnseenStep DEF vars, Tick, schemaVars
    <1>2. ASSUME NEW c \in Procs,
                 EnsureSupported(c) \/ InitializeSchema(c) \/ BeginUpgrade(c) \/ UpgradeRefused(c)
                     \/ Exit(c)
          PROVE  UNCHANGED Worth!vars
        BY <1>2, UnseenStep DEF EnsureSupported, InitializeSchema, BeginUpgrade,
           UpgradeRefused, Exit, schemaVars
    <1>3. ASSUME NEW c \in Procs, NEW p, NEW o, NEW span, IssueTokenForOrganization(c, p, o, span)
          PROVE  UNCHANGED Worth!vars
        BY <1>3, UnseenStep DEF IssueTokenForOrganization, schemaVars
    <1>4. ASSUME NEW c \in Procs, NEW t, NEW preserved, NEW until,
                 RotateToken(c, t, preserved, until)
          PROVE  UNCHANGED Worth!vars
        BY <1>4, UnseenStep DEF RotateToken, schemaVars
    <1>5. ASSUME NEW c \in Procs, RotationLifetime(c) PROVE UNCHANGED Worth!vars
        BY <1>5, UnseenStep DEF RotationLifetime, schemaVars
    <1>6. ASSUME NEW c \in Procs, Credentials(c) PROVE [Worth!Next]_Worth!vars
        BY <1>3, <1>4, <1>5, <1>6, IssueRefines, RotateRefines, RevokeRefines
           DEF Credentials, IssueToken
    <1>7. QED
        BY <1>1, <1>2, <1>6, UpgradeUnseen, DirectoryRefines DEF Next, Opening

\* Every behaviour of the store is one of TokenWorth: whichever processes upgrade,
\* issue, rotate, revoke, remove and die, each commit moves a secret from one owner or
\* none to one or none at once, and an upgrade changes nothing a caller can see.
THEOREM StoreKeepsWorth == Spec => WorthIsKept
    BY WorthInit, WorthStep, StoreInvariant, PTL DEF Spec, WorthIsKept, Worth!Spec


Resolves(t) == Seen(t) \in Worth!Worths

\* Only a secret that was drawn gives its name to a credential, no two that resolve
\* share one, and each resolves to a member.
ResolvingInv ==
    /\ \A t \in Tokens : Resolves(t) =>
           /\ Seen(Seen(t).credential) # Unminted
           /\ <<Seen(t).org, Seen(t).who>> \in Membership
    /\ \A t, u \in Tokens :
           Resolves(t) /\ Resolves(u) /\ Seen(t).credential = Seen(u).credential => t = u

LEMMA ResolvingInit == Worth!Init => ResolvingInv
    <1> SUFFICES ASSUME Worth!Init PROVE ResolvingInv
        OBVIOUS
    <1>1. ASSUME NEW t \in Tokens, Resolves(t)
          PROVE  /\ Seen(t) # Unminted /\ Seen(t).credential = t
                 /\ <<Seen(t).org, Seen(t).who>> \in Membership
        BY <1>1, Marks DEF Resolves, Worth!Init, Worth!Live
    <1>2. QED
        BY <1>1 DEF ResolvingInv

\* What a step of TokenWorth leaves to each secret.
LEMMA ResolvingStep == ResolvingInv /\ [Worth!Next]_Worth!vars => ResolvingInv'
    <1> SUFFICES ASSUME ResolvingInv, [Worth!Next]_Worth!vars PROVE ResolvingInv'
        OBVIOUS
    <1>1. \A t \in Tokens : Resolves(t) => Seen(t).credential \in Tokens /\ Seen(t) # Unminted
        BY Marks DEF Resolves, Worth!Worths
    <1>2. ASSUME \A t \in Tokens : Seen(t)' = Seen(t), Membership \subseteq Membership'
          PROVE  ResolvingInv'
        BY <1>1, <1>2 DEF ResolvingInv, Resolves
    <1>3. ASSUME NEW o \in Organizations, NEW p \in Principals, Worth!Join(o, p)
          PROVE  ResolvingInv'
        <2>1. Membership \subseteq Membership' /\ \A t \in Tokens : Seen(t)' = Seen(t)
            BY <1>3 DEF Worth!Join
        <2>2. QED
            BY <1>2, <2>1
    <1>4. ASSUME NEW o \in Organizations, NEW p \in Principals, Worth!Leave(o, p)
          PROVE  ResolvingInv'
        <2>1. /\ Membership' = Membership \ {<<o, p>>}
              /\ \A t \in Tokens :
                     Seen(t)' = IF Resolves(t) /\ Seen(t).who = p /\ Seen(t).org = o
                                THEN Dead ELSE Seen(t)
            BY <1>4 DEF Worth!Leave, Worth!Live, Resolves
        <2>2. \A t \in Tokens :
                  /\ Resolves(t)' => Resolves(t) /\ Seen(t)' = Seen(t)
                  /\ Resolves(t)' => ~(Seen(t).who = p /\ Seen(t).org = o)
                  /\ Seen(t)' = Unminted => Seen(t) = Unminted
            BY <2>1, Marks DEF Resolves
        <2>3. QED
            BY <1>1, <2>1, <2>2 DEF ResolvingInv
    <1>5. ASSUME NEW o \in Organizations, NEW p \in Principals, NEW t \in Tokens,
                 Worth!Issue(t, o, p)
          PROVE  ResolvingInv'
        <2>1. PICK until \in Instants :
                  /\ Seen(t)' = [who |-> p, org |-> o, credential |-> t, until |-> until]
                  /\ \A u \in Tokens : u # t => Seen(u)' = Seen(u)
            BY <1>5 DEF Worth!Issue
        <2>2. /\ Seen(t) = Unminted /\ <<o, p>> \in Membership /\ Membership' = Membership
              /\ Resolves(t)'
            BY <1>5, <2>1 DEF Worth!Issue, Resolves, Worth!Worths
        <2>3. /\ Seen(t)'.credential = t /\ Seen(t)'.org = o /\ Seen(t)'.who = p
              /\ Seen(t)' # Unminted
              /\ \A u \in Tokens : u # t => (Resolves(u)' <=> Resolves(u))
            BY <2>1, <2>2, Marks DEF Resolves
        <2>4. \A u \in Tokens : Resolves(u) => Seen(u).credential # t /\ u # t
            BY <1>1, <2>2 DEF ResolvingInv
        <2>5. ASSUME NEW u \in Tokens, Resolves(u)'
              PROVE  /\ Seen(Seen(u).credential)' # Unminted
                     /\ <<Seen(u)'.org, Seen(u)'.who>> \in Membership'
            <3>1. CASE u = t
                BY <2>2, <2>3, <3>1
            <3>2. CASE u # t
                <4>1. Resolves(u) /\ Seen(u)' = Seen(u)
                    BY <2>1, <2>3, <2>5, <3>2
                <4>2. QED
                    BY <1>1, <2>1, <2>2, <2>4, <4>1 DEF ResolvingInv
            <3>3. QED
                BY <3>1, <3>2
        <2>6. ASSUME NEW u \in Tokens, NEW v \in Tokens, Resolves(u)', Resolves(v)', u # v
              PROVE  Seen(u)'.credential # Seen(v)'.credential
            <3>1. /\ u # t => Resolves(u) /\ Seen(u)' = Seen(u)
                  /\ v # t => Resolves(v) /\ Seen(v)' = Seen(v)
                BY <2>1, <2>3, <2>6
            <3>2. QED
                BY <2>3, <2>4, <2>6, <3>1 DEF ResolvingInv
        <2>7. QED
            BY <2>5, <2>6 DEF ResolvingInv
    <1>6. ASSUME NEW t \in Tokens, Worth!Revoke(t) PROVE ResolvingInv'
        <2>1. /\ Seen(t)' = Dead /\ \A u \in Tokens : u # t => Seen(u)' = Seen(u)
              /\ Membership' = Membership
            BY <1>6 DEF Worth!Revoke
        <2>2. QED
            BY <1>1, <2>1, Marks DEF ResolvingInv, Resolves
    <1>7. ASSUME NEW t \in Tokens, NEW u \in Tokens, Worth!Exchange(t, u) PROVE ResolvingInv'
        <2>1. PICK until \in Instants :
                  /\ Seen(t)' = Dead /\ Seen(u)' = [Seen(t) EXCEPT !.until = until]
                  /\ \A v \in Tokens : v # t /\ v # u => Seen(v)' = Seen(v)
            BY <1>1, <1>7, Marks DEF Worth!Exchange, Worth!Live, Resolves
        <2>2. Resolves(t) /\ Seen(u) = Unminted /\ Membership' = Membership
            BY <1>7 DEF Worth!Exchange, Worth!Live, Resolves
        <2>3. /\ Resolves(u)' /\ Seen(u)'.credential = Seen(t).credential
              /\ Seen(u)'.org = Seen(t).org /\ Seen(u)'.who = Seen(t).who
            BY <2>1, <2>2 DEF Resolves, Worth!Worths
        <2>4. ~Resolves(t)' /\ Seen(u)' # Unminted
            BY <2>1, <2>3, Marks DEF Resolves
        <2>5. \A v \in Tokens : Seen(v)' = Unminted => Seen(v) = Unminted
            BY <2>1, <2>4, Marks
        <2>6. \A v \in Tokens : v # t /\ v # u => (Resolves(v)' <=> Resolves(v))
            BY <2>1 DEF Resolves
        <2>7. Seen(Seen(t).credential) # Unminted
              /\ <<Seen(t).org, Seen(t).who>> \in Membership
            BY <2>2 DEF ResolvingInv
        <2>8. ASSUME NEW v \in Tokens, Resolves(v)'
              PROVE  /\ Seen(Seen(v).credential)' # Unminted
                     /\ <<Seen(v)'.org, Seen(v)'.who>> \in Membership'
            <3>1. CASE v = u
                BY <1>1, <2>2, <2>3, <2>5, <2>7, <3>1
            <3>2. CASE v # u
                <4>1. v # t /\ Resolves(v) /\ Seen(v)' = Seen(v)
                    BY <2>1, <2>4, <2>6, <2>8, <3>2
                <4>2. QED
                    BY <1>1, <2>2, <2>5, <4>1 DEF ResolvingInv
            <3>3. QED
                BY <3>1, <3>2
        <2>9. ASSUME NEW v \in Tokens, NEW w \in Tokens, Resolves(v)', Resolves(w)', v # w
              PROVE  Seen(v)'.credential # Seen(w)'.credential
            <3>1. v # t /\ w # t
                BY <2>4, <2>9
            <3>2. /\ v # u => Resolves(v) /\ Seen(v)' = Seen(v)
                  /\ w # u => Resolves(w) /\ Seen(w)' = Seen(w)
                BY <2>1, <2>6, <2>9, <3>1
            <3>3. QED
                BY <2>2, <2>3, <2>9, <3>1, <3>2 DEF ResolvingInv
        <2>10. QED
            BY <2>8, <2>9 DEF ResolvingInv
    <1>8. CASE UNCHANGED Worth!vars
        <2>1. Membership \subseteq Membership' /\ \A t \in Tokens : Seen(t)' = Seen(t)
            BY <1>8 DEF Worth!vars
        <2>2. QED
            BY <1>2, <2>1
    <1>9. QED
        BY <1>3, <1>4, <1>5, <1>6, <1>7, <1>8 DEF Worth!Next

\* What follows for the store: at no instant do two secrets of one credential resolve,
\* whichever processes rotate, and nobody resolves to an organization it has left.
THEOREM OneSecretResolves ==
    Spec => [](Worth!OneSecretPerCredential /\ Worth!OnlyMembersAreLive)
    <1>1. Worth!Spec => []ResolvingInv
        BY ResolvingInit, ResolvingStep, PTL DEF Worth!Spec
    <1>2. ResolvingInv => Worth!OneSecretPerCredential /\ Worth!OnlyMembersAreLive
        BY DEF ResolvingInv, Resolves, Worth!OneSecretPerCredential, Worth!OnlyMembersAreLive,
               Worth!Live
    <1>3. QED
        BY <1>1, <1>2, StoreKeepsWorth, PTL DEF WorthIsKept
=============================================================================
