--------------------------- MODULE IdentityStore ----------------------------
(***************************************************************************)
(* SqliteIdentityStore (identity/src/lib.rs): one SQLite file shared by    *)
(* processes that open it, upgrade its schema, and create, issue, rotate,  *)
(* revoke and remove.                                                      *)
(*                                                                         *)
(* A write transaction takes the write lock before its first read, so what *)
(* it reads still holds when it commits: it is one step, unless it reads   *)
(* the clock more than once. A failed call, SQLITE_BUSY included, changes  *)
(* nothing and is not a step. One connection per process, behind a mutex:  *)
(* a process has one call under way at a time.                             *)
(***************************************************************************)
EXTENDS Integers, FiniteSets

CONSTANTS
    Procs,          \* processes that have the file: serve, the CLI
    Principals,     \* principal ids
    Orgs,           \* ids of organizations made by create_organization
    Tokens,         \* secrets
    MaxSpan,        \* bound on the lifetimes tokens are asked for
    MaxClock,       \* bound on time
    NoOne,          \* nobody holds the write lock
    NoRow,          \* a token that is in no row
    Never,          \* NULL in expires_at_unix
    Unminted, Dead  \* what a secret is worth before it is drawn, and at the end

VARIABLES
    clock,          \* unix_now(); it is not moved backwards here
    schema,         \* user_version and the tables that are there
    users,
    organizations,
    members,        \* organization_memberships, <<organization, principal>>
    tokens,         \* the rows of `tokens` by secret
    minted,         \* secrets that were drawn; none is drawn twice
    lock,           \* the process inside BEGIN IMMEDIATE
    proc            \* each process: where it is and its call

schemaVars == <<schema, users, organizations, members>>
vars == <<clock, schemaVars, tokens, minted, lock, proc>>

IDENTITY_SCHEMA_VERSION == 3

\* The personal organization created with a principal is written as it is.
Organizations == Orgs \cup Principals
NoOrg == "none"

\* NonZeroU64 seconds.
Spans == 1..MaxSpan

Instants == 0..(MaxClock + MaxSpan) \cup {Never}

\* `credential` is not in the row: the secret the credential first had.
Rows == [who : Principals, org : Organizations \cup {NoOrg}, created : 0..MaxClock,
         until : Instants, credential : Tokens]

ASSUME IdentityAssumption ==
    /\ MaxClock \in Nat /\ MaxSpan \in Nat
    /\ NoOne \notin Procs
    /\ NoRow \notin Rows
    /\ Never \notin 0..(MaxClock + MaxSpan)

Schemas ==
    {[version |-> 0, tables |-> "none"], [version |-> 0, tables |-> "legacy"],
     [version |-> 0, tables |-> "strange"], [version |-> 1, tables |-> "legacy"],
     [version |-> 2, tables |-> "v2"], [version |-> 3, tables |-> "v3"],
     [version |-> 3, tables |-> "expiry not null"], [version |-> 4, tables |-> "newer"]}

Idle == [at |-> "closed"]
At(c, place) == proc[c].at = place

TypeOK ==
    /\ clock \in 0..MaxClock
    /\ schema \in Schemas
    /\ users \subseteq Principals /\ organizations \subseteq Organizations
    /\ members \subseteq Organizations \X Principals
    /\ tokens \in [Tokens -> Rows \cup {NoRow}]
    /\ minted \subseteq Tokens
    /\ lock \in Procs \cup {NoOne}
    /\ \A c \in Procs : proc[c].at \in
           {"closed", "checked", "deciding", "upgrading", "refused", "open", "issuing",
            "rotating", "reissued"}

\* What an earlier binary may have left: one user with one token, scoped or not,
\* and in a legacy file perhaps a token whose user is gone.
Left(s) ==
    IF s.tables \in {"legacy", "v2", "strange"} THEN {"user", "token", "orphan"} ELSE {"nothing"}

Init ==
    /\ clock = 0
    /\ schema \in Schemas
    /\ \E left \in Left(schema), p \in Principals, t \in Tokens :
        LET scoped == schema.tables = "v2"
            there == left # "nothing"
        IN  /\ users = IF there /\ left # "orphan" THEN {p} ELSE {}
            /\ organizations = IF scoped THEN users ELSE {}
            /\ members = {<<q, q>> : q \in organizations}
            /\ left = "orphan" => schema.tables = "legacy"
            /\ tokens = [u \in Tokens |->
                   IF u = t /\ left \in {"token", "orphan"}
                   THEN [who |-> p, org |-> IF scoped THEN p ELSE NoOrg, created |-> 0,
                         until |-> Never, credential |-> t]
                   ELSE NoRow]
            /\ minted = IF left \in {"token", "orphan"} THEN {t} ELSE {}
    /\ lock = NoOne
    /\ proc = [c \in Procs |-> Idle]
-----------------------------------------------------------------------------
(* Opening *)

Goto(c, place) == proc' = [proc EXCEPT ![c] = [at |-> place]]

\* The check that comes before the journal mode is touched.
EnsureSupported(c) ==
    /\ At(c, "closed")
    /\ Goto(c, IF schema.version > IDENTITY_SCHEMA_VERSION THEN "refused" ELSE "checked")
    /\ UNCHANGED <<clock, schemaVars, tokens, minted, lock>>

\* initialize_schema before the lock: a current file needs none.
InitializeSchema(c) ==
    /\ At(c, "checked")
    /\ Goto(c, CASE schema.version # IDENTITY_SCHEMA_VERSION -> "deciding"
                 [] schema.tables = "v3" -> "open"
                 [] OTHER -> "refused")
    /\ UNCHANGED <<clock, schemaVars, tokens, minted, lock>>

BeginUpgrade(c) ==
    /\ At(c, "deciding") /\ lock = NoOne
    /\ lock' = c
    /\ Goto(c, "upgrading")
    /\ UNCHANGED <<clock, schemaVars, tokens, minted>>

Orphaned == \E t \in Tokens : tokens[t] # NoRow /\ tokens[t].who \notin users

\* Every legacy principal gets its personal organization, its tokens with it.
\* The column that migrate_v2_to_v3 adds after it is NULL in every row.
MigrateV1toV2 ==
    /\ ~Orphaned
    /\ organizations' = users
    /\ members' = {<<p, p>> : p \in users}
    /\ tokens' = [t \in Tokens |-> IF tokens[t] = NoRow THEN NoRow
                                   ELSE [tokens[t] EXCEPT !.org = tokens[t].who]]

MigrateV2toV3_ExpiresAll ==
    /\ tokens' = [t \in Tokens |-> IF tokens[t] = NoRow THEN NoRow
                                   ELSE [tokens[t] EXCEPT !.until = 0]]
    /\ UNCHANGED <<organizations, members>>

MigrateV2toV3 == UNCHANGED <<organizations, members, tokens>>

\* The version is read again under the lock; the whole chain commits at once.
Upgrade(c) ==
    /\ At(c, "upgrading")
    /\ CASE schema.tables = "legacy" -> MigrateV1toV2
         [] schema.tables = "v2" -> MigrateV2toV3
         [] OTHER -> schema.tables \in {"none", "v3"} /\ UNCHANGED <<organizations, members, tokens>>
    /\ schema' = [version |-> IDENTITY_SCHEMA_VERSION, tables |-> "v3"]
    /\ lock' = NoOne
    /\ Goto(c, "open")
    /\ UNCHANGED <<clock, users, minted>>

\* UnsupportedSchemaVersion or MigrationIntegrity: the transaction is dropped.
UpgradeRefused(c) ==
    /\ At(c, "upgrading")
    /\ \/ schema.tables = "legacy" /\ Orphaned
       \/ schema.tables \in {"strange", "expiry not null", "newer"}
    /\ lock' = NoOne
    /\ Goto(c, "refused")
    /\ UNCHANGED <<clock, schemaVars, tokens, minted>>

\* A process dies, or is done; SQLite rolls back what it had not committed.
Exit(c) ==
    /\ ~At(c, "closed")
    /\ lock' = IF lock = c THEN NoOne ELSE lock
    /\ Goto(c, "closed")
    /\ UNCHANGED <<clock, schemaVars, tokens, minted>>
-----------------------------------------------------------------------------
(* Users and organizations *)

Writes(c) == At(c, "open") /\ lock = NoOne

CreateUser(c, p) ==
    /\ Writes(c) /\ p \notin users
    /\ users' = users \cup {p}
    /\ organizations' = organizations \cup {p}
    /\ members' = members \cup {<<p, p>>}
    /\ UNCHANGED <<clock, schema, tokens, minted, lock, proc>>

CreateOrganization(c, o) ==
    /\ Writes(c) /\ o \notin organizations
    /\ organizations' = organizations \cup {o}
    /\ UNCHANGED <<clock, schema, users, members, tokens, minted, lock, proc>>

CreateUserInOrganization(c, p, o) ==
    /\ Writes(c) /\ p \notin users /\ o \in organizations
    /\ users' = users \cup {p}
    /\ members' = members \cup {<<o, p>>}
    /\ UNCHANGED <<clock, schema, organizations, tokens, minted, lock, proc>>

AddPrincipalToOrganization(c, p, o) ==
    /\ Writes(c) /\ o \in organizations /\ p \in users
    /\ members' = members \cup {<<o, p>>}
    /\ UNCHANGED <<clock, schema, users, organizations, tokens, minted, lock, proc>>

RemovePrincipalFromOrganization_KeepsTokens(c, p, o) ==
    /\ Writes(c) /\ p \in users /\ <<o, p>> \in members
    /\ members' = members \ {<<o, p>>}
    /\ UNCHANGED <<clock, schema, users, organizations, tokens, minted, lock, proc>>

\* ON DELETE CASCADE takes the tokens scoped to the membership with it.
RemovePrincipalFromOrganization(c, p, o) ==
    /\ Writes(c) /\ p \in users /\ <<o, p>> \in members
    /\ members' = members \ {<<o, p>>}
    /\ tokens' = [t \in Tokens |-> IF tokens[t] # NoRow /\ tokens[t].who = p /\ tokens[t].org = o
                                   THEN NoRow ELSE tokens[t]]
    /\ UNCHANGED <<clock, schema, users, organizations, minted, lock, proc>>
-----------------------------------------------------------------------------
(* Tokens *)

\* lookup_credential: the row, if the membership it is scoped to is there.
Found(t) == tokens[t] # NoRow /\ <<tokens[t].org, tokens[t].who>> \in members

StillValid_Inclusive(t) == tokens[t].until # Never => clock <= tokens[t].until

\* The expiry instant is exclusive.
StillValid(t) == tokens[t].until # Never => clock < tokens[t].until

ExpiresIn(span) == IF span = Never THEN Never ELSE clock + span

\* The caller has named the instant of expiry; then it gets the lock.
IssueTokenForOrganization(c, p, o, span) ==
    /\ Writes(c)
    /\ p \in users /\ o \in organizations /\ <<o, p>> \in members
    /\ lock' = c
    /\ proc' = [proc EXCEPT ![c] = [at |-> "issuing", who |-> p, org |-> o, until |-> ExpiresIn(span)]]
    /\ UNCHANGED <<clock, schemaVars, tokens, minted>>

\* Without an organization: the only one there is.
IssueToken(c, p, span) ==
    \E o \in Organizations :
        /\ {m \in members : m[2] = p} = {<<o, p>>}
        /\ IssueTokenForOrganization(c, p, o, span)

\* created_at_unix is a reading of the clock of its own.
IssueTokenInTransaction(c, t) ==
    /\ At(c, "issuing") /\ t \notin minted
    /\ tokens' = [tokens EXCEPT ![t] =
           [who |-> proc[c].who, org |-> proc[c].org, created |-> clock,
            until |-> proc[c].until, credential |-> t]]
    /\ minted' = minted \cup {t}
    /\ lock' = NoOne
    /\ Goto(c, "open")
    /\ UNCHANGED <<clock, schemaVars>>

\* rotate_token under the lock, up to still_valid. A replaced lifetime was turned
\* into an instant by the caller.
RotateToken(c, t, preserved, until) ==
    /\ Writes(c) /\ Found(t) /\ StillValid(t)
    /\ lock' = c
    /\ proc' = [proc EXCEPT ![c] = [at |-> "rotating", token |-> t, preserved |-> preserved,
                                    until |-> until]]
    /\ UNCHANGED <<clock, schemaVars, tokens, minted>>

\* The span of a token that expires: both ends are columns.
Span(t) == tokens[t].until - tokens[t].created

IssuedLifetime_FromExpiry(t) ==
    IF tokens[t].until = Never THEN Never ELSE tokens[t].until + Span(t)

\* The lifetime it was issued with, from now.
IssuedLifetime(t) == IF tokens[t].until = Never THEN Never ELSE clock + Span(t)

RotationLifetime(c) ==
    /\ At(c, "rotating")
    /\ proc' = [proc EXCEPT ![c].at = "reissued",
                            ![c].until = IF proc[c].preserved THEN IssuedLifetime(proc[c].token) ELSE @]
    /\ UNCHANGED <<clock, schemaVars, tokens, minted, lock>>

RotateCommits_KeepsBoth(c, u) ==
    /\ At(c, "reissued") /\ u \notin minted
    /\ tokens' = [tokens EXCEPT ![u] = [tokens[proc[c].token] EXCEPT !.created = clock, !.until = proc[c].until]]
    /\ minted' = minted \cup {u}
    /\ lock' = NoOne
    /\ Goto(c, "open")
    /\ UNCHANGED <<clock, schemaVars>>

\* Insert and delete commit together.
RotateCommits(c, u) ==
    /\ At(c, "reissued") /\ u \notin minted
    /\ LET old == proc[c].token
       IN tokens' = [tokens EXCEPT
              ![u] = [tokens[old] EXCEPT !.created = clock, !.until = proc[c].until],
              ![old] = NoRow]
    /\ minted' = minted \cup {u}
    /\ lock' = NoOne
    /\ Goto(c, "open")
    /\ UNCHANGED <<clock, schemaVars>>

RevokeToken(c, t) ==
    /\ Writes(c) /\ tokens[t] # NoRow
    /\ tokens' = [tokens EXCEPT ![t] = NoRow]
    /\ UNCHANGED <<clock, schemaVars, minted, lock, proc>>
-----------------------------------------------------------------------------
Tick ==
    /\ clock < MaxClock
    /\ clock' = clock + 1
    /\ UNCHANGED <<schemaVars, tokens, minted, lock, proc>>

Opening(c) ==
    EnsureSupported(c) \/ InitializeSchema(c) \/ BeginUpgrade(c) \/ Upgrade(c) \/ UpgradeRefused(c)

Directory(c) ==
    \E p \in Principals, o \in Organizations :
        \/ CreateUser(c, p) \/ (o \in Orgs /\ CreateOrganization(c, o))
        \/ CreateUserInOrganization(c, p, o) \/ AddPrincipalToOrganization(c, p, o)
        \/ RemovePrincipalFromOrganization(c, p, o)

Credentials(c) ==
    \/ \E p \in Principals, span \in Spans \cup {Never} :
           IssueToken(c, p, span) \/ \E o \in Organizations : IssueTokenForOrganization(c, p, o, span)
    \/ \E t \in Tokens : \/ IssueTokenInTransaction(c, t) \/ RotateCommits(c, t) \/ RevokeToken(c, t)
                         \/ RotateToken(c, t, TRUE, Never)
                         \/ \E span \in Spans \cup {Never} : RotateToken(c, t, FALSE, ExpiresIn(span))
    \/ RotationLifetime(c)

Next ==
    \/ Tick
    \/ \E c \in Procs : Opening(c) \/ Directory(c) \/ Credentials(c) \/ Exit(c)

Spec == Init /\ [][Next]_vars
-----------------------------------------------------------------------------
(* Properties *)

Current == schema.tables \in {"v2", "v3", "expiry not null"}

\* What a caller sees of a secret, in whichever schema it is stored: a legacy
\* token stands for its user in the personal organization it is about to get.
Home(row) == IF Current THEN row.org ELSE row.who

Membership == IF Current THEN members ELSE {<<p, p>> : p \in users}

Seen(t) ==
    IF t \notin minted THEN Unminted
    ELSE IF tokens[t] = NoRow \/ <<Home(tokens[t]), tokens[t].who>> \notin Membership THEN Dead
    ELSE [who |-> tokens[t].who, org |-> Home(tokens[t]),
          credential |-> tokens[t].credential, until |-> tokens[t].until]

Worth == INSTANCE TokenWorth WITH
    worth <- [t \in Tokens |-> Seen(t)],
    members <- Membership

ASSUME MarksAreMarks == Worth!MarksDiffer

\* Every commit, upgrade and crash of every process is a step of TokenWorth or
\* none: rotation has no instant with both secrets or neither, a removal ends
\* every token of the membership at once, an upgrade changes no token's worth.
WorthIsKept == Worth!Spec

\* An exchange buys no more than was held: with the lifetime preserved the new
\* secret's span is never longer than the old one's, and an expired secret buys
\* nothing, however long the transaction takes.
RotationNeverExtends ==
    [][\A c \in Procs, u \in Tokens :
           RotateCommits(c, u) /\ proc[c].preserved =>
               LET old == tokens[proc[c].token]
                   new == tokens'[u]
               IN  IF old.until = Never THEN new.until = Never
                   ELSE /\ new.until # Never
                        /\ new.until - new.created <= old.until - old.created
                        /\ old.created < old.until]_vars

=============================================================================
