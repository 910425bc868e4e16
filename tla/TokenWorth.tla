----------------------------- MODULE TokenWorth -----------------------------
(***************************************************************************)
(* What the identity store promises its callers, with neither tables nor   *)
(* transactions: what each secret resolves to, and how that may change.    *)
(* A credential is what an issuance creates and a rotation carries on; it  *)
(* is named after the first secret it had.                                 *)
(***************************************************************************)
CONSTANTS
    Tokens,         \* every secret that is ever handed out
    Principals,
    Organizations,
    Instants,       \* the instants an expiry may name, "never" included
    Unminted, Dead  \* a secret not yet drawn; one that resolves to nothing

VARIABLES
    worth,          \* what each secret resolves to, if anything
    members         \* <<organization, principal>>

vars == <<worth, members>>

Worths == [who : Principals, org : Organizations, credential : Tokens, until : Instants]

Live(t) == worth[t] \in Worths

\* A secret that resolves to somebody is neither of the two.
MarksDiffer == Unminted # Dead /\ Unminted \notin Worths /\ Dead \notin Worths

\* Credentials that are there already each have a secret of their own.
Init ==
    /\ members \subseteq Organizations \X Principals
    /\ DOMAIN worth = Tokens
    /\ \A t \in Tokens :
           \/ worth[t] \in {Unminted, Dead}
           \/ Live(t) /\ worth[t].credential = t /\ <<worth[t].org, worth[t].who>> \in members

Join(o, p) ==
    /\ members' = members \cup {<<o, p>>}
    /\ UNCHANGED worth

\* Access ends for every secret scoped to the membership, in the same instant.
Leave(o, p) ==
    /\ members' = members \ {<<o, p>>}
    /\ worth' = [t \in Tokens |-> IF Live(t) /\ worth[t].who = p /\ worth[t].org = o
                                  THEN Dead ELSE worth[t]]

Issue(t, o, p) ==
    /\ worth[t] = Unminted
    /\ <<o, p>> \in members
    /\ \E until \in Instants :
           worth' = [worth EXCEPT ![t] = [who |-> p, org |-> o, credential |-> t, until |-> until]]
    /\ UNCHANGED members

\* "no instant at which both secrets are live and none at which neither is"
\* (lib.rs:579-580): the same principal, organization and credential pass from
\* one secret to the other in one step.
Exchange(t, u) ==
    /\ Live(t) /\ worth[u] = Unminted
    /\ \E until \in Instants :
           worth' = [worth EXCEPT ![t] = Dead, ![u] = [worth[t] EXCEPT !.until = until]]
    /\ UNCHANGED members

Revoke(t) ==
    /\ Live(t)
    /\ worth' = [worth EXCEPT ![t] = Dead]
    /\ UNCHANGED members

Next ==
    \/ \E o \in Organizations, p \in Principals :
           Join(o, p) \/ Leave(o, p) \/ \E t \in Tokens : Issue(t, o, p)
    \/ \E t \in Tokens : Revoke(t) \/ \E u \in Tokens : Exchange(t, u)

Spec == Init /\ [][Next]_vars

\* A credential never has two secrets at once.
OneSecretPerCredential ==
    \A t, u \in Tokens : Live(t) /\ Live(u) /\ worth[t].credential = worth[u].credential => t = u

\* Whoever a live secret stands for is a member of the organization it names.
OnlyMembersAreLive == \A t \in Tokens : Live(t) => <<worth[t].org, worth[t].who>> \in members
=============================================================================
