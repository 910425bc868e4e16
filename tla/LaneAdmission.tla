--------------------------- MODULE LaneAdmission ---------------------------
(***************************************************************************)
(* What a deterministic-lane process lets into its environment, and the    *)
(* identities it publishes of what it is and of what it would refuse       *)
(* (src/crates/server/src/lane.rs).  The name of a variable is the         *)
(* sequence of its words: CAMELID_ROPE_PAIRING is                          *)
(* <<"CAMELID", "ROPE", "PAIRING">>.  What a build compiles in is a record *)
(* so that builds can be compared by what they publish.                    *)
(***************************************************************************)
EXTENDS Naturals, Sequences, SequencesExt

NAMESPACE == <<"CAMELID">>
EXECUTION_POSTURE == "cpu"

\* One row of a build's PERMITTED: an exact name, or every name under one.
Exact(name)  == [tag |-> "permit_exact", literal |-> name]
Prefix(name) == [tag |-> "permit_prefix", literal |-> name]

Mine(word) == <<"CAMELID", "ENTERPRISE", word>>
MODEL == Mine("MODEL")
THREADS == Mine("THREADS")
MAX_CONCURRENCY == <<"CAMELID", "ENTERPRISE", "MAX", "CONCURRENCY">>

PERMITTED ==
    <<Exact(MODEL), Exact(Mine("ADDR")), Exact(THREADS), Exact(MAX_CONCURRENCY),
      Exact(<<"CAMELID", "ENTERPRISE", "TEST", "MODEL">>)>>

RAYON_NUM_THREADS == <<"RAYON", "NUM", "THREADS">>
REFUSED_FOREIGN ==
    <<<<"VECLIB", "MAXIMUM", "THREADS">>, RAYON_NUM_THREADS,
      <<"RAYON", "RS", "NUM", "CPUS">>>>

\* The vector the lane writes, by the one flag and one of the "false" levers.
CANONICAL ==
    <<[name |-> <<"CAMELID", "DETERMINISTIC">>, value |-> "1"],
      [name |-> <<"CAMELID", "METAL", "Q8">>, value |-> "false"]>>

Rules == [tag : {"permit_exact", "permit_prefix"}, literal : Seq(STRING)]
Builds ==
    [permitted : Seq(Rules), foreign : Seq(Seq(STRING)), namespace : {NAMESPACE},
     posture : STRING, enginePin : STRING, engine : STRING]

\* This build: its policy, its engine's sources and the oracle it is checked
\* against, as the compiler saw them.
ThisBuild(engine) ==
    [permitted |-> PERMITTED, foreign |-> REFUSED_FOREIGN, namespace |-> NAMESPACE,
     posture |-> EXECUTION_POSTURE, enginePin |-> "oracle", engine |-> engine]
-----------------------------------------------------------------------------
NameStartsWith(name, rule) == IsPrefix(rule, name)

Matches(rule, name) ==
    IF rule.tag = "permit_exact" THEN rule.literal = name
                                 ELSE NameStartsWith(name, rule.literal)

PermittedBy(rules, name) == \E permit \in ToSet(rules) : Matches(permit, name)
InNamespace(build, name) == NameStartsWith(name, build.namespace)

\* refused: deny by default inside the namespace, a short list outside it.
Refused(build, name) ==
    \/ InNamespace(build, name) /\ ~PermittedBy(build.permitted, name)
    \/ name \in ToSet(build.foreign)

\* refuse_unpermitted: the names, whatever their values; an environment maps the
\* variables that are set to their values.
Offenders(build, env) == {name \in DOMAIN env : Refused(build, name)}

\* apply_deterministic: the lane's own vector over what was admitted.
CanonicalNames == {row.name : row \in ToSet(CANONICAL)}
WithCanonical(env) ==
    [name \in DOMAIN env \cup CanonicalNames |->
        IF name \in CanonicalNames
            THEN (CHOOSE row \in ToSet(CANONICAL) : row.name = name).value
            ELSE env[name]]

\* The digests are their preimages: equal digests are equal texts.
ComputeConfig(build) ==
    <<<<"posture", build.posture>>, <<"engine_pin", build.enginePin>>>>
ComputeAdmission(build) ==
    [i \in 1..Len(build.permitted) |-> <<build.permitted[i].tag, build.permitted[i].literal>>]
    \o [i \in 1..Len(build.foreign) |-> <<"refuse_foreign", build.foreign[i]>>]
    \o <<<<"namespace", build.namespace>>>>

\* build.rs: sorted sources, so the digest does not depend on the directory's order.
EngineDigest(build) == build.engine
=============================================================================
