------------------------------ MODULE Serving ------------------------------
(***************************************************************************)
(* Replicas and the gateway in front of them.  A replica process           *)
(* (server/src/main.rs, server/src/lib.rs, server/src/attribution.rs) is   *)
(* launched, scans its environment, sizes its pool, hashes its model,      *)
(* loads it by path, checks the file again and serves; it may die at any   *)
(* point and be launched otherwise.  Meanwhile files are moved on disk,    *)
(* away and back, and rewritten in place.                                  *)
(* The gateway verifies its catalog against the replicas, listens, and     *)
(* routes requests for as long as it runs; clients also reach replicas     *)
(* directly.                                                               *)
(***************************************************************************)
EXTENDS ModelCatalog, LaneAdmission, TLC

CONSTANTS Replicas,        \* replica processes, each at an origin of its own
          OriginOf,        \* the origin a replica listens at
          HostOf,          \* its machine: [summary, cores]
          Configurations,  \* the command lines and environments of replicas
          GatewayArgs,     \* the command lines of the gateway
          InitialDisk,     \* the file at each path
          SpareFiles,      \* files a deployment may move to a path
          WritablePaths,   \* paths that are on no read-only mount
          MaxChanges,      \* how often the files at them change
          Requests,        \* what clients ask
          NoReplica, NoRecord, NoExchange, NoConfiguration, NotSet

ASSUME ServingAssumption ==
    /\ \A r, s \in Replicas : OriginOf[r] = OriginOf[s] => r = s
    /\ NoReplica \notin Replicas

\* The files there are at first, and what files may contain.  Contents are known by
\* their digest; an inode may come to have others.
Files    == {InitialDisk[path] : path \in DOMAIN InitialDisk} \cup SpareFiles
Contents == {file.content : file \in Files}
ASSUME DiskAssumption ==
    /\ WritablePaths \subseteq DOMAIN InitialDisk /\ MaxChanges \in Nat
    /\ \A c, d \in Contents : c.digest = d.digest => c = d

\* What a build permits of its namespace is under the part of it the engine does not
\* read (lane.rs:245-250).
ASSUME ConfigurationAssumption ==
    \A c \in Configurations :
        /\ c.requested.canonical \in DOMAIN InitialDisk
        /\ c.build \in Builds
        /\ \A rule \in ToSet(c.build.permitted) :
              IsPrefix(<<"CAMELID", "ENTERPRISE">>, rule.literal)

ASSUME RequestAssumption == Requests \subseteq HttpRequests

VARIABLES disk,       \* the file at each canonical path: [inode, content]
          spare,      \* files at no path a replica is given
          changes,    \* how often a file at a path has changed
          phase,      \* where each replica process is
          conf,       \* its command line
          env,        \* its environment: set variables to values
          width,      \* the resolved width of its worker pool
          identity,   \* its ModelIdentity: [digest, fingerprint]
          loaded,     \* the contents it has read, metadata first, then tensors
          model,      \* its ServedModel
          gateway,    \* [phase, args, unchecked]: origins it has yet to ask
          verified,   \* replicas that have served since they were asked (history)
          witness,    \* one of the processes that have served, or none yet (history)
          disturbed,  \* processes whose path got, since they opened it to hash it and
                      \* until they had loaded it, a file with the same fingerprint (history)
          exchange    \* the last request and all that was read and answered

diskVars    == <<disk, spare, changes>>
replicaVars == <<phase, conf, env, width, identity, loaded, model>>
historyVars == <<verified, witness, disturbed>>
vars == <<diskVars, replicaVars, gateway, historyVars, exchange>>
-----------------------------------------------------------------------------
(* One replica process *)

NoIdentity == [digest |-> "none", fingerprint |-> <<0, 0>>]
NoServed   == [id |-> "", template |-> "none", startsWithBos |-> FALSE, aliases |-> {}]
Path(r)    == conf[r].requested.canonical

\* FileFingerprint::of, on unix: device and inode, and the length.
FileFingerprint(file) == <<file.inode, file.content.len>>

Record_WithoutWorkers(r) ==
    [lane |-> "deterministic",
     config |-> ComputeConfig(conf[r].build), admission |-> ComputeAdmission(conf[r].build),
     posture |-> conf[r].build.posture, engine |-> EngineDigest(conf[r].build),
     model |-> identity[r].digest, host |-> HostOf[r].summary, workers |-> 0]

\* What the response headers, the body and the receipt say of the process.
Record(r) ==
    [lane |-> "deterministic",
     config |-> ComputeConfig(conf[r].build), admission |-> ComputeAdmission(conf[r].build),
     posture |-> conf[r].build.posture, engine |-> EngineDigest(conf[r].build),
     model |-> identity[r].digest, host |-> HostOf[r].summary, workers |-> width[r]]

Down(r) ==
    /\ phase' = [phase EXCEPT ![r] = "down"]
    /\ conf' = [conf EXCEPT ![r] = NoConfiguration]
    /\ env' = [env EXCEPT ![r] = <<>>]
    /\ width' = [width EXCEPT ![r] = 0]
    /\ identity' = [identity EXCEPT ![r] = NoIdentity]
    /\ loaded' = [loaded EXCEPT ![r] = <<>>]
    /\ model' = [model EXCEPT ![r] = NoServed]
    /\ verified' = verified \ {r} /\ disturbed' = disturbed \ {r}
    /\ UNCHANGED <<diskVars, gateway, witness>>

\* clap's --threads: the flag, else the variable.
Threads(c) ==
    IF c.threads # NotSet THEN c.threads
    ELSE IF THREADS \in DOMAIN c.env THEN c.env[THREADS] ELSE NotSet

\* resolve_worker_pool: without a number the pool has its library's default, which
\* RAYON_NUM_THREADS would move.
ResolveWorkerPool(r, c) ==
    IF Threads(c) # NotSet THEN Threads(c)
    ELSE IF RAYON_NUM_THREADS \in DOMAIN c.env THEN c.env[RAYON_NUM_THREADS]
    ELSE HostOf[r].cores

\* What a process may publish of itself, which "no record" is not.
Records ==
    [lane : {"deterministic"},
     config : {ComputeConfig(c.build) : c \in Configurations},
     admission : {ComputeAdmission(c.build) : c \in Configurations},
     posture : STRING, engine : STRING, model : {content.digest : content \in Contents},
     host : {HostOf[r].summary : r \in Replicas},
     workers : {ResolveWorkerPool(r, c) : r \in Replicas, c \in Configurations}]
ASSUME RecordAssumption == NoRecord \notin Records

\* apply_deterministic: the scan is of the operator's environment; the lane writes after.
Applied_WritesFirst(c) ==
    [refused |-> Offenders(c.build, c.env) \ CanonicalNames # {},
     env |-> [name \in DOMAIN WithCanonical(c.env) |->
                IF name \in DOMAIN c.env THEN c.env[name] ELSE WithCanonical(c.env)[name]]]
ApplyDeterministic(c) ==
    [refused |-> Offenders(c.build, c.env) # {}, env |-> WithCanonical(c.env)]

\* serve, up to the model: the lane, the environment, the pool and the slots, in which
\* the process touches nothing but itself.  Zero threads or slots are refused; a refused
\* process ends, which is no step.
Start(r) == \E c \in Configurations :
    /\ phase[r] = "down" /\ c.lane = "deterministic"
    /\ ~ApplyDeterministic(c).refused
    /\ Threads(c) # 0 /\ c.slots # 0
    /\ phase' = [phase EXCEPT ![r] = "started"]
    /\ conf' = [conf EXCEPT ![r] = c]
    /\ env' = [env EXCEPT ![r] = ApplyDeterministic(c).env]
    /\ width' = [width EXCEPT ![r] = ResolveWorkerPool(r, c)]
    /\ UNCHANGED <<identity, loaded, model, diskVars, gateway, historyVars>>

\* ModelIdentity::of_file, at its open: the one handle gives the fingerprint and the bytes,
\* so what moves on disk while they are hashed is another file.  A file that is written
\* over meanwhile makes the process a disturbed one, whose digest nothing below asks for.
Identify(r) ==
    LET file == disk[Path(r)]
    IN  /\ phase[r] = "started"
        /\ identity' = [identity EXCEPT ![r] =
                [digest |-> file.content.digest, fingerprint |-> FileFingerprint(file)]]
        /\ phase' = [phase EXCEPT ![r] = "loading"]
        /\ UNCHANGED <<conf, env, width, loaded, model, diskVars, gateway, historyVars>>

\* LoadedModel::load: the metadata, and then each tensor, opens the path again.
Reads == 2
Read(r) ==
    /\ phase[r] = "loading" /\ Len(loaded[r]) < Reads
    /\ loaded' = [loaded EXCEPT ![r] = Append(@, disk[Path(r)].content)]
    /\ UNCHANGED <<phase, conf, env, width, identity, model, diskVars, gateway, historyVars>>

\* What its tokens are made from, beside the prompt.
Evidence(r, served) ==
    [record |-> Record(r), model |-> served,
     from |-> [contents |-> loaded[r], engine |-> conf[r].build.engine,
               host |-> HostOf[r].summary, workers |-> width[r]],
     refuses |-> [c \in Configurations |-> Offenders(conf[r].build, c.env)]]

ToBeCompared(r) == witness = NoRecord /\ gateway.phase = "down" /\ r \notin disturbed

\* replica_router: the file at the path must still be the one that was hashed.
VerifyUnchanged_Skipped(r) == TRUE
VerifyUnchanged_LengthOnly(r) == disk[Path(r)].content.len = identity[r].fingerprint[2]
VerifyUnchanged(r) == FileFingerprint(disk[Path(r)]) = identity[r].fingerprint
Serve(r) ==
    LET served == ServedModel(loaded[r][1], Path(r), conf[r].requested.path)
    IN  /\ phase[r] = "loading" /\ Len(loaded[r]) = Reads
        /\ IF ~VerifyUnchanged(r) THEN Down(r)
           ELSE /\ phase' = [phase EXCEPT ![r] = "serving"]
                /\ model' = [model EXCEPT ![r] = served]
                /\ witness' \in {witness} \cup IF ToBeCompared(r) THEN {Evidence(r, served)} ELSE {}
                /\ UNCHANGED <<conf, env, width, identity, loaded, diskVars, gateway,
                               verified, disturbed>>

\* A failed load, a stop and a crash end the process alike.
Die(r) == phase[r] # "down" /\ Down(r)
-----------------------------------------------------------------------------
(* The disk, on which nothing is promised to a replica *)

Put(path, file) ==
    /\ changes < MaxChanges /\ changes' = changes + 1
    /\ disk' = [disk EXCEPT ![path] = file]
    /\ disturbed' = disturbed \cup {r \in Replicas :
                          /\ phase[r] = "loading" /\ Path(r) = path
                          /\ FileFingerprint(file) = identity[r].fingerprint}
    /\ UNCHANGED <<replicaVars, gateway, verified, witness>>

\* A file is moved to a path; the one that was there may be moved back.
Move(path) == \E file \in spare :
    /\ Put(path, file)
    /\ spare' = (spare \ {file}) \cup {disk[path]}

\* The file at a path is written over in place, or its inode is given to another.
Rewrite(path) == \E content \in Contents \ {disk[path].content} :
    /\ Put(path, [inode |-> disk[path].inode, content |-> content])
    /\ UNCHANGED spare
-----------------------------------------------------------------------------
(* The gateway process *)

ReplicaAt(origin) == IF \E r \in Replicas : OriginOf[r] = origin
                     THEN CHOOSE r \in Replicas : OriginOf[r] = origin ELSE NoReplica

GatewayDown ==
    /\ gateway' = [gateway EXCEPT !.phase = "down", !.args = NotSet, !.unchecked = {}]
    /\ verified' = {}
    /\ UNCHANGED <<replicaVars, diskVars, witness, disturbed>>

\* serve: what the command line alone decides, before anything is asked or opened.
StartGateway == \E args \in GatewayArgs :
    /\ gateway.phase = "down"
    /\ RoutingParses(args) /\ LimitsAreValid(args)
    /\ gateway' = [phase |-> "verifying", args |-> args,
                   unchecked |-> IF IsCatalogMode(args) THEN Origins(args.routes) ELSE {}]
    /\ UNCHANGED <<replicaVars, diskVars, historyVars>>

\* verify_backend_model_ids, one origin: no answer, or another id, ends the process.
VerifyOrigin == \E origin \in gateway.unchecked :
    LET r == ReplicaAt(origin)
    IN  /\ gateway.phase = "verifying"
        /\ IF /\ r # NoReplica /\ phase[r] = "serving"
              /\ OriginVerifies(gateway.args.routes, origin, model[r])
           THEN /\ gateway' = [gateway EXCEPT !.unchecked = @ \ {origin}]
                /\ verified' = verified \cup {r}
                /\ UNCHANGED <<replicaVars, diskVars, witness, disturbed>>
           ELSE GatewayDown

\* The logs are opened after the catalog is verified and before the listener is bound.
Listen ==
    /\ gateway.phase = "verifying" /\ gateway.unchecked = {}
    /\ IF ~LogsAreDistinct(gateway.args) THEN GatewayDown
       ELSE /\ gateway' = [gateway EXCEPT !.phase = "serving"]
            /\ UNCHANGED <<replicaVars, diskVars, historyVars>>

StopGateway == gateway.phase # "down" /\ GatewayDown
-----------------------------------------------------------------------------
(* One exchange.  What a response says of the process that made it is stamped on *)
(* whatever that process answers, also on what replaces an answer too large to   *)
(* be given its fields.                                                          *)

IsJson(answer) == answer.code \notin {"stream", "preflight", "method", "not_found"}

Attribute_LogsTheInner(r, q, answer, buffered) ==
    LET rewritten == IsGenerationPath(q.path) /\ IsJson(answer)
        final     == IF rewritten /\ ~buffered THEN Answer(500, "attribution") ELSE answer
    IN  [answer |-> final, headers |-> IF final = answer THEN Record(r) ELSE NoRecord,
         body |-> IF rewritten /\ buffered THEN Record(r) ELSE NoRecord,
         receipt |-> [record |-> Record(r), status |-> answer.status]]

Attribute(r, q, answer, buffered) ==
    LET rewritten == IsGenerationPath(q.path) /\ IsJson(answer)
        final     == IF rewritten /\ ~buffered THEN Answer(500, "attribution") ELSE answer
    IN  [answer |-> final, headers |-> Record(r),
         body |-> IF rewritten /\ buffered THEN Record(r) ELSE NoRecord,
         receipt |-> [record |-> Record(r), status |-> final.status]]

\* The pool may refuse what the handlers were about to compute, or fail at it.
PoolAnswers(answer) ==
    IF answer.made = NoTokens THEN {answer}
    ELSE {answer, Answer(503, "engine_queue_full"), Answer(503, "generation_worker_unavailable"),
          Answer(500, "generation_failed")}

ReplicaResponses(r, q) ==
    {Attribute(r, q, answer, buffered) :
        answer \in PoolAnswers(ServeOnlyTheLane(model[r], q)), buffered \in BOOLEAN}

Ask(r) ==
    /\ phase[r] = "serving"
    /\ \E q \in Requests : \E response \in ReplicaResponses(r, q) :
          exchange' = [q |-> q, routed |-> Forward(OriginOf[r], NoModel), catalog |-> FALSE, gateway |-> FALSE,
                       by |-> r, response |-> response]
    /\ UNCHANGED <<diskVars, replicaVars, gateway, historyVars>>

\* The gateway's own answer carries no replica's identity.
Own(answer) == [answer |-> answer, headers |-> NoRecord, body |-> NoRecord,
                receipt |-> [record |-> NoRecord, status |-> 0]]
Unreached == Own(Answer(502, "upstream"))

RouteAndAnswer(q, arrives) ==
    LET routed == ResolveRoute(gateway.args, q, arrives)
        r      == IF routed.kind = "forward" THEN ReplicaAt(routed.origin) ELSE NoReplica
        up     == IF r = NoReplica THEN FALSE ELSE phase[r] = "serving"
    IN  {[q |-> q, routed |-> routed, catalog |-> IsCatalogMode(gateway.args), gateway |-> TRUE,
          by |-> IF up THEN r ELSE NoReplica, response |-> response] :
            response \in CASE routed.kind # "forward" -> {Own(routed.answer)}
                           [] routed.kind = "forward" /\ ~up -> {Unreached}
                           [] routed.kind = "forward" /\ up -> ReplicaResponses(r, q)}

AskGateway ==
    /\ gateway.phase = "serving"
    /\ \E q \in Requests, arrives \in {"whole", "late", "broken"} :
          exchange' \in RouteAndAnswer(q, arrives)
    /\ UNCHANGED <<diskVars, replicaVars, gateway, historyVars>>
-----------------------------------------------------------------------------
ReplicaStep(r) == Start(r) \/ Identify(r) \/ Read(r) \/ Serve(r) \/ Die(r)
GatewayStep == StartGateway \/ VerifyOrigin \/ Listen \/ StopGateway

Init ==
    /\ disk = InitialDisk /\ spare = SpareFiles /\ changes = 0
    /\ phase = [r \in Replicas |-> "down"]
    /\ conf = [r \in Replicas |-> NoConfiguration]
    /\ env = [r \in Replicas |-> <<>>] /\ width = [r \in Replicas |-> 0]
    /\ identity = [r \in Replicas |-> NoIdentity]
    /\ loaded = [r \in Replicas |-> <<>>] /\ model = [r \in Replicas |-> NoServed]
    /\ gateway = [phase |-> "down", args |-> NotSet, unchecked |-> {}]
    /\ verified = {} /\ witness = NoRecord /\ disturbed = {} /\ exchange = NoExchange

\* Clients ask while no replica is on its way, since one that is does not answer, as if
\* it were down; and a replica directly while the gateway is down, which it cannot tell.
Settled == \A r \in Replicas : phase[r] \in {"down", "serving"}
AskDirectly == gateway.phase = "down" /\ \E r \in Replicas : Ask(r)

\* Once there is a witness, the gateway and the clients rest: neither touches a file or
\* a replica, so nothing a process is compared by can come from them.
Next ==
    \/ exchange' = NoExchange /\ ((\E r \in Replicas : ReplicaStep(r))
                                  \/ \E path \in WritablePaths : Move(path) \/ Rewrite(path))
    \/ exchange' = NoExchange /\ witness = NoRecord /\ GatewayStep
    \/ exchange = NoExchange /\ witness = NoRecord /\ Settled /\ (AskGateway \/ AskDirectly)

Spec == Init /\ [][Next]_vars
-----------------------------------------------------------------------------
Serving == {r \in Replicas : phase[r] = "serving"}
Asked == exchange # NoExchange

\* All that decides a response's tokens is in what the response publishes: two processes
\* whose record and model id are equal have read the same contents whole, by the same
\* engine on the same kind of machine at the same width, render a chat the same way, and
\* would have refused the same environments.  Files move to the path, away and back, and
\* are rewritten in place, before, while and after a replica hashes and loads them.  Two
\* things the re-check lets pass, a file that comes back before the load is over and one
\* rewritten in place at the same length; nothing is said of a process to which one of
\* them happened while it hashed or loaded, and nothing else is excepted.
SameIdentitySameTokens ==
    witness # NoRecord =>
        \A r \in Serving \ disturbed :
            LET e == Evidence(r, model[r])
            IN  e.record = witness.record /\ e.model.id = witness.model.id =>
                    /\ e.from = witness.from /\ e.refuses = witness.refuses
                    /\ RenderChatPrompt(e.model) = RenderChatPrompt(witness.model)

\* The gateway's router, the replica's filter and the replica's router read one contract:
\* nothing the gateway forwards is withheld or unknown behind it, and nothing a replica
\* serves is unknown to the gateway.
WhatIsForwardedIsServed ==
    Asked /\ exchange.gateway =>
        /\ exchange.by # NoReplica =>
              exchange.response.answer.code \notin {"route_not_served", "not_found", "method"}
        /\ exchange.routed.kind = "refused" /\ exchange.response.answer.code \in {"not_found", "method"}
              => ~IsServed(exchange.q.method, exchange.q.path)

\* Tokens are only made from the replica's one model, for a body that is one JSON object
\* whose last word on the model is none or a name of that model; behind a catalog the
\* gateway, the filter and the handler have read the same single name in it.
TokensComeFromTheNamedModel ==
    LET made  == exchange.response.answer.made
        body  == exchange.q.body
        mine  == model[exchange.by]
    IN  Asked => (made = NoTokens \/
            /\ exchange.by \in Serving /\ made.model = mine.id
            /\ body.form = "object" /\ body.size = "fits"
            /\ FilterModel(body) \in mine.aliases \cup {Null}
            /\ exchange.catalog =>
                  exchange.routed.model = HandlerModel(body) /\ HandlerModel(body) = FilterModel(body))

\* Whatever a replica answers, and also the error that replaces an answer too large to be
\* given its fields, says in its headers and its receipt which process answered; the
\* receipt has the status the client saw, and a completion without the fields is an error.
EveryResponseIsAttributed ==
    LET response == exchange.response
    IN  Asked =>
            IF exchange.by = NoReplica THEN response.headers = NoRecord
            ELSE /\ {response.headers, response.receipt.record} = {Record(exchange.by)}
                 /\ response.receipt.status = response.answer.status
                 /\ response.body = NoRecord => response.answer.code # "completion"

\* A catalog id the gateway verified is one its replica answers to for as long as that
\* process lives, whatever other ids its origin was given.
VerifiedRoutesAnswer ==
    Asked /\ exchange.catalog /\ exchange.by \in verified =>
        exchange.response.answer.code \notin {"model_not_served", "model_not_found"}

\* A process that got past its scan has the lane's vector with the lane's values, none
\* of it from its operator, and nothing else of the namespace that it does not permit.
EnvironmentIsTheLanes ==
    \A r \in Replicas : phase[r] # "down" =>
        /\ \A row \in ToSet(CANONICAL) :
              env[r][row.name] = row.value /\ row.name \notin DOMAIN conf[r].env
        /\ \A name \in DOMAIN env[r] \ CanonicalNames :
              InNamespace(conf[r].build, name) => PermittedBy(conf[r].build.permitted, name)
=============================================================================
