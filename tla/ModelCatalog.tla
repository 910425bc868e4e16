---------------------------- MODULE ModelCatalog ----------------------------
(***************************************************************************)
(* Where the gateway sends one request: how its command line chooses       *)
(* between one upstream and a catalog (gateway/src/main.rs), what a        *)
(* catalog may contain, how it is checked against the replicas before the  *)
(* gateway listens, and how a request's own body selects an entry          *)
(* (gateway/src/lib.rs).  An origin is [scheme, host, path]; a route of    *)
(* the command line pairs a model id with an origin; a routing is          *)
(* [upstream, routes], where a passthrough has no routes.                  *)
(***************************************************************************)
EXTENDS ReplicaSurface, FiniteSets

CONSTANTS NoOrigin,    \* --upstream was not given
          NoModel,     \* a request that names no model
          USIZE_MAX    \* the largest size the gateway can compute with

Refusal(status, code) == [kind |-> "refused", answer |-> Answer(status, code)]
Local(code)           == [kind |-> "local", answer |-> Answer(200, code)]
Forward(origin, id)   == [kind |-> "forward", origin |-> origin, model |-> id]
-----------------------------------------------------------------------------
(* The command line *)

\* UpstreamOrigin::parse: an http origin and nothing after it.
OriginParses(origin) == origin.scheme = "http" /\ origin.host # "" /\ origin.path = ""

\* ModelCatalog::new: not empty, no empty id, no id twice.
IsCatalog(routes) ==
    /\ routes # <<>>
    /\ \A i \in DOMAIN routes : routes[i].id # ""
    /\ \A i, j \in DOMAIN routes : routes[i].id = routes[j].id => i = j

\* parse_serve_routing: exactly one of the two modes.
RoutingParses(args) ==
    \/ args.upstream # NoOrigin /\ args.routes = <<>> /\ OriginParses(args.upstream)
    \/ /\ args.upstream = NoOrigin /\ IsCatalog(args.routes)
       /\ \A i \in DOMAIN args.routes : OriginParses(args.routes[i].origin)

IsCatalogMode(args) == args.upstream = NoOrigin

\* ModelSelectionLimits::new: a slot reserves the body and the decoded model id; 0 when
\* the limits are refused.
MaxConcurrentSelections(maxBody, budget) ==
    LET reservation == 2 * maxBody
    IN  IF reservation > USIZE_MAX \/ budget < reservation THEN 0 ELSE budget \div reservation

\* serve: the limits are only made for a catalog.
LimitsAreValid(args) ==
    IsCatalogMode(args) => MaxConcurrentSelections(args.maxBody, args.budget) > 0

\* open_gateway_logs: two sinks that are one file are refused.
LogsAreDistinct(args) == args.audit = "none" \/ args.usage = "none" \/ args.audit # args.usage
-----------------------------------------------------------------------------
(* Verification: every origin is asked once, for all the ids routed to it *)

Origins(routes) == {routes[i].origin : i \in DOMAIN routes}
IdsAt(routes, origin) == {routes[i].id : i \in {j \in DOMAIN routes : routes[j].origin = origin}}

Discovery == [method |-> "GET", path |-> <<"v1", "models">>, type |-> "none",
              body |-> [size |-> "fits", form |-> "broken", models |-> <<>>, extra |-> FALSE,
                        input |-> "absent", hot |-> FALSE, stream |-> FALSE, long |-> FALSE]]

\* A replica advertises the one id it answers from.
OriginVerifies_OneIsEnough(routes, origin, model) ==
    /\ ServeOnlyTheLane(model, Discovery) = Answer(200, "models")
    /\ model.id \in IdsAt(routes, origin)
OriginVerifies(routes, origin, model) ==
    /\ ServeOnlyTheLane(model, Discovery) = Answer(200, "models")
    /\ IdsAt(routes, origin) \subseteq {model.id}
-----------------------------------------------------------------------------
(* One request *)

\* The router: the contract's routes and methods, and axum's own answers around them.
GatewayAsks(q) == IF q.method = "HEAD" THEN "GET" ELSE q.method

\* ModelSelection: one whole JSON object, its model a string or null, at most once.
SelectionIsReadable_LastWins(body) ==
    body.form = "object" /\ Number \notin ToSet(body.models)
SelectionIsReadable(body) ==
    body.form = "object" /\ Len(body.models) <= 1 /\ Number \notin ToSet(body.models)

SelectedModel(body) ==
    IF body.models = <<>> \/ Last(body.models) \in {Null, ""} THEN NoModel ELSE Last(body.models)

\* select_catalog_upstream: the head is judged before the body is read; the body is
\* forwarded as it came.  `arrives' is what reading it ends in.
SelectCatalogUpstream(routes, q, arrives) ==
    LET id     == SelectedModel(q.body)
        chosen == {i \in DOMAIN routes : routes[i].id = id}
    IN  FirstFailure(
            <<<<q.type # "json", Refusal(415, "unsupported_media_type")>>,
              <<q.body.size = "over", Refusal(413, "request_too_large")>>,
              <<arrives = "broken", Refusal(400, "unreadable_request_body")>>,
              <<arrives = "late", Refusal(408, "request_body_timeout")>>,
              <<~SelectionIsReadable(q.body), Refusal(400, "malformed_json")>>,
              <<id = NoModel, Refusal(400, "model_required")>>,
              <<chosen = {}, Refusal(404, "model_not_found")>>>>,
            LET i == CHOOSE j \in chosen : TRUE IN Forward(routes[i].origin, id))

\* resolve_route, behind the router.
Resolve(args, q, arrives) ==
    LET isRead == q.method \in {"GET", "HEAD"}
        ids    == {args.routes[i].id : i \in DOMAIN args.routes}
    IN  IF ~IsCatalogMode(args) THEN Forward(args.upstream, NoModel)
        ELSE IF isRead /\ q.path = <<"v1", "models">> THEN Local("models")
        ELSE IF isRead /\ Len(q.path) = 3
        THEN IF q.path[3] \in ids THEN Local("model") ELSE Refusal(404, "model_not_found")
        ELSE IF q.method = "POST" /\ q.path \in GenerationPaths
        THEN SelectCatalogUpstream(args.routes, q, arrives)
        ELSE Refusal(501, "model_routing_unsupported")

ResolveRoute(args, q, arrives) ==
    LET routes == RegisteredAt(q.path)
    IN  FirstFailure(
            <<<<q.method = "OPTIONS", Local("preflight")>>,
              <<q.path = <<"healthz">>,
                IF q.method \in {"GET", "HEAD"} THEN Local("alive") ELSE Refusal(405, "method")>>,
              <<routes = {}, Refusal(404, "not_found")>>,
              <<\A route \in routes : GatewayAsks(q) \notin route.methods, Refusal(405, "method")>>>>,
            Resolve(args, q, arrives))
=============================================================================
