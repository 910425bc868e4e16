--------------------------- MODULE ReplicaSurface ---------------------------
(***************************************************************************)
(* What one replica answers to one request: the public route contract      *)
(* (replica-contract), the route filter and the body filter in front of    *)
(* the handlers (server/src/surface.rs) and the in-tree handlers           *)
(* themselves (server/src/in_tree.rs).                                     *)
(*                                                                         *)
(* A request is [method, path, type, body]; a path is its segments and the *)
(* type is "json" or "text".  A body is                                    *)
(*   size    what it measures against the ceilings, "fits" or "over";      *)
(*   form    "object", an object with bytes after it ("trailing"), a JSON  *)
(*           array of the fields ("sequence"), or no JSON at all           *)
(*           ("broken");                                                   *)
(*   models  the values of its "model" members in order: names, Null, or   *)
(*           Number for a value that is neither;                           *)
(*   extra   whether it has a field the handlers do not know;              *)
(*   input   what it asks: "absent", "empty", "badrole" or "fine";         *)
(*   hot     whether its temperature is other than 0;                      *)
(*   stream  whether it asks for a stream;                                 *)
(*   long    whether prompt and max_tokens exceed the context.             *)
(***************************************************************************)
EXTENDS Naturals, Sequences, SequencesExt

CONSTANTS Null,         \* a JSON null where a model's name may stand
          Number,       \* a JSON value there that is neither a string nor null
          NoTokens,     \* the response carries no generated tokens
          ExactRowIds   \* the model ids that name one of the exact Llama 3.2 rows

Bodies ==
    [size : {"fits", "over"}, form : {"object", "trailing", "sequence", "broken"},
     models : Seq(STRING \cup {Null, Number}), extra : BOOLEAN,
     input : {"absent", "empty", "badrole", "fine"},
     hot : BOOLEAN, stream : BOOLEAN, long : BOOLEAN]
HttpRequests == [method : STRING, path : Seq(STRING), type : STRING, body : Bodies]

Answer(status, code) == [status |-> status, code |-> code, made |-> NoTokens]

\* The first check that fails decides; `checks' pairs a failure with its answer.
FirstFailure(checks, otherwise) ==
    LET failing == {i \in DOMAIN checks : checks[i][1]}
    IN  IF failing = {} THEN otherwise
        ELSE checks[CHOOSE i \in failing : \A j \in failing : i <= j][2]
-----------------------------------------------------------------------------
(* The contract *)

Param == ":model"
Route(path, method, surface) ==
    [path |-> <<"v1">> \o path, methods |-> {method}, surface |-> surface]

GenerationPaths == {<<"v1", "completions">>, <<"v1", "chat", "completions">>}

PUBLIC_ROUTES ==
    {Route(p, "GET", "inference") : p \in {<<"health">>, <<"models">>, <<"models", Param>>}}
    \cup {Route(p, "POST", "inference") : p \in {<<"completions">>, <<"chat", "completions">>}}
    \cup {Route(<<p>>, "POST", "compatibility") :
            p \in {"embeddings", "responses", "messages", "rerank", "reranking"}}

\* path_matches: segment by segment, a parameter being one non-empty segment.
SegmentMatches(pattern, path, i) ==
    IF pattern[i] = Param THEN path[i] # "" ELSE pattern[i] = path[i]
PathMatches_PathOnly(pattern, path) ==
    Len(pattern) = Len(path) /\ \A i \in DOMAIN pattern : pattern[i] = path[i]
PathMatches(pattern, path) ==
    Len(pattern) = Len(path) /\ \A i \in DOMAIN pattern : SegmentMatches(pattern, path, i)

\* What axum's router finds registered at a path, in the gateway and in the replica.
RegisteredAt(path) ==
    {route \in PUBLIC_ROUTES :
        /\ Len(route.path) = Len(path)
        /\ \A i \in DOMAIN path : route.path[i] \in {path[i], IF path[i] = "" THEN "" ELSE Param}}

MethodIsAdmitted_AsDeclared(route, method) == method \in route.methods
MethodIsAdmitted(route, method) ==
    \/ method \in route.methods \cup {"OPTIONS"}
    \/ method = "HEAD" /\ "GET" \in route.methods

IsServed(method, path) ==
    \E route \in PUBLIC_ROUTES : PathMatches(route.path, path) /\ MethodIsAdmitted(route, method)

IsGenerationPath(path) == path \in GenerationPaths
-----------------------------------------------------------------------------
(* The one model a replica answers from: its key, what its file's chat        *)
(* template is, and every spelling of the one file                            *)

\* replica_router: general.name when it is a name, else the stem of the file.
ModelId(content, path) == IF content.name # "" THEN content.name ELSE path.stem

Spellings(path) == {path.text, path.name, path.stem}

ServedModel(content, canonical, requested) ==
    LET id == ModelId(content, canonical)
    IN  [id |-> id, template |-> content.template, startsWithBos |-> content.startsWithBos,
         aliases |-> ({id} \cup Spellings(canonical) \cup Spellings(requested)) \ {""}]
-----------------------------------------------------------------------------
(* The handlers *)

\* axum's Json and serde's derived readers: the content type is checked, the first
\* value counts and what follows it does not, a flattened struct takes only an
\* object, and a member at most once.
HandlerRejects(q) ==
    \/ q.type # "json" \/ q.body.form \in {"sequence", "broken"}
    \/ Len(q.body.models) > 1 \/ Number \in ToSet(q.body.models)

HandlerModel(body) == IF body.models = <<>> THEN Null ELSE Head(body.models)

\* render_chat_prompt: the compact Llama 3 renderer unless the id is one of the exact
\* rows, else the file's template; `special' is add_special.
RenderChatPrompt(model) ==
    IF model.template = "llama3" /\ model.id \notin ExactRowIds
        THEN [by |-> "compact", special |-> TRUE]
        ELSE [by |-> "template", special |-> ~model.startsWithBos]
RawPrompt == [by |-> "raw", special |-> TRUE]

\* stream_generation answers before the computation; run_generation waits for it, and
\* validate_generation_request is its first step.
Generate(model, body, prompt) ==
    LET made == [model |-> model.id, prompt |-> prompt]
    IN  IF body.stream THEN [Answer(200, "stream") EXCEPT !.made = made]
        ELSE IF body.long THEN Answer(400, "context_length_exceeded")
        ELSE [Answer(200, "completion") EXCEPT !.made = made]

\* The checks both generation handlers begin with, in their order.
CommonChecks(model, q) ==
    <<<<HandlerRejects(q), Answer(400, "malformed_json")>>,
      <<q.body.extra, Answer(400, "unsupported_parameter")>>,
      <<HandlerModel(q.body) \notin {Null, model.id}, Answer(404, "model_not_found")>>,
      <<q.body.input = "absent", Answer(400, "missing_required_parameter")>>>>
SamplingCheck(q) == <<<<q.body.hot, Answer(400, "unsupported_sampling")>>>>

Completions(model, q) ==
    FirstFailure(CommonChecks(model, q) \o SamplingCheck(q), Generate(model, q.body, RawPrompt))

ChatCompletions(model, q) ==
    FirstFailure(CommonChecks(model, q)
        \o <<<<q.body.input = "empty", Answer(400, "invalid_messages")>>,
             <<q.body.input = "badrole", Answer(400, "unsupported_message_role")>>>>
        \o SamplingCheck(q)
        \o <<<<model.template \in {"none", "failing"}, Answer(422, "unsupported_chat_template")>>>>,
        Generate(model, q.body, RenderChatPrompt(model)))

Model(model, q) ==
    IF q.path[3] = model.id THEN Answer(200, "model") ELSE Answer(404, "model_not_found")

\* in_tree::router: CORS answers OPTIONS on registered paths, axum answers HEAD as GET,
\* another method on a registered path is refused, and nothing else is registered.
InTreeRouter(model, q) ==
    LET routes == RegisteredAt(q.path)
        asked  == IF q.method = "HEAD" THEN "GET" ELSE q.method
    IN  FirstFailure(
            <<<<routes = {}, Answer(404, "not_found")>>,
              <<q.method = "OPTIONS", Answer(200, "preflight")>>,
              <<\A route \in routes : asked \notin route.methods, Answer(405, "method")>>,
              <<\E route \in routes : route.surface = "compatibility", Answer(501, "not_implemented")>>,
              <<q.path = <<"v1", "health">>, Answer(200, "health")>>,
              <<q.path = <<"v1", "models">>, Answer(200, "models")>>>>,
            CASE q.path = <<"v1", "completions">> -> Completions(model, q)
              [] q.path = <<"v1", "chat", "completions">> -> ChatCompletions(model, q)
              [] q.path \notin GenerationPaths -> Model(model, q))
-----------------------------------------------------------------------------
(* The filters, outermost last *)

\* serde_json::Value keeps the last of several members with one name.
FilterModel(body) == IF body.models = <<>> THEN Null ELSE Last(body.models)

PinGeneration_ForwardsUnparsed(model, q) ==
    LET named == FilterModel(q.body)
    IN  IF ~(q.method = "POST" /\ IsGenerationPath(q.path)) \/ q.body.form = "trailing"
        THEN InTreeRouter(model, q)
        ELSE FirstFailure(
            <<<<q.body.size = "over", Answer(413, "request_too_large")>>,
              <<q.body.form # "object", Answer(400, "unparseable_request_body")>>,
              <<named \notin model.aliases \cup {Null}, Answer(404, "model_not_served")>>>>,
            IF named \in {Null, model.id} THEN InTreeRouter(model, q)
            ELSE InTreeRouter(model, [q EXCEPT !.body.models = <<model.id>>]))

\* pin_generation_to_the_served_model: an alias is rewritten to the key, which leaves
\* one member; the key itself and no name travel byte for byte.
PinGeneration(model, q) ==
    LET named == FilterModel(q.body)
    IN  IF ~(q.method = "POST" /\ IsGenerationPath(q.path)) THEN InTreeRouter(model, q)
        ELSE FirstFailure(
            <<<<q.body.size = "over", Answer(413, "request_too_large")>>,
              <<q.body.form # "object", Answer(400, "unparseable_request_body")>>,
              <<named \notin model.aliases \cup {Null}, Answer(404, "model_not_served")>>>>,
            IF named \in {Null, model.id} THEN InTreeRouter(model, q)
            ELSE InTreeRouter(model, [q EXCEPT !.body.models = <<model.id>>]))

ServeOnlyTheLane(model, q) ==
    IF IsServed(q.method, q.path) THEN PinGeneration(model, q)
    ELSE Answer(403, "route_not_served")
=============================================================================
