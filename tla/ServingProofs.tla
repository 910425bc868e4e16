---------------------------- MODULE ServingProofs ----------------------------
(***************************************************************************)
(* What Serving guarantees for any replicas, builds, environments, files,  *)
(* catalogs and requests.                                                  *)
(***************************************************************************)
EXTENDS Serving, SequenceTheorems, WellFoundedInduction, TLAPS

(* Checks in their order *)

\* A set of natural numbers has a least one.
LEMMA LeastOf ==
    ASSUME NEW T \in SUBSET Nat, T # {}
    PROVE  \E a \in T : \A i \in T : a <= i
    <1>1. PICK a \in T : \A i \in T : ~ (<<i, a>> \in OpToRel(<, Nat))
        BY NatLessThanWellFounded, WFMin, Zenon
    <1>2. \A i \in T : i \in Nat /\ a \in Nat /\ ~ (i < a)
        BY <1>1 DEF OpToRel
    <1>3. QED
        BY <1>2

LEMMA FirstFailureIs ==
    ASSUME NEW checks, NEW n \in Nat, DOMAIN checks = 1..n, NEW otherwise
    PROVE  \/ /\ FirstFailure(checks, otherwise) = otherwise
              /\ \A i \in 1..n : ~checks[i][1]
           \/ \E i \in 1..n :
                 /\ checks[i][1] /\ FirstFailure(checks, otherwise) = checks[i][2]
                 /\ \A j \in 1..n : j < i => ~checks[j][1]
    <1> DEFINE failing == {i \in DOMAIN checks : checks[i][1]}
    <1>1. CASE failing = {}
        BY <1>1 DEF FirstFailure
    <1>2. CASE failing # {}
        <2> DEFINE k == CHOOSE i \in failing : \A j \in failing : i <= j
        <2>1. failing \in SUBSET Nat
            OBVIOUS
        <2>2. \E i \in failing : \A j \in failing : i <= j
            BY <1>2, <2>1, LeastOf
        <2>3. k \in failing /\ \A j \in failing : k <= j
            BY <2>2
        <2>4. FirstFailure(checks, otherwise) = checks[k][2]
            BY <1>2 DEF FirstFailure
        <2> HIDE DEF k
        <2>5. \A j \in 1..n : j < k => ~checks[j][1]
            BY <2>3
        <2>6. QED
            BY <2>3, <2>4, <2>5
    <1>3. QED
        BY <1>1, <1>2

\* Without their order: the answer is that of a check that failed.
LEMMA SomeFailure ==
    ASSUME NEW S, NEW checks \in Seq(S), NEW otherwise
    PROVE  \/ FirstFailure(checks, otherwise) = otherwise /\ \A c \in ToSet(checks) : ~c[1]
           \/ \E c \in ToSet(checks) : c[1] /\ FirstFailure(checks, otherwise) = c[2]
    <1>1. Len(checks) \in Nat /\ DOMAIN checks = 1..Len(checks)
        OBVIOUS
    <1>2. QED
        BY <1>1, FirstFailureIs DEF ToSet

LEMMA JoinedChecks ==
    ASSUME NEW S, NEW s \in Seq(S), NEW t \in Seq(S)
    PROVE  s \o t \in Seq(S) /\ ToSet(s \o t) = ToSet(s) \cup ToSet(t)
    <1>1. s \o t \in Seq(S)
        OBVIOUS
    <1>2. /\ Len(s \o t) = Len(s) + Len(t) /\ Len(s) \in Nat /\ Len(t) \in Nat
          /\ DOMAIN s = 1..Len(s) /\ DOMAIN t = 1..Len(t)
          /\ DOMAIN (s \o t) = 1..(Len(s) + Len(t))
          /\ \A i \in 1..Len(s) : (s \o t)[i] = s[i]
          /\ \A i \in 1..Len(t) : (s \o t)[Len(s) + i] = t[i]
        OBVIOUS
    <1>3. ASSUME NEW x PROVE x \in ToSet(s \o t) <=> x \in ToSet(s) \/ x \in ToSet(t)
        <2>1. ASSUME NEW i \in 1..(Len(s) + Len(t)), (s \o t)[i] = x
              PROVE  x \in ToSet(s) \/ x \in ToSet(t)
            <3>1. CASE i <= Len(s)
                BY <1>2, <2>1, <3>1 DEF ToSet
            <3>2. CASE i > Len(s)
                <4>1. i - Len(s) \in 1..Len(t) /\ i = Len(s) + (i - Len(s))
                    BY <1>2, <3>2
                <4>2. t[i - Len(s)] = x
                    BY <1>2, <2>1, <4>1
                <4>3. QED
                    BY <1>2, <4>1, <4>2 DEF ToSet
            <3>3. QED
                BY <1>2, <3>1, <3>2
        <2>2. ASSUME NEW i \in 1..Len(s), s[i] = x PROVE x \in ToSet(s \o t)
            BY <1>2, <2>2 DEF ToSet
        <2>3. ASSUME NEW i \in 1..Len(t), t[i] = x PROVE x \in ToSet(s \o t)
            <3>1. Len(s) + i \in 1..(Len(s) + Len(t)) /\ (s \o t)[Len(s) + i] = x
                BY <1>2, <2>3
            <3>2. QED
                BY <1>2, <3>1 DEF ToSet
        <2>4. QED
            BY <1>2, <2>1, <2>2, <2>3 DEF ToSet
    <1>4. QED
        BY <1>1, <1>3

LEMMA OneCheck ==
    ASSUME NEW S, NEW a \in S
    PROVE  <<a>> \in Seq(S) /\ ToSet(<<a>>) = {a}
    BY DEF ToSet

LEMMA TwoChecks ==
    ASSUME NEW S, NEW a \in S, NEW b \in S
    PROVE  <<a, b>> \in Seq(S) /\ ToSet(<<a, b>>) = {a, b}
    BY DEF ToSet

LEMMA FourChecks ==
    ASSUME NEW S, NEW a \in S, NEW b \in S, NEW c \in S, NEW d \in S
    PROVE  <<a, b, c, d>> \in Seq(S) /\ ToSet(<<a, b, c, d>>) = {a, b, c, d}
    BY DEF ToSet
-----------------------------------------------------------------------------
(* The contract *)

\* The contract, path by path.
LEMMA Contract ==
    PUBLIC_ROUTES =
        {[path |-> <<"v1", "health">>, methods |-> {"GET"}, surface |-> "inference"],
         [path |-> <<"v1", "models">>, methods |-> {"GET"}, surface |-> "inference"],
         [path |-> <<"v1", "models", ":model">>, methods |-> {"GET"}, surface |-> "inference"],
         [path |-> <<"v1", "completions">>, methods |-> {"POST"}, surface |-> "inference"],
         [path |-> <<"v1", "chat", "completions">>, methods |-> {"POST"}, surface |-> "inference"],
         [path |-> <<"v1", "embeddings">>, methods |-> {"POST"}, surface |-> "compatibility"],
         [path |-> <<"v1", "responses">>, methods |-> {"POST"}, surface |-> "compatibility"],
         [path |-> <<"v1", "messages">>, methods |-> {"POST"}, surface |-> "compatibility"],
         [path |-> <<"v1", "rerank">>, methods |-> {"POST"}, surface |-> "compatibility"],
         [path |-> <<"v1", "reranking">>, methods |-> {"POST"}, surface |-> "compatibility"]}
    <1>1. ASSUME NEW s PROVE <<"v1">> \o <<s>> = <<"v1", s>>
        <2> DEFINE S == {"v1", s}
        <2>1. /\ <<"v1">> \in Seq(S) /\ <<s>> \in Seq(S) /\ <<"v1", s>> \in Seq(S)
              /\ Len(<<"v1">>) = 1 /\ Len(<<s>>) = 1 /\ Len(<<"v1", s>>) = 2
            OBVIOUS
        <2> DEFINE joined == <<"v1">> \o <<s>>
        <2>2. joined \in Seq(S) /\ Len(joined) = 2 /\ joined[1] = "v1" /\ joined[2] = s
            BY <2>1, ConcatProperties
        <2>3. \A i \in 1..2 : joined[i] = <<"v1", s>>[i]
            BY <2>2
        <2> HIDE DEF joined
        <2>4. joined = <<"v1", s>>
            BY <2>1, <2>2, <2>3, SeqEqual
        <2>5. QED
            BY <2>4 DEF joined
    <1>2. ASSUME NEW s, NEW t PROVE <<"v1">> \o <<s, t>> = <<"v1", s, t>>
        <2> DEFINE S == {"v1", s, t}
        <2>1. /\ <<"v1">> \in Seq(S) /\ <<s, t>> \in Seq(S)
              /\ <<"v1", s, t>> \in Seq(S)
              /\ Len(<<"v1">>) = 1 /\ Len(<<s, t>>) = 2 /\ Len(<<"v1", s, t>>) = 3
            OBVIOUS
        <2> DEFINE joined == <<"v1">> \o <<s, t>>
        <2>2. /\ joined \in Seq(S) /\ Len(joined) = 3
              /\ joined[1] = "v1" /\ joined[2] = s /\ joined[3] = t
            BY <2>1, ConcatProperties
        <2>3. \A i \in 1..3 : joined[i] = <<"v1", s, t>>[i]
            BY <2>2
        <2> HIDE DEF joined
        <2>4. joined = <<"v1", s, t>>
            BY <2>1, <2>2, <2>3, SeqEqual
        <2>5. QED
            BY <2>4 DEF joined
    <1>3. /\ <<"v1">> \o <<"health">> = <<"v1", "health">>
          /\ <<"v1">> \o <<"models">> = <<"v1", "models">>
          /\ <<"v1">> \o <<"completions">> = <<"v1", "completions">>
          /\ <<"v1">> \o <<"embeddings">> = <<"v1", "embeddings">>
          /\ <<"v1">> \o <<"responses">> = <<"v1", "responses">>
          /\ <<"v1">> \o <<"messages">> = <<"v1", "messages">>
          /\ <<"v1">> \o <<"rerank">> = <<"v1", "rerank">>
          /\ <<"v1">> \o <<"reranking">> = <<"v1", "reranking">>
        BY <1>1
    <1>4. /\ <<"v1">> \o <<"models", ":model">> = <<"v1", "models", ":model">>
          /\ <<"v1">> \o <<"chat", "completions">> = <<"v1", "chat", "completions">>
        BY <1>2
    <1>5. QED
        BY <1>3, <1>4, Zenon DEF PUBLIC_ROUTES, Route, Param

LEMMA RouteCases ==
    ASSUME NEW route \in PUBLIC_ROUTES
    PROVE  /\ DOMAIN route.path = 1..Len(route.path) /\ route.path[1] = "v1"
           /\ \/ /\ Len(route.path) = 2 /\ route.path[2] \in {"health", "models"}
                 /\ route.methods = {"GET"} /\ route.surface = "inference"
              \/ /\ Len(route.path) = 3 /\ route.path[2] = "models" /\ route.path[3] = Param
                 /\ route.methods = {"GET"} /\ route.surface = "inference"
              \/ /\ Len(route.path) = 2 /\ route.path[2] = "completions"
                 /\ route.methods = {"POST"} /\ route.surface = "inference"
              \/ /\ Len(route.path) = 3 /\ route.path[2] = "chat" /\ route.path[3] = "completions"
                 /\ route.methods = {"POST"} /\ route.surface = "inference"
              \/ /\ Len(route.path) = 2
                 /\ route.path[2] \in {"embeddings", "responses", "messages", "rerank", "reranking"}
                 /\ route.methods = {"POST"} /\ route.surface = "compatibility"
    BY Contract DEF Param

\* The router and the replica's filter find the same routes at a path.
LEMMA RegisteredMatches ==
    ASSUME NEW S, NEW path \in Seq(S), NEW route \in PUBLIC_ROUTES
    PROVE  route \in RegisteredAt(path) <=> PathMatches(route.path, path)
    <1>1. DOMAIN route.path = 1..Len(route.path)
        BY RouteCases
    <1>2. DOMAIN path = 1..Len(path)
        OBVIOUS
    <1>3. QED
        BY <1>1, <1>2 DEF RegisteredAt, PathMatches, SegmentMatches, Param

\* A generation path is registered once, as a generation route.
LEMMA GenerationIsPosted ==
    ASSUME NEW path \in GenerationPaths, NEW route \in RegisteredAt(path)
    PROVE  route.methods = {"POST"} /\ route.surface = "inference"
    <1>1. /\ route \in PUBLIC_ROUTES /\ Len(route.path) = Len(path)
          /\ \A i \in DOMAIN path : route.path[i] \in {path[i], IF path[i] = "" THEN "" ELSE Param}
        BY DEF RegisteredAt
    <1>2. CASE path = <<"v1", "completions">>
        <2>1. Len(path) = 2 /\ 2 \in DOMAIN path /\ path[2] = "completions"
            BY <1>2
        <2>2. Len(route.path) = 2 /\ route.path[2] \in {"completions", ":model"}
            BY <1>1, <2>1 DEF Param
        <2>3. QED
            BY <1>1, <2>2, RouteCases
    <1>3. CASE path = <<"v1", "chat", "completions">>
        <2>1. Len(path) = 3 /\ 2 \in DOMAIN path /\ path[2] = "chat"
            BY <1>3
        <2>2. Len(route.path) = 3 /\ route.path[2] \in {"chat", ":model"}
            BY <1>1, <2>1 DEF Param
        <2>3. QED
            BY <1>1, <2>2, RouteCases
    <1>4. QED
        BY <1>2, <1>3 DEF GenerationPaths

LEMMA GenerationIsRegistered ==
    ASSUME NEW path \in GenerationPaths
    PROVE  \E route \in RegisteredAt(path) : "POST" \in route.methods
    <1>1. PICK route \in PUBLIC_ROUTES : route.path = path /\ route.methods = {"POST"}
        <2>1. CASE path = <<"v1", "completions">>
            BY <2>1, Contract
        <2>2. CASE path = <<"v1", "chat", "completions">>
            BY <2>2, Contract
        <2>3. QED
            BY <2>1, <2>2 DEF GenerationPaths
    <1>2. route \in RegisteredAt(path)
        BY <1>1 DEF RegisteredAt
    <1>3. QED
        BY <1>1, <1>2

-----------------------------------------------------------------------------
(* The handlers.  What each may answer, by the code, and on what its tokens    *)
(* depend.                                                                     *)

HandlerRefusals ==
    {"malformed_json", "unsupported_parameter", "model_not_found", "missing_required_parameter",
     "invalid_messages", "unsupported_message_role", "unsupported_sampling",
     "unsupported_chat_template"}

Handled(m, q, answer) ==
    \/ /\ HandlerModel(q.body) \in {Null, m.id}
       /\ \E prompt : answer = Generate(m, q.body, prompt)
    \/ /\ answer.made = NoTokens /\ answer.code \in HandlerRefusals
       /\ answer.code = "model_not_found" => HandlerModel(q.body) \notin {Null, m.id}

\* Four checks and then others, the third singled out.
LEMMA FourAndOthers ==
    ASSUME NEW S, NEW a, NEW b, NEW c, NEW d, NEW rest \in Seq(S), NEW otherwise, NEW answer,
           answer = FirstFailure(<<a, b, c, d>> \o rest, otherwise)
    PROVE  \/ answer = otherwise /\ ~c[1]
           \/ c[1] /\ answer = c[2]
           \/ answer = a[2] \/ answer = b[2] \/ answer = d[2]
           \/ \E e \in S : answer = e[2]
    <1> DEFINE T == {a, b, c, d} \cup S
               first == <<a, b, c, d>>
               checks == first \o rest
    <1>1. a \in T /\ b \in T /\ c \in T /\ d \in T /\ S \subseteq T
        OBVIOUS
    <1>2. rest \in Seq(T) /\ ToSet(rest) \subseteq S
        <2>1. rest \in Seq(T)
            BY <1>1, SeqMonotonic
        <2>2. \A i \in DOMAIN rest : rest[i] \in S
            OBVIOUS
        <2>3. QED
            BY <2>1, <2>2 DEF ToSet
    <1> HIDE DEF T
    <1>3. first \in Seq(T) /\ ToSet(first) = {a, b, c, d}
        BY <1>1, FourChecks
    <1>4. answer = FirstFailure(checks, otherwise)
        OBVIOUS
    <1> HIDE DEF first
    <1>5. checks \in Seq(T) /\ ToSet(checks) = {a, b, c, d} \cup ToSet(rest)
        BY <1>2, <1>3, JoinedChecks
    <1> HIDE DEF checks
    <1>6. \/ answer = otherwise /\ \A e \in ToSet(checks) : ~e[1]
          \/ \E e \in ToSet(checks) : e[1] /\ answer = e[2]
        BY <1>5, <1>4, SomeFailure
    <1>7. ASSUME NEW e \in ToSet(checks) PROVE e \in {a, b, c, d} \/ e \in S
        BY <1>2, <1>5
    <1>8. c \in ToSet(checks)
        BY <1>5
    <1>9. QED
        BY <1>6, <1>7, <1>8

LEMMA CheckedFirst ==
    ASSUME NEW S, NEW m, NEW q, NEW rest \in Seq(S), NEW prompt,
           \A e \in S : \E status : \E code \in HandlerRefusals \ {"model_not_found"} :
                            e[2] = Answer(status, code)
    PROVE  Handled(m, q, FirstFailure(CommonChecks(m, q) \o rest, Generate(m, q.body, prompt)))
    <1> DEFINE rejected == <<HandlerRejects(q), Answer(400, "malformed_json")>>
               unknown  == <<q.body.extra, Answer(400, "unsupported_parameter")>>
               other    == <<HandlerModel(q.body) \notin {Null, m.id}, Answer(404, "model_not_found")>>
               missing  == <<q.body.input = "absent", Answer(400, "missing_required_parameter")>>
    <1>1. CommonChecks(m, q) = <<rejected, unknown, other, missing>>
        BY DEF CommonChecks
    <1>2. other[1] => other[2] = Answer(404, "model_not_found") /\ HandlerModel(q.body) \notin {Null, m.id}
        OBVIOUS
    <1>3. ~other[1] => HandlerModel(q.body) \in {Null, m.id}
        OBVIOUS
    <1>4. /\ rejected[2] = Answer(400, "malformed_json")
          /\ unknown[2] = Answer(400, "unsupported_parameter")
          /\ missing[2] = Answer(400, "missing_required_parameter")
        OBVIOUS
    <1> HIDE DEF rejected, unknown, other, missing
    <1>5. SUFFICES ASSUME NEW answer,
                          answer = FirstFailure(<<rejected, unknown, other, missing>> \o rest,
                                                Generate(m, q.body, prompt))
                   PROVE  Handled(m, q, answer)
        BY <1>1
    <1>6. \A status, code : /\ Answer(status, code).code = code
                            /\ Answer(status, code).made = NoTokens
        BY DEF Answer
    <1>7. CASE answer = Generate(m, q.body, prompt) /\ ~other[1]
        BY <1>3, <1>7 DEF Handled
    <1>8. CASE other[1] /\ answer = other[2]
        <2>1. answer.code = "model_not_found" /\ answer.made = NoTokens
            <3>1. answer = Answer(404, "model_not_found")
                BY <1>2, <1>8
            <3>2. QED
                BY <1>6, <3>1
        <2>2. HandlerModel(q.body) \notin {Null, m.id}
            BY <1>2, <1>8
        <2>3. QED
            BY <2>1, <2>2 DEF Handled, HandlerRefusals
    <1>9. CASE answer = rejected[2] \/ answer = unknown[2] \/ answer = missing[2]
        <2>1. /\ answer.made = NoTokens
              /\ answer.code \in {"malformed_json", "unsupported_parameter", "missing_required_parameter"}
            BY <1>4, <1>6, <1>9
        <2>2. QED
            BY <2>1 DEF Handled, HandlerRefusals
    <1>10. CASE \E e \in S : answer = e[2]
        <2>1. PICK code \in HandlerRefusals \ {"model_not_found"} :
                    \E status : answer = Answer(status, code)
            BY <1>10
        <2>2. answer.made = NoTokens /\ answer.code = code
            BY <1>6, <2>1
        <2>3. QED
            BY <2>2 DEF Handled
    <1>11. QED
        BY <1>5, <1>7, <1>8, <1>9, <1>10, FourAndOthers

LEMMA CompletionsAnswers ==
    ASSUME NEW m, NEW q
    PROVE  Handled(m, q, Completions(m, q))
    <1> DEFINE hot == <<q.body.hot, Answer(400, "unsupported_sampling")>>
    <1>1. SamplingCheck(q) = <<hot>>
        BY DEF SamplingCheck
    <1>2. hot[2] = Answer(400, "unsupported_sampling")
        OBVIOUS
    <1> HIDE DEF hot
    <1>3. <<hot>> \in Seq({hot})
        BY OneCheck
    <1>4. \A e \in {hot} : \E status : \E code \in HandlerRefusals \ {"model_not_found"} :
                e[2] = Answer(status, code)
        BY <1>2 DEF HandlerRefusals
    <1> DEFINE S == {hot}
               rest == <<hot>>
    <1>5. Handled(m, q, FirstFailure(CommonChecks(m, q) \o rest, Generate(m, q.body, RawPrompt)))
        <2>1. rest \in Seq(S)
            BY <1>3
        <2>2. \A e \in S : \E status : \E code \in HandlerRefusals \ {"model_not_found"} :
                    e[2] = Answer(status, code)
            BY <1>4
        <2> HIDE DEF S, rest
        <2>3. QED
            BY <2>1, <2>2, CheckedFirst
    <1>6. QED
        BY <1>1, <1>5, Zenon DEF Completions

LEMMA ChatCompletionsAnswers ==
    ASSUME NEW m, NEW q
    PROVE  Handled(m, q, ChatCompletions(m, q))
    <1> DEFINE empty == <<q.body.input = "empty", Answer(400, "invalid_messages")>>
               role  == <<q.body.input = "badrole", Answer(400, "unsupported_message_role")>>
               hot   == <<q.body.hot, Answer(400, "unsupported_sampling")>>
               none  == <<m.template \in {"none", "failing"}, Answer(422, "unsupported_chat_template")>>
               S == {empty, role, hot, none}
               T == Seq(S)
    <1>1. ChatCompletions(m, q) =
            FirstFailure(CommonChecks(m, q) \o <<empty, role>> \o <<hot>> \o <<none>>,
                         Generate(m, q.body, RenderChatPrompt(m)))
        <2>1. SamplingCheck(q) = <<hot>>
            BY DEF SamplingCheck
        <2>2. QED
            BY <2>1, Zenon DEF ChatCompletions
    <1>2. /\ empty[2] = Answer(400, "invalid_messages")
          /\ role[2] = Answer(400, "unsupported_message_role")
          /\ hot[2] = Answer(400, "unsupported_sampling")
          /\ none[2] = Answer(422, "unsupported_chat_template")
        OBVIOUS
    <1> HIDE DEF empty, role, hot, none
    <1>3. \A e \in S : \E status : \E code \in HandlerRefusals \ {"model_not_found"} :
                e[2] = Answer(status, code)
        BY <1>2 DEF HandlerRefusals
    <1>4. PICK U : /\ CommonChecks(m, q) \in Seq(U) /\ S \subseteq U
        <2> DEFINE c == CommonChecks(m, q)
                   U == S \cup {c[1], c[2], c[3], c[4]}
        <2>1. c = <<c[1], c[2], c[3], c[4]>>
            BY DEF CommonChecks
        <2> HIDE DEF c
        <2>2. <<c[1], c[2], c[3], c[4]>> \in Seq(U)
            BY FourChecks
        <2>3. c \in Seq(U) /\ S \subseteq U
            BY <2>1, <2>2
        <2> HIDE DEF U
        <2>4. QED
            BY <2>3 DEF c
    <1>5. empty \in S /\ role \in S /\ hot \in S /\ none \in S
        OBVIOUS
    <1> HIDE DEF S
    <1>6. <<empty, role>> \in Seq(S) /\ <<hot>> \in Seq(S) /\ <<none>> \in Seq(S)
        BY <1>5, OneCheck, TwoChecks
    <1>7. <<empty, role>> \in Seq(U) /\ <<hot>> \in Seq(U) /\ <<none>> \in Seq(U)
        BY <1>4, <1>5, OneCheck, TwoChecks
    <1> DEFINE c == CommonChecks(m, q)
               two == <<empty, role>>
               rest == (two \o <<hot>>) \o <<none>>
    <1>8. c \o two \o <<hot>> \o <<none>> = c \o rest
        <2>1. c \o two \o <<hot>> = c \o (two \o <<hot>>)
            BY <1>4, <1>7, ConcatAssociative
        <2>2. two \o <<hot>> \in Seq(U)
            BY <1>7, ConcatProperties
        <2> DEFINE three == two \o <<hot>>
        <2> HIDE DEF three
        <2>3. c \o three \o <<none>> = c \o (three \o <<none>>)
            <3>1. c \in Seq(U) /\ three \in Seq(U) /\ <<none>> \in Seq(U)
                BY <1>4, <1>7, <2>2 DEF three
            <3> HIDE DEF c
            <3>2. QED
                BY <3>1, ConcatAssociative
        <2>4. QED
            BY <2>1, <2>3 DEF three
    <1>9. rest \in Seq(S)
        BY <1>6, ConcatProperties
    <1> HIDE DEF rest
    <1>10. Handled(m, q, FirstFailure(c \o rest, Generate(m, q.body, RenderChatPrompt(m))))
        BY <1>3, <1>9, CheckedFirst
    <1>11. QED
        BY <1>1, <1>8, <1>10
-----------------------------------------------------------------------------
(* The replica's router and its filters *)

Routed(m, q, answer) ==
    \/ RegisteredAt(q.path) = {} /\ answer = Answer(404, "not_found")
    \/ answer = Answer(200, "preflight")
    \/ /\ \A route \in RegisteredAt(q.path) : GatewayAsks(q) \notin route.methods
       /\ answer = Answer(405, "method")
    \/ answer \in {Answer(501, "not_implemented"), Answer(200, "health"), Answer(200, "models")}
    \/ /\ \E route \in RegisteredAt(q.path) : GatewayAsks(q) \in route.methods
       /\ q.path \in GenerationPaths /\ Handled(m, q, answer)
    \/ /\ q.path \notin GenerationPaths
       /\ answer \in {Answer(200, "model"), Answer(404, "model_not_found")}

LEMMA SixChecks ==
    ASSUME NEW a, NEW b, NEW c, NEW d, NEW e, NEW f, NEW otherwise, NEW answer,
           answer = FirstFailure(<<a, b, c, d, e, f>>, otherwise)
    PROVE  \/ answer = otherwise /\ ~a[1] /\ ~b[1] /\ ~c[1] /\ ~d[1] /\ ~e[1] /\ ~f[1]
           \/ a[1] /\ answer = a[2]
           \/ b[1] /\ answer = b[2]
           \/ c[1] /\ answer = c[2]
           \/ d[1] /\ answer = d[2]
           \/ e[1] /\ answer = e[2]
           \/ f[1] /\ answer = f[2]
    <1> DEFINE T == {a, b, c, d, e, f}
               checks == <<a, b, c, d, e, f>>
    <1>1. a \in T /\ b \in T /\ c \in T /\ d \in T /\ e \in T /\ f \in T
        OBVIOUS
    <1> HIDE DEF T
    <1>2. checks \in Seq(T)
        BY <1>1
    <1>3. ToSet(checks) = {a, b, c, d, e, f}
        BY DEF ToSet
    <1>4. answer = FirstFailure(checks, otherwise)
        OBVIOUS
    <1> HIDE DEF checks
    <1>5. \/ answer = otherwise /\ \A x \in ToSet(checks) : ~x[1]
          \/ \E x \in ToSet(checks) : x[1] /\ answer = x[2]
        BY <1>2, <1>4, SomeFailure
    <1>6. QED
        BY <1>3, <1>5

LEMMA RouterAnswers ==
    ASSUME NEW m, NEW q
    PROVE  Routed(m, q, InTreeRouter(m, q))
    <1> DEFINE routes == RegisteredAt(q.path)
               asked == GatewayAsks(q)
               a == <<routes = {}, Answer(404, "not_found")>>
               b == <<q.method = "OPTIONS", Answer(200, "preflight")>>
               c == <<\A route \in routes : asked \notin route.methods, Answer(405, "method")>>
               d == <<\E route \in routes : route.surface = "compatibility", Answer(501, "not_implemented")>>
               e == <<q.path = <<"v1", "health">>, Answer(200, "health")>>
               f == <<q.path = <<"v1", "models">>, Answer(200, "models")>>
               otherwise ==
                   CASE q.path = <<"v1", "completions">> -> Completions(m, q)
                     [] q.path = <<"v1", "chat", "completions">> -> ChatCompletions(m, q)
                     [] q.path \notin GenerationPaths -> Model(m, q)
    <1>1. InTreeRouter(m, q) = FirstFailure(<<a, b, c, d, e, f>>, otherwise)
        BY Zenon DEF InTreeRouter, GatewayAsks
    <1>2. /\ a[1] => routes = {}
          /\ c[1] => \A route \in routes : asked \notin route.methods
          /\ ~c[1] => \E route \in routes : asked \in route.methods
        OBVIOUS
    <1>3. /\ a[2] = Answer(404, "not_found") /\ b[2] = Answer(200, "preflight")
          /\ c[2] = Answer(405, "method") /\ d[2] = Answer(501, "not_implemented")
          /\ e[2] = Answer(200, "health") /\ f[2] = Answer(200, "models")
        OBVIOUS
    <1>4. ASSUME \E route \in routes : asked \in route.methods
          PROVE  Routed(m, q, otherwise)
        <2>1. CASE q.path = <<"v1", "completions">>
            <3>1. otherwise = Completions(m, q)
                <4>1. q.path # <<"v1", "chat", "completions">>
                    BY <2>1
                <4>2. QED
                    BY <2>1, <4>1 DEF GenerationPaths
            <3>2. q.path \in GenerationPaths
                BY <2>1 DEF GenerationPaths
            <3>3. QED
                BY <1>4, <3>1, <3>2, CompletionsAnswers DEF Routed
        <2>2. CASE q.path = <<"v1", "chat", "completions">>
            <3>1. otherwise = ChatCompletions(m, q)
                <4>1. q.path # <<"v1", "completions">>
                    BY <2>2
                <4>2. QED
                    BY <2>2, <4>1 DEF GenerationPaths
            <3>2. q.path \in GenerationPaths
                BY <2>2 DEF GenerationPaths
            <3>3. QED
                BY <1>4, <3>1, <3>2, ChatCompletionsAnswers DEF Routed
        <2>3. CASE q.path \notin GenerationPaths
            <3>1. otherwise = Model(m, q)
                BY <2>3 DEF GenerationPaths
            <3>2. Model(m, q) \in {Answer(200, "model"), Answer(404, "model_not_found")}
                BY DEF Model
            <3>3. QED
                BY <2>3, <3>1, <3>2 DEF Routed
        <2>4. QED
            BY <2>1, <2>2, <2>3 DEF GenerationPaths
    <1> HIDE DEF a, b, c, d, e, f, otherwise
    <1>5. SUFFICES ASSUME NEW answer, answer = FirstFailure(<<a, b, c, d, e, f>>, otherwise)
                   PROVE  Routed(m, q, answer)
        BY <1>1
    <1>6. CASE answer = otherwise /\ ~c[1]
        BY <1>2, <1>4, <1>6
    <1>7. CASE a[1] /\ answer = a[2]
        BY <1>2, <1>3, <1>7 DEF Routed
    <1>8. CASE c[1] /\ answer = c[2]
        BY <1>2, <1>3, <1>8 DEF Routed
    <1>9. CASE answer = b[2] \/ answer = d[2] \/ answer = e[2] \/ answer = f[2]
        BY <1>3, <1>9 DEF Routed
    <1>10. QED
        BY <1>5, <1>6, <1>7, <1>8, <1>9, SixChecks

Rewritten(m, q) == [q EXCEPT !.body.models = <<m.id>>]

LEMMA ThreeChecks ==
    ASSUME NEW a, NEW b, NEW c, NEW otherwise, NEW answer,
           answer = FirstFailure(<<a, b, c>>, otherwise)
    PROVE  \/ answer = otherwise /\ ~a[1] /\ ~b[1] /\ ~c[1]
           \/ a[1] /\ answer = a[2]
           \/ b[1] /\ answer = b[2]
           \/ c[1] /\ answer = c[2]
    <1> DEFINE T == {a, b, c}
               checks == <<a, b, c>>
    <1>1. a \in T /\ b \in T /\ c \in T
        OBVIOUS
    <1> HIDE DEF T
    <1>2. checks \in Seq(T)
        BY <1>1
    <1>3. ToSet(checks) = {a, b, c}
        BY DEF ToSet
    <1>4. answer = FirstFailure(checks, otherwise)
        OBVIOUS
    <1> HIDE DEF checks
    <1>5. \/ answer = otherwise /\ \A x \in ToSet(checks) : ~x[1]
          \/ \E x \in ToSet(checks) : x[1] /\ answer = x[2]
        BY <1>2, <1>4, SomeFailure
    <1>6. QED
        BY <1>3, <1>5

Pinned(m, q, answer) ==
    \/ ~(q.method = "POST" /\ q.path \in GenerationPaths) /\ answer = InTreeRouter(m, q)
    \/ answer \in {Answer(413, "request_too_large"), Answer(400, "unparseable_request_body")}
    \/ answer = Answer(404, "model_not_served") /\ FilterModel(q.body) \notin m.aliases \cup {Null}
    \/ /\ q.method = "POST" /\ q.path \in GenerationPaths
       /\ q.body.size # "over" /\ q.body.form = "object"
       /\ FilterModel(q.body) \in m.aliases \cup {Null}
       /\ \/ answer = InTreeRouter(m, q)
          \/ FilterModel(q.body) \notin {Null, m.id} /\ answer = InTreeRouter(m, Rewritten(m, q))

LEMMA FilterAnswers ==
    ASSUME NEW m, NEW q
    PROVE  Pinned(m, q, PinGeneration(m, q))
    <1> DEFINE named == FilterModel(q.body)
               a == <<q.body.size = "over", Answer(413, "request_too_large")>>
               b == <<q.body.form # "object", Answer(400, "unparseable_request_body")>>
               c == <<named \notin m.aliases \cup {Null}, Answer(404, "model_not_served")>>
               otherwise == IF named \in {Null, m.id} THEN InTreeRouter(m, q)
                            ELSE InTreeRouter(m, Rewritten(m, q))
    <1>1. CASE ~(q.method = "POST" /\ q.path \in GenerationPaths)
        BY <1>1 DEF PinGeneration, Pinned, IsGenerationPath
    <1>2. CASE q.method = "POST" /\ q.path \in GenerationPaths
        <2>1. PinGeneration(m, q) = FirstFailure(<<a, b, c>>, otherwise)
            BY <1>2, Zenon DEF PinGeneration, IsGenerationPath, Rewritten
        <2>2. /\ ~a[1] => q.body.size # "over"
              /\ ~b[1] => q.body.form = "object"
              /\ ~c[1] => named \in m.aliases \cup {Null}
              /\ c[1] => named \notin m.aliases \cup {Null}
            OBVIOUS
        <2>3. /\ a[2] = Answer(413, "request_too_large")
              /\ b[2] = Answer(400, "unparseable_request_body")
              /\ c[2] = Answer(404, "model_not_served")
            OBVIOUS
        <2>4. \/ otherwise = InTreeRouter(m, q)
              \/ named \notin {Null, m.id} /\ otherwise = InTreeRouter(m, Rewritten(m, q))
            BY Zenon
        <2> HIDE DEF a, b, c, otherwise
        <2>5. SUFFICES ASSUME NEW answer, answer = FirstFailure(<<a, b, c>>, otherwise)
                       PROVE  Pinned(m, q, answer)
            BY <2>1
        <2>6. CASE answer = otherwise /\ ~a[1] /\ ~b[1] /\ ~c[1]
            BY <1>2, <2>2, <2>4, <2>6 DEF Pinned
        <2>7. CASE c[1] /\ answer = c[2]
            BY <2>2, <2>3, <2>7 DEF Pinned
        <2>8. CASE answer = a[2] \/ answer = b[2]
            BY <2>3, <2>8 DEF Pinned
        <2>9. QED
            BY <2>5, <2>6, <2>7, <2>8, ThreeChecks
    <1>3. QED
        BY <1>1, <1>2

\* An alias is rewritten in the body alone, to the key.
LEMMA RewrittenIs ==
    ASSUME NEW m, NEW q \in HttpRequests
    PROVE  /\ Rewritten(m, q).method = q.method /\ Rewritten(m, q).path = q.path
           /\ HandlerModel(Rewritten(m, q).body) = m.id
    <1>1. DOMAIN q = {"method", "path", "type", "body"} /\ DOMAIN q.body =
            {"size", "form", "models", "extra", "input", "hot", "stream", "long"}
        BY DEF HttpRequests, Bodies
    <1> DEFINE body == [q.body EXCEPT !.models = <<m.id>>]
    <1>2. Rewritten(m, q) = [q EXCEPT !.body = body]
        BY DEF Rewritten
    <1>3. body.models = <<m.id>>
        BY <1>1
    <1> HIDE DEF body
    <1>4. /\ Rewritten(m, q).method = q.method /\ Rewritten(m, q).path = q.path
          /\ Rewritten(m, q).body = body
        BY <1>1, <1>2
    <1>5. HandlerModel(body) = m.id
        <2>1. <<m.id>> # <<>> /\ Head(<<m.id>>) = m.id
            OBVIOUS
        <2>2. QED
            BY <1>3, <2>1, Zenon DEF HandlerModel
    <1>6. QED
        BY <1>4, <1>5
-----------------------------------------------------------------------------
(* What a replica answers, for the properties *)

LEMMA GenerateMakes ==
    ASSUME NEW m, NEW body, NEW prompt
    PROVE  LET answer == Generate(m, body, prompt)
           IN  /\ answer.code \in {"stream", "completion", "context_length_exceeded"}
               /\ answer.made = NoTokens \/ answer.made.model = m.id
    BY DEF Generate, Answer

LEMMA CodesOf ==
    ASSUME NEW status, NEW code
    PROVE  Answer(status, code).code = code /\ Answer(status, code).made = NoTokens
    BY DEF Answer

LEMMA HandledMakes ==
    ASSUME NEW m, NEW q, NEW answer, Handled(m, q, answer)
    PROVE  /\ answer.code \notin {"route_not_served", "not_found", "method", "model_not_served"}
           /\ answer.made = NoTokens \/ answer.made.model = m.id
           /\ HandlerModel(q.body) = m.id => answer.code # "model_not_found"
    <1>1. CASE \E prompt : answer = Generate(m, q.body, prompt)
        BY <1>1, GenerateMakes
    <1>2. CASE /\ answer.made = NoTokens /\ answer.code \in HandlerRefusals
               /\ answer.code = "model_not_found" => HandlerModel(q.body) \notin {Null, m.id}
        BY <1>2 DEF HandlerRefusals
    <1>3. QED
        BY <1>1, <1>2 DEF Handled

\* A generation path that is asked what it admits is posted to.
LEMMA GenerationAdmitsPost ==
    ASSUME NEW q, q.path \in GenerationPaths,
           \E route \in RegisteredAt(q.path) : GatewayAsks(q) \in route.methods
    PROVE  q.method = "POST"
    <1>1. GatewayAsks(q) = "POST"
        BY GenerationIsPosted
    <1>2. QED
        BY <1>1 DEF GatewayAsks

LEMMA RouterMakes ==
    ASSUME NEW m, NEW q, NEW answer, Routed(m, q, answer)
    PROVE  /\ answer.code \notin {"route_not_served", "model_not_served"}
           /\ \/ answer.made = NoTokens
              \/ answer.made.model = m.id /\ q.method = "POST" /\ q.path \in GenerationPaths
           /\ (\E route \in RegisteredAt(q.path) : GatewayAsks(q) \in route.methods) =>
                  answer.code \notin {"not_found", "method"}
           /\ q.path \in GenerationPaths /\ HandlerModel(q.body) = m.id =>
                  answer.code # "model_not_found"
           /\ answer.code = "completion" => q.path \in GenerationPaths
    <1>1. CASE RegisteredAt(q.path) = {} /\ answer = Answer(404, "not_found")
        BY <1>1, CodesOf
    <1>2. CASE \/ answer = Answer(200, "preflight")
               \/ answer \in {Answer(501, "not_implemented"), Answer(200, "health"),
                              Answer(200, "models")}
        BY <1>2, CodesOf
    <1>3. CASE /\ \A route \in RegisteredAt(q.path) : GatewayAsks(q) \notin route.methods
               /\ answer = Answer(405, "method")
        BY <1>3, CodesOf
    <1>4. CASE /\ \E route \in RegisteredAt(q.path) : GatewayAsks(q) \in route.methods
               /\ q.path \in GenerationPaths /\ Handled(m, q, answer)
        BY <1>4, HandledMakes, GenerationAdmitsPost
    <1>5. CASE /\ q.path \notin GenerationPaths
               /\ answer \in {Answer(200, "model"), Answer(404, "model_not_found")}
        BY <1>5, CodesOf
    <1>6. QED
        BY <1>1, <1>2, <1>3, <1>4, <1>5 DEF Routed

LEMMA LaneMakes ==
    ASSUME NEW m, NEW q \in HttpRequests, NEW answer, answer = ServeOnlyTheLane(m, q),
           answer.made # NoTokens
    PROVE  /\ answer.made.model = m.id /\ q.body.form = "object" /\ q.body.size = "fits"
           /\ FilterModel(q.body) \in m.aliases \cup {Null}
    <1>1. Pinned(m, q, answer)
        BY FilterAnswers, CodesOf DEF ServeOnlyTheLane
    <1>2. ~(q.method = "POST" /\ q.path \in GenerationPaths) => answer # InTreeRouter(m, q)
        BY RouterAnswers, RouterMakes
    <1>3. /\ q.method = "POST" /\ q.path \in GenerationPaths
          /\ q.body.size # "over" /\ q.body.form = "object"
          /\ FilterModel(q.body) \in m.aliases \cup {Null}
          /\ \/ answer = InTreeRouter(m, q)
             \/ answer = InTreeRouter(m, Rewritten(m, q))
        BY <1>1, <1>2, CodesOf DEF Pinned
    <1>4. answer.made.model = m.id
        BY <1>3, RouterAnswers, RouterMakes
    <1>5. q.body.size \in {"fits", "over"}
        BY DEF HttpRequests, Bodies
    <1>6. QED
        BY <1>3, <1>4, <1>5

LEMMA LaneCompletes ==
    ASSUME NEW m, NEW q \in HttpRequests, NEW answer, answer = ServeOnlyTheLane(m, q),
           answer.code = "completion"
    PROVE  q.path \in GenerationPaths
    <1>1. Pinned(m, q, answer)
        BY FilterAnswers, CodesOf DEF ServeOnlyTheLane
    <1>2. CASE answer = InTreeRouter(m, q)
        BY <1>2, RouterAnswers, RouterMakes
    <1>3. CASE q.path \in GenerationPaths
        BY <1>3
    <1>4. QED
        BY <1>1, <1>2, <1>3, CodesOf DEF Pinned

\* The gateway's reading of the contract and the replica's own.
LEMMA LaneServes ==
    ASSUME NEW m, NEW q \in HttpRequests, NEW answer, answer = ServeOnlyTheLane(m, q),
           NEW route \in RegisteredAt(q.path), GatewayAsks(q) \in route.methods
    PROVE  answer.code \notin {"route_not_served", "not_found", "method"}
    <1>1. q.path \in Seq(STRING)
        BY DEF HttpRequests
    <1>2. IsServed(q.method, q.path)
        <2>1. route \in PUBLIC_ROUTES /\ PathMatches(route.path, q.path)
            <3>1. route \in PUBLIC_ROUTES
                BY DEF RegisteredAt
            <3>2. QED
                BY <1>1, <3>1, RegisteredMatches
        <2>2. MethodIsAdmitted(route, q.method)
            BY DEF MethodIsAdmitted, GatewayAsks
        <2>3. QED
            BY <2>1, <2>2 DEF IsServed
    <1>3. Pinned(m, q, answer)
        BY <1>2, FilterAnswers DEF ServeOnlyTheLane
    <1>4. CASE answer = InTreeRouter(m, q)
        BY <1>4, RouterAnswers, RouterMakes
    <1>5. CASE answer = InTreeRouter(m, Rewritten(m, q))
        <2>1. /\ Rewritten(m, q).path = q.path
              /\ GatewayAsks(Rewritten(m, q)) = GatewayAsks(q)
            BY RewrittenIs DEF GatewayAsks
        <2>2. QED
            BY <1>5, <2>1, RouterAnswers, RouterMakes
    <1>6. CASE answer \in {Answer(413, "request_too_large"), Answer(400, "unparseable_request_body"),
                           Answer(404, "model_not_served")}
        BY <1>6, CodesOf
    <1>7. QED
        BY <1>3, <1>4, <1>5, <1>6 DEF Pinned

\* A replica asked for its own model by its key does not refuse the name.
LEMMA LaneKnows ==
    ASSUME NEW m, NEW q \in HttpRequests, NEW answer, answer = ServeOnlyTheLane(m, q),
           q.path \in GenerationPaths, m.id \in m.aliases,
           FilterModel(q.body) = m.id, HandlerModel(q.body) = m.id
    PROVE  answer.code \notin {"model_not_served", "model_not_found"}
    <1>1. Pinned(m, q, answer) \/ answer = Answer(403, "route_not_served")
        BY FilterAnswers DEF ServeOnlyTheLane
    <1>2. CASE answer = InTreeRouter(m, q)
        BY <1>2, RouterAnswers, RouterMakes
    <1>3. CASE answer \in {Answer(413, "request_too_large"), Answer(400, "unparseable_request_body"),
                           Answer(403, "route_not_served")}
        BY <1>3, CodesOf
    <1>4. QED
        BY <1>1, <1>2, <1>3 DEF Pinned
-----------------------------------------------------------------------------
(* The gateway's choice *)

SelectionRefusals ==
    {"unsupported_media_type", "request_too_large", "unreadable_request_body",
     "request_body_timeout", "malformed_json", "model_required", "model_not_found",
     "model_routing_unsupported"}
AnsweredHere(routed) == \E code : routed = Local(code)
Declined(routed) == \E status : \E code \in SelectionRefusals : routed = Refusal(status, code)

ForwardedTo(routes, q, routed) ==
    LET id == SelectedModel(q.body)
    IN  /\ SelectionIsReadable(q.body) /\ id # NoModel
        /\ \E i \in DOMAIN routes : routes[i].id = id /\ routed = Forward(routes[i].origin, id)

LEMMA SevenChecks ==
    ASSUME NEW a, NEW b, NEW c, NEW d, NEW e, NEW f, NEW g, NEW otherwise, NEW routed,
           routed = FirstFailure(<<a, b, c, d, e, f, g>>, otherwise)
    PROVE  \/ routed = otherwise /\ ~e[1] /\ ~f[1] /\ ~g[1]
           \/ routed \in {a[2], b[2], c[2], d[2], e[2], f[2], g[2]}
    <1> DEFINE T == {a, b, c, d, e, f, g}
               checks == <<a, b, c, d, e, f, g>>
    <1>1. a \in T /\ b \in T /\ c \in T /\ d \in T /\ e \in T /\ f \in T /\ g \in T
        OBVIOUS
    <1> HIDE DEF T
    <1>2. checks \in Seq(T)
        BY <1>1
    <1>3. ToSet(checks) = {a, b, c, d, e, f, g}
        BY DEF ToSet
    <1>4. routed = FirstFailure(checks, otherwise)
        OBVIOUS
    <1> HIDE DEF checks
    <1>5. \/ routed = otherwise /\ \A x \in ToSet(checks) : ~x[1]
          \/ \E x \in ToSet(checks) : x[1] /\ routed = x[2]
        BY <1>2, <1>4, SomeFailure
    <1>6. QED
        BY <1>3, <1>5

LEMMA Selects ==
    ASSUME NEW routes, NEW q, NEW arrives
    PROVE  LET routed == SelectCatalogUpstream(routes, q, arrives)
           IN  Declined(routed) \/ ForwardedTo(routes, q, routed)
    <1> DEFINE id == SelectedModel(q.body)
               chosen == {i \in DOMAIN routes : routes[i].id = id}
               k == CHOOSE j \in chosen : TRUE
               a == <<q.type # "json", Refusal(415, "unsupported_media_type")>>
               b == <<q.body.size = "over", Refusal(413, "request_too_large")>>
               c == <<arrives = "broken", Refusal(400, "unreadable_request_body")>>
               d == <<arrives = "late", Refusal(408, "request_body_timeout")>>
               e == <<~SelectionIsReadable(q.body), Refusal(400, "malformed_json")>>
               f == <<id = NoModel, Refusal(400, "model_required")>>
               g == <<chosen = {}, Refusal(404, "model_not_found")>>
               otherwise == Forward(routes[k].origin, id)
    <1>1. SelectCatalogUpstream(routes, q, arrives) =
            FirstFailure(<<a, b, c, d, e, f, g>>, otherwise)
        BY Zenon DEF SelectCatalogUpstream
    <1>2. /\ a[2] = Refusal(415, "unsupported_media_type") /\ b[2] = Refusal(413, "request_too_large")
          /\ c[2] = Refusal(400, "unreadable_request_body")
          /\ d[2] = Refusal(408, "request_body_timeout") /\ e[2] = Refusal(400, "malformed_json")
          /\ f[2] = Refusal(400, "model_required") /\ g[2] = Refusal(404, "model_not_found")
        OBVIOUS
    <1>3. /\ ~e[1] => SelectionIsReadable(q.body)
          /\ ~f[1] => id # NoModel
          /\ ~g[1] => chosen # {}
        OBVIOUS
    <1>4. chosen # {} => k \in DOMAIN routes /\ routes[k].id = id
        OBVIOUS
    <1>5. otherwise = Forward(routes[k].origin, id)
        OBVIOUS
    <1> HIDE DEF a, b, c, d, e, f, g, otherwise, k
    <1>6. SUFFICES ASSUME NEW routed, routed = FirstFailure(<<a, b, c, d, e, f, g>>, otherwise)
                   PROVE  Declined(routed) \/ ForwardedTo(routes, q, routed)
        BY <1>1
    <1>7. CASE routed = otherwise /\ ~e[1] /\ ~f[1] /\ ~g[1]
        BY <1>3, <1>4, <1>5, <1>7 DEF ForwardedTo
    <1>8. CASE routed \in {a[2], b[2], c[2], d[2], e[2], f[2], g[2]}
        BY <1>2, <1>8 DEF Declined, SelectionRefusals
    <1>9. QED
        BY <1>6, <1>7, <1>8, SevenChecks

Chosen(args, q, routed) ==
    \/ AnsweredHere(routed)
    \/ Declined(routed)
    \/ ~IsCatalogMode(args) /\ routed = Forward(args.upstream, NoModel)
    \/ IsCatalogMode(args) /\ q.path \in GenerationPaths /\ ForwardedTo(args.routes, q, routed)

LEMMA Resolves ==
    ASSUME NEW args, NEW q, NEW arrives
    PROVE  Chosen(args, q, Resolve(args, q, arrives))
    <1>1. CASE ~IsCatalogMode(args)
        BY <1>1 DEF Chosen, Resolve
    <1>2. CASE IsCatalogMode(args)
        <2>1. \/ Resolve(args, q, arrives) \in
                    {Local("models"), Local("model"), Refusal(404, "model_not_found"),
                     Refusal(501, "model_routing_unsupported")}
              \/ /\ q.path \in GenerationPaths
                 /\ Resolve(args, q, arrives) = SelectCatalogUpstream(args.routes, q, arrives)
            BY <1>2, Zenon DEF Resolve
        <2>2. AnsweredHere(Local("models")) /\ AnsweredHere(Local("model"))
            BY DEF AnsweredHere
        <2>3. Declined(Refusal(404, "model_not_found")) /\ Declined(Refusal(501, "model_routing_unsupported"))
            BY DEF Declined, SelectionRefusals
        <2>4. CASE Resolve(args, q, arrives) \in
                    {Local("models"), Local("model"), Refusal(404, "model_not_found"),
                     Refusal(501, "model_routing_unsupported")}
            BY <2>2, <2>3, <2>4 DEF Chosen
        <2>5. CASE /\ q.path \in GenerationPaths
                   /\ Resolve(args, q, arrives) = SelectCatalogUpstream(args.routes, q, arrives)
            BY <1>2, <2>5, Selects DEF Chosen
        <2>6. QED
            BY <2>1, <2>4, <2>5
    <1>3. QED
        BY <1>1, <1>2

LEMMA OrderedChecks ==
    ASSUME NEW a, NEW b, NEW c, NEW d, NEW otherwise, NEW routed,
           routed = FirstFailure(<<a, b, c, d>>, otherwise)
    PROVE  \/ routed = otherwise /\ ~a[1] /\ ~b[1] /\ ~c[1] /\ ~d[1]
           \/ routed = a[2]
           \/ ~a[1] /\ b[1] /\ routed = b[2]
           \/ ~a[1] /\ c[1] /\ routed = c[2]
           \/ ~a[1] /\ d[1] /\ routed = d[2]
    <1> DEFINE checks == <<a, b, c, d>>
    <1>1. /\ DOMAIN checks = 1..4 /\ checks[1] = a /\ checks[2] = b /\ checks[3] = c /\ checks[4] = d
          /\ routed = FirstFailure(checks, otherwise)
        OBVIOUS
    <1> HIDE DEF checks
    <1>2. \/ routed = otherwise /\ \A i \in 1..4 : ~checks[i][1]
          \/ \E i \in 1..4 : /\ checks[i][1] /\ routed = checks[i][2]
                             /\ \A j \in 1..4 : j < i => ~checks[j][1]
        <2>1. 4 \in Nat /\ DOMAIN checks = 1..4
            BY <1>1
        <2>2. \/ /\ FirstFailure(checks, otherwise) = otherwise
                 /\ \A i \in 1..4 : ~checks[i][1]
              \/ \E i \in 1..4 :
                    /\ checks[i][1] /\ FirstFailure(checks, otherwise) = checks[i][2]
                    /\ \A j \in 1..4 : j < i => ~checks[j][1]
            BY <2>1, FirstFailureIs
        <2>3. QED
            BY <1>1, <2>2
    <1>3. CASE routed = otherwise /\ \A i \in 1..4 : ~checks[i][1]
        BY <1>1, <1>3
    <1>4. ASSUME NEW i \in 1..4, checks[i][1], routed = checks[i][2],
                 \A j \in 1..4 : j < i => ~checks[j][1]
          PROVE  \/ routed = a[2]
                 \/ ~a[1] /\ b[1] /\ routed = b[2]
                 \/ ~a[1] /\ c[1] /\ routed = c[2]
                 \/ ~a[1] /\ d[1] /\ routed = d[2]
        <2>1. i = 1 \/ ~checks[1][1]
            BY <1>4
        <2>2. i = 1 \/ i = 2 \/ i = 3 \/ i = 4
            OBVIOUS
        <2>3. QED
            BY <1>1, <1>4, <2>1, <2>2
    <1>5. QED
        BY <1>2, <1>3, <1>4

Directed(args, q, routed) ==
    \/ AnsweredHere(routed)
    \/ /\ RegisteredAt(q.path) = {} /\ routed = Refusal(404, "not_found")
    \/ /\ q.method # "OPTIONS" /\ routed = Refusal(405, "method")
       /\ \/ q.path = <<"healthz">>
          \/ \A route \in RegisteredAt(q.path) : GatewayAsks(q) \notin route.methods
    \/ /\ \E route \in RegisteredAt(q.path) : GatewayAsks(q) \in route.methods
       /\ Chosen(args, q, routed)

LEMMA Directs ==
    ASSUME NEW args, NEW q, NEW arrives
    PROVE  Directed(args, q, ResolveRoute(args, q, arrives))
    <1> DEFINE routes == RegisteredAt(q.path)
               alive == IF q.method \in {"GET", "HEAD"} THEN Local("alive") ELSE Refusal(405, "method")
               a == <<q.method = "OPTIONS", Local("preflight")>>
               b == <<q.path = <<"healthz">>, alive>>
               c == <<routes = {}, Refusal(404, "not_found")>>
               d == <<\A route \in routes : GatewayAsks(q) \notin route.methods, Refusal(405, "method")>>
               otherwise == Resolve(args, q, arrives)
    <1>1. ResolveRoute(args, q, arrives) = FirstFailure(<<a, b, c, d>>, otherwise)
        BY Zenon DEF ResolveRoute
    <1>2. /\ ~a[1] => q.method # "OPTIONS"
          /\ b[1] => q.path = <<"healthz">>
          /\ c[1] => routes = {}
          /\ d[1] => \A route \in routes : GatewayAsks(q) \notin route.methods
          /\ ~d[1] => \E route \in routes : GatewayAsks(q) \in route.methods
        OBVIOUS
    <1>3. /\ a[2] = Local("preflight") /\ b[2] = alive
          /\ c[2] = Refusal(404, "not_found") /\ d[2] = Refusal(405, "method")
        OBVIOUS
    <1>4. alive = Local("alive") \/ alive = Refusal(405, "method")
        OBVIOUS
    <1>5. AnsweredHere(Local("alive")) /\ AnsweredHere(Local("preflight"))
        BY DEF AnsweredHere
    <1>6. Chosen(args, q, otherwise)
        BY Resolves
    <1> HIDE DEF a, b, c, d, otherwise, alive
    <1>7. SUFFICES ASSUME NEW routed, routed = FirstFailure(<<a, b, c, d>>, otherwise)
                   PROVE  Directed(args, q, routed)
        BY <1>1
    <1>8. CASE routed = otherwise /\ ~d[1]
        BY <1>2, <1>6, <1>8 DEF Directed
    <1>9. CASE routed = a[2]
        BY <1>3, <1>5, <1>9 DEF Directed
    <1>10. CASE ~a[1] /\ b[1] /\ routed = b[2]
        BY <1>2, <1>3, <1>4, <1>5, <1>10 DEF Directed
    <1>11. CASE ~a[1] /\ c[1] /\ routed = c[2]
        BY <1>2, <1>3, <1>11 DEF Directed
    <1>12. CASE ~a[1] /\ d[1] /\ routed = d[2]
        BY <1>2, <1>3, <1>12 DEF Directed
    <1>13. QED
        BY <1>7, <1>8, <1>9, <1>10, <1>11, <1>12, OrderedChecks

LEMMA KindsOf ==
    ASSUME NEW status, NEW code, NEW origin, NEW id
    PROVE  /\ Local(code).kind = "local" /\ Local(code).answer.made = NoTokens
           /\ Refusal(status, code).kind = "refused" /\ Refusal(status, code).answer.made = NoTokens
           /\ Refusal(status, code).answer.code = code
           /\ Forward(origin, id).kind = "forward" /\ Forward(origin, id).origin = origin
           /\ Forward(origin, id).model = id
    BY DEF Local, Refusal, Forward, Answer

\* What a choice that was made says of the request.
Unknown(q) ==
    \/ RegisteredAt(q.path) = {}
    \/ /\ q.method # "OPTIONS"
       /\ \/ q.path = <<"healthz">>
          \/ \A route \in RegisteredAt(q.path) : GatewayAsks(q) \notin route.methods

LEMMA DirectedSays ==
    ASSUME NEW args, NEW q, NEW routed, Directed(args, q, routed)
    PROVE  /\ routed.kind # "forward" => routed.answer.made = NoTokens
           /\ routed.kind = "forward" =>
                 /\ \E route \in RegisteredAt(q.path) : GatewayAsks(q) \in route.methods
                 /\ IsCatalogMode(args) =>
                       q.path \in GenerationPaths /\ ForwardedTo(args.routes, q, routed)
           /\ routed.kind = "refused" /\ routed.answer.code \in {"not_found", "method"} => Unknown(q)
    <1>1. CASE AnsweredHere(routed)
        BY <1>1, KindsOf DEF AnsweredHere
    <1>2. CASE RegisteredAt(q.path) = {} /\ routed = Refusal(404, "not_found")
        BY <1>2, KindsOf DEF Unknown
    <1>3. CASE /\ q.method # "OPTIONS" /\ routed = Refusal(405, "method")
               /\ \/ q.path = <<"healthz">>
                  \/ \A route \in RegisteredAt(q.path) : GatewayAsks(q) \notin route.methods
        BY <1>3, KindsOf DEF Unknown
    <1>4. CASE /\ \E route \in RegisteredAt(q.path) : GatewayAsks(q) \in route.methods
               /\ Chosen(args, q, routed)
        <2>1. CASE Declined(routed)
            <3>1. PICK code \in SelectionRefusals : \E status : routed = Refusal(status, code)
                BY <2>1 DEF Declined
            <3>2. code \notin {"not_found", "method"}
                BY DEF SelectionRefusals
            <3>3. QED
                BY <3>1, <3>2, KindsOf
        <2>2. CASE ~IsCatalogMode(args) /\ routed = Forward(args.upstream, NoModel)
            BY <1>4, <2>2, KindsOf
        <2>3. CASE /\ IsCatalogMode(args) /\ q.path \in GenerationPaths
                   /\ ForwardedTo(args.routes, q, routed)
            <3>1. routed.kind = "forward"
                BY <2>3, KindsOf DEF ForwardedTo
            <3>2. QED
                BY <1>4, <2>3, <3>1
        <2>4. QED
            BY <1>1, <1>4, <2>1, <2>2, <2>3 DEF Chosen
    <1>5. QED
        BY <1>1, <1>2, <1>3, <1>4 DEF Directed

\* The gateway knows every route that a replica serves.
LEMMA UnknownIsNotServed ==
    ASSUME NEW q \in HttpRequests, Unknown(q)
    PROVE  ~IsServed(q.method, q.path)
    <1>1. q.path \in Seq(STRING)
        BY DEF HttpRequests
    <1>2. SUFFICES ASSUME NEW route \in PUBLIC_ROUTES, PathMatches(route.path, q.path),
                          MethodIsAdmitted(route, q.method)
                   PROVE  FALSE
        BY DEF IsServed
    <1>3. route \in RegisteredAt(q.path)
        BY <1>1, <1>2, RegisteredMatches
    <1>4. Len(route.path) = Len(q.path) /\ Len(route.path) \in {2, 3}
        BY <1>2, RouteCases DEF PathMatches
    <1>5. q.path # <<"healthz">>
        <2>1. Len(<<"healthz">>) = 1
            OBVIOUS
        <2>2. QED
            BY <1>4, <2>1
    <1>6. q.method # "OPTIONS" /\ GatewayAsks(q) \notin route.methods
        BY <1>3, <1>5 DEF Unknown
    <1>7. route.methods \in {{"GET"}, {"POST"}}
        BY RouteCases
    <1>8. QED
        BY <1>2, <1>6, <1>7 DEF MethodIsAdmitted, GatewayAsks
-----------------------------------------------------------------------------
(* The inductive invariant.  What a process has loaded is what it hashed for   *)
(* one reason: as long as no file with the fingerprint of the hashed one came  *)
(* to its path, a path that still has that fingerprint has held the hashed     *)
(* contents ever since.                                                        *)

Tables ==
    /\ DOMAIN phase = Replicas /\ DOMAIN conf = Replicas /\ DOMAIN env = Replicas
    /\ DOMAIN width = Replicas /\ DOMAIN identity = Replicas /\ DOMAIN loaded = Replicas
    /\ DOMAIN model = Replicas
    /\ \A r \in Replicas : phase[r] \in {"down", "started", "loading", "serving"}

DiskInv ==
    /\ DOMAIN disk = DOMAIN InitialDisk
    /\ \A path \in DOMAIN disk : disk[path].content \in Contents
    /\ \A file \in spare : file.content \in Contents

Launched(r) ==
    /\ conf[r] \in Configurations /\ Offenders(conf[r].build, conf[r].env) = {}
    /\ env[r] = WithCanonical(conf[r].env) /\ width[r] = ResolveWorkerPool(r, conf[r])

Kept(r) ==
    VerifyUnchanged(r) =>
        /\ identity[r].digest = disk[Path(r)].content.digest
        /\ \A i \in 1..Len(loaded[r]) : loaded[r][i] = disk[Path(r)].content

Digested(r) == \E content \in Contents : identity[r].digest = content.digest

Whole(r, content) ==
    identity[r].digest = content.digest /\ loaded[r] = <<content, content>>

Serves(r, content) == model[r] = ServedModel(content, Path(r), conf[r].requested.path)

ProcessInv(r) ==
    /\ phase[r] # "down" => Launched(r)
    /\ phase[r] \in {"down", "started"} => loaded[r] = <<>>
    /\ phase[r] \in {"loading", "serving"} => Digested(r)
    /\ phase[r] = "loading" => loaded[r] \in Seq(Contents) /\ (r \in disturbed \/ Kept(r))
    /\ phase[r] = "serving" => \E content \in Contents :
                                  Serves(r, content) /\ (r \in disturbed \/ Whole(r, content))

VerifiedInv ==
    /\ DOMAIN gateway = {"phase", "args", "unchecked"}
    /\ gateway.phase = "down" => verified = {}
    /\ \A r \in verified :
          /\ r \in Replicas /\ phase[r] = "serving"
          /\ IsCatalogMode(gateway.args) =>
                IdsAt(gateway.args.routes, OriginOf[r]) \subseteq {model[r].id}

\* Evidence of a process that read one content whole, under one configuration.
Sound(e) ==
    \E c \in Configurations, content \in Contents :
        /\ e.record.admission = ComputeAdmission(c.build)
        /\ e.record.engine = c.build.engine /\ e.record.model = content.digest
        /\ e.from = [contents |-> <<content, content>>, engine |-> e.record.engine,
                     host |-> e.record.host, workers |-> e.record.workers]
        /\ e.refuses = [d \in Configurations |-> Offenders(c.build, d.env)]
        /\ e.model.template = content.template
        /\ e.model.startsWithBos = content.startsWithBos

ServingInv ==
    /\ Tables /\ DiskInv /\ VerifiedInv
    /\ \A r \in Replicas : ProcessInv(r)
    /\ witness = NoRecord \/ Sound(witness)

LEMMA ServingInit == Init => ServingInv
    <1> SUFFICES ASSUME Init PROVE ServingInv
        OBVIOUS
    <1>1. Tables
        BY DEF Init, Tables
    <1>2. DiskInv
        BY DEF Init, DiskInv, Files, Contents
    <1>3. VerifiedInv
        BY DEF Init, VerifiedInv
    <1>4. \A r \in Replicas : ProcessInv(r)
        BY DEF Init, ProcessInv
    <1>5. QED
        BY <1>1, <1>2, <1>3, <1>4 DEF Init, ServingInv

\* A process whose state and whose disk stay is as it was.
LEMMA Untouched ==
    ASSUME NEW s \in Replicas, ProcessInv(s), phase'[s] = phase[s], conf'[s] = conf[s],
           env'[s] = env[s], width'[s] = width[s], identity'[s] = identity[s],
           loaded'[s] = loaded[s], model'[s] = model[s], disk' = disk,
           s \in disturbed => s \in disturbed'
    PROVE  ProcessInv(s)'
    <1>1. Launched(s) => Launched(s)'
        BY Zenon DEF Launched
    <1>2. Kept(s) => Kept(s)'
        BY Zenon DEF Kept, VerifyUnchanged, Path
    <1>3. ASSUME NEW content
          PROVE  /\ Whole(s, content) => Whole(s, content)'
                 /\ Serves(s, content) => Serves(s, content)'
        BY Zenon DEF Whole, Serves, Path
    <1>4. Digested(s) => Digested(s)'
        BY Zenon DEF Digested
    <1>5. QED
        BY <1>1, <1>2, <1>3, <1>4 DEF ProcessInv

LEMMA StartKeeps ==
    ASSUME ServingInv, NEW r \in Replicas, Start(r)
    PROVE  ServingInv'
    <1>1. PICK c \in Configurations :
            /\ phase[r] = "down" /\ ~ApplyDeterministic(c).refused
            /\ phase' = [phase EXCEPT ![r] = "started"]
            /\ conf' = [conf EXCEPT ![r] = c]
            /\ env' = [env EXCEPT ![r] = ApplyDeterministic(c).env]
            /\ width' = [width EXCEPT ![r] = ResolveWorkerPool(r, c)]
            /\ UNCHANGED <<identity, loaded, model, diskVars, gateway, historyVars>>
        BY Zenon DEF Start
    <1>2. /\ Tables /\ DiskInv /\ VerifiedInv /\ \A s \in Replicas : ProcessInv(s)
          /\ witness = NoRecord \/ Sound(witness)
        BY DEF ServingInv
    <1>3. Tables'
        BY <1>1, <1>2 DEF Tables
    <1>4. DiskInv'
        BY <1>1, <1>2 DEF DiskInv, diskVars
    <1>5. VerifiedInv'
        <2>1. \A s \in verified : s # r
            BY <1>1, <1>2 DEF VerifiedInv
        <2>2. \A s \in verified : phase'[s] = phase[s]
            BY <1>1, <1>2, <2>1 DEF Tables, VerifiedInv
        <2>3. QED
            BY <1>1, <1>2, <2>2 DEF VerifiedInv, historyVars
    <1>6. ASSUME NEW s \in Replicas PROVE ProcessInv(s)'
        <2>1. CASE s = r
            <3>1. /\ phase'[r] = "started" /\ conf'[r] = c /\ env'[r] = ApplyDeterministic(c).env
                  /\ width'[r] = ResolveWorkerPool(r, c) /\ loaded'[r] = <<>>
                BY <1>1, <1>2 DEF Tables, ProcessInv
            <3>2. Offenders(c.build, c.env) = {} /\ ApplyDeterministic(c).env = WithCanonical(c.env)
                BY <1>1 DEF ApplyDeterministic
            <3>3. Launched(r)'
                BY <3>1, <3>2, Zenon DEF Launched
            <3>4. QED
                BY <2>1, <3>1, <3>3 DEF ProcessInv
        <2>2. CASE s # r
            <3>1. /\ phase'[s] = phase[s] /\ conf'[s] = conf[s] /\ env'[s] = env[s]
                  /\ width'[s] = width[s]
                BY <1>1, <1>2, <2>2 DEF Tables
            <3>2. QED
                BY <1>1, <1>2, <3>1, Untouched DEF diskVars, historyVars
        <2>3. QED
            BY <2>1, <2>2
    <1>7. witness' = NoRecord \/ Sound(witness)'
        BY <1>1, <1>2, Zenon DEF historyVars, Sound
    <1>8. QED
        BY <1>3, <1>4, <1>5, <1>6, <1>7 DEF ServingInv

LEMMA IdentifyKeeps ==
    ASSUME ServingInv, NEW r \in Replicas, Identify(r)
    PROVE  ServingInv'
    <1>0. PICK file : file = disk[Path(r)]
        OBVIOUS
    <1>1. /\ phase[r] = "started"
          /\ identity' = [identity EXCEPT ![r] =
                [digest |-> file.content.digest, fingerprint |-> FileFingerprint(file)]]
          /\ phase' = [phase EXCEPT ![r] = "loading"]
          /\ UNCHANGED <<conf, env, width, loaded, model, diskVars, gateway, historyVars>>
        BY <1>0, Zenon DEF Identify
    <1>2. /\ Tables /\ DiskInv /\ VerifiedInv /\ \A s \in Replicas : ProcessInv(s)
          /\ witness = NoRecord \/ Sound(witness)
        BY DEF ServingInv
    <1>3. Tables'
        BY <1>1, <1>2 DEF Tables
    <1>4. DiskInv'
        BY <1>1, <1>2 DEF DiskInv, diskVars
    <1>5. VerifiedInv'
        <2>1. \A s \in verified : s # r
            BY <1>1, <1>2 DEF VerifiedInv
        <2>2. \A s \in verified : phase'[s] = phase[s]
            BY <1>1, <1>2, <2>1 DEF Tables, VerifiedInv
        <2>3. QED
            BY <1>1, <1>2, <2>2 DEF VerifiedInv, historyVars
    <1>6. ASSUME NEW s \in Replicas PROVE ProcessInv(s)'
        <2>1. CASE s = r
            <3>1. Launched(r) /\ loaded[r] = <<>>
                BY <1>1, <1>2 DEF ProcessInv
            <3>2. Launched(r)'
                BY <1>1, <3>1, Zenon DEF Launched
            <3>3. file.content \in Contents
                <4>1. Path(r) \in DOMAIN disk
                    BY <1>2, <3>1, ConfigurationAssumption DEF Launched, Path, DiskInv
                <4>2. QED
                    BY <1>0, <1>2, <4>1 DEF DiskInv
            <3>4. /\ phase'[r] = "loading" /\ loaded'[r] = <<>>
                  /\ identity'[r].digest = file.content.digest
                BY <1>1, <1>2, <3>1 DEF Tables
            <3>5. disk'[Path(r)'] = file
                BY <1>0, <1>1, Zenon DEF Path, diskVars
            <3>6. Kept(r)'
                BY <3>4, <3>5 DEF Kept
            <3>7. Digested(r)'
                BY <3>3, <3>4 DEF Digested
            <3>8. loaded'[r] \in Seq(Contents)
                BY <3>4, EmptySeq
            <3>9. QED
                BY <2>1, <3>2, <3>4, <3>6, <3>7, <3>8 DEF ProcessInv
        <2>2. CASE s # r
            <3>1. phase'[s] = phase[s] /\ identity'[s] = identity[s]
                BY <1>1, <1>2, <2>2 DEF Tables
            <3>2. QED
                BY <1>1, <1>2, <3>1, Untouched DEF diskVars, historyVars
        <2>3. QED
            BY <2>1, <2>2
    <1>7. witness' = NoRecord \/ Sound(witness)'
        BY <1>1, <1>2, Zenon DEF historyVars, Sound
    <1>8. QED
        BY <1>3, <1>4, <1>5, <1>6, <1>7 DEF ServingInv

LEMMA OneMore ==
    ASSUME NEW S, NEW t \in Seq(S), NEW e \in S
    PROVE  /\ Append(t, e) \in Seq(S)
           /\ \A i \in 1..Len(Append(t, e)) :
                 \/ Append(t, e)[i] = e
                 \/ i \in 1..Len(t) /\ Append(t, e)[i] = t[i]
    BY AppendProperties

LEMMA ReadKeeps ==
    ASSUME ServingInv, NEW r \in Replicas, Read(r)
    PROVE  ServingInv'
    <1> DEFINE content == disk[Path(r)].content
    <1>1. /\ phase[r] = "loading"
          /\ loaded' = [loaded EXCEPT ![r] = Append(loaded[r], content)]
          /\ UNCHANGED <<phase, conf, env, width, identity, model, diskVars, gateway, historyVars>>
        BY DEF Read
    <1>2. /\ Tables /\ DiskInv /\ VerifiedInv /\ \A s \in Replicas : ProcessInv(s)
          /\ witness = NoRecord \/ Sound(witness)
        BY DEF ServingInv
    <1>3. Tables'
        BY <1>1, <1>2 DEF Tables
    <1>4. DiskInv'
        BY <1>1, <1>2 DEF DiskInv, diskVars
    <1>5. VerifiedInv'
        BY <1>1, <1>2 DEF VerifiedInv, historyVars
    <1>6. ASSUME NEW s \in Replicas PROVE ProcessInv(s)'
        <2>1. CASE s = r
            <3>1. /\ Launched(r) /\ loaded[r] \in Seq(Contents) /\ Digested(r)
                  /\ r \in disturbed \/ Kept(r)
                BY <1>1, <1>2 DEF ProcessInv
            <3>2. Launched(r)' /\ Digested(r)'
                BY <1>1, <3>1, Zenon DEF Launched, Digested
            <3>3. content \in Contents
                <4>1. Path(r) \in DOMAIN disk
                    BY <1>2, <3>1, ConfigurationAssumption DEF Launched, Path, DiskInv
                <4>2. QED
                    BY <1>2, <4>1 DEF DiskInv
            <3>4. loaded'[r] = Append(loaded[r], content)
                BY <1>1, <1>2 DEF Tables
            <3>5. /\ VerifyUnchanged(r)' <=> VerifyUnchanged(r)
                  /\ disk'[Path(r)'].content = content /\ identity' = identity
                BY <1>1, Zenon DEF VerifyUnchanged, Path, diskVars
            <3>6. Kept(r) => (VerifyUnchanged(r) =>
                                  /\ identity[r].digest = content.digest
                                  /\ \A i \in 1..Len(loaded[r]) : loaded[r][i] = content)
                BY DEF Kept
            <3> HIDE DEF content
            <3>7. /\ loaded'[r] \in Seq(Contents)
                  /\ \A i \in 1..Len(loaded'[r]) :
                        \/ loaded'[r][i] = content
                        \/ i \in 1..Len(loaded[r]) /\ loaded'[r][i] = loaded[r][i]
                BY <3>1, <3>3, <3>4, OneMore
            <3>8. Kept(r) => Kept(r)'
                <4>1. SUFFICES ASSUME Kept(r), VerifyUnchanged(r)'
                               PROVE  /\ identity'[r].digest = content.digest
                                      /\ \A i \in 1..Len(loaded'[r]) : loaded'[r][i] = content
                    BY <3>5, Zenon DEF Kept
                <4>2. /\ identity[r].digest = content.digest
                      /\ \A i \in 1..Len(loaded[r]) : loaded[r][i] = content
                    BY <3>5, <3>6, <4>1, Zenon
                <4>3. QED
                    BY <3>5, <3>7, <4>2, Zenon
            <3>9. QED
                BY <1>1, <2>1, <3>1, <3>2, <3>7, <3>8 DEF ProcessInv, historyVars
        <2>2. CASE s # r
            <3>1. loaded'[s] = loaded[s]
                BY <1>1, <1>2, <2>2 DEF Tables
            <3>2. QED
                BY <1>1, <1>2, <3>1, Untouched DEF diskVars, historyVars
        <2>3. QED
            BY <2>1, <2>2
    <1>7. witness' = NoRecord \/ Sound(witness)'
        BY <1>1, <1>2, Zenon DEF historyVars, Sound
    <1>8. QED
        BY <1>3, <1>4, <1>5, <1>6, <1>7 DEF ServingInv

LEMMA DownKeeps ==
    ASSUME ServingInv, NEW r \in Replicas, Down(r)
    PROVE  ServingInv'
    <1>1. /\ phase' = [phase EXCEPT ![r] = "down"]
          /\ conf' = [conf EXCEPT ![r] = NoConfiguration]
          /\ env' = [env EXCEPT ![r] = <<>>] /\ width' = [width EXCEPT ![r] = 0]
          /\ identity' = [identity EXCEPT ![r] = NoIdentity]
          /\ loaded' = [loaded EXCEPT ![r] = <<>>]
          /\ model' = [model EXCEPT ![r] = NoServed]
          /\ verified' = verified \ {r} /\ disturbed' = disturbed \ {r}
          /\ UNCHANGED <<diskVars, gateway, witness>>
        BY DEF Down
    <1>2. /\ Tables /\ DiskInv /\ VerifiedInv /\ \A s \in Replicas : ProcessInv(s)
          /\ witness = NoRecord \/ Sound(witness)
        BY DEF ServingInv
    <1>3. Tables'
        BY <1>1, <1>2 DEF Tables
    <1>4. DiskInv'
        BY <1>1, <1>2 DEF DiskInv, diskVars
    <1>5. VerifiedInv'
        <2>1. \A s \in verified \ {r} : phase'[s] = phase[s] /\ model'[s] = model[s]
            BY <1>1, <1>2 DEF Tables, VerifiedInv
        <2>2. QED
            BY <1>1, <1>2, <2>1 DEF VerifiedInv
    <1>6. ASSUME NEW s \in Replicas PROVE ProcessInv(s)'
        <2>1. CASE s = r
            <3>1. phase'[r] = "down" /\ loaded'[r] = <<>>
                BY <1>1, <1>2 DEF Tables
            <3>2. QED
                BY <2>1, <3>1 DEF ProcessInv
        <2>2. CASE s # r
            <3>1. /\ phase'[s] = phase[s] /\ conf'[s] = conf[s] /\ env'[s] = env[s]
                  /\ width'[s] = width[s] /\ identity'[s] = identity[s]
                  /\ loaded'[s] = loaded[s] /\ model'[s] = model[s]
                BY <1>1, <1>2, <2>2 DEF Tables
            <3>2. QED
                BY <1>1, <1>2, <2>2, <3>1, Untouched DEF diskVars
        <2>3. QED
            BY <2>1, <2>2
    <1>7. witness' = NoRecord \/ Sound(witness)'
        BY <1>1, <1>2, Zenon DEF Sound
    <1>8. QED
        BY <1>3, <1>4, <1>5, <1>6, <1>7 DEF ServingInv

\* The contents that are still there are those that were hashed, and were read throughout.
LEMMA ReadIsHashed ==
    ASSUME ServingInv, NEW r \in Replicas, phase[r] = "loading", Len(loaded[r]) = 2,
           VerifyUnchanged(r)
    PROVE  \E content \in Contents :
              content = loaded[r][1] /\ (r \in disturbed \/ Whole(r, content))
    <1>1. /\ Launched(r) /\ loaded[r] \in Seq(Contents) /\ (r \in disturbed \/ Kept(r))
        BY DEF ServingInv, ProcessInv
    <1>2. PICK read \in Seq(Contents) : read = loaded[r]
        BY <1>1
    <1>3. PICK content \in Contents : content = loaded[r][1]
        BY <1>2
    <1>4. ASSUME Kept(r) PROVE Whole(r, content)
        <2>1. PICK found : found = disk[Path(r)].content
            OBVIOUS
        <2>2. /\ identity[r].digest = found.digest
              /\ \A i \in 1..Len(loaded[r]) : loaded[r][i] = found
            BY <1>4, <2>1, Zenon DEF Kept
        <2>3. found = content /\ loaded[r][2] = content
            BY <1>3, <2>2
        <2>4. <<content, content>> \in Seq(Contents) /\ Len(<<content, content>>) = 2
            BY <1>3
        <2>5. Len(read) = 2 /\ \A i \in 1..2 : read[i] = <<content, content>>[i]
            BY <1>2, <1>3, <2>3
        <2>6. read = <<content, content>>
            BY <2>4, <2>5, SeqEqual
        <2>7. QED
            BY <1>2, <2>2, <2>3, <2>6, Zenon DEF Whole
    <1>5. QED
        BY <1>1, <1>3, <1>4

LEMMA EvidenceIsSound ==
    ASSUME NEW r \in Replicas, NEW served, Launched(r), NEW content \in Contents,
           Whole(r, content),
           served.template = content.template,
           served.startsWithBos = content.startsWithBos
    PROVE  Sound(Evidence(r, served))
    <1>1. PICK c \in Configurations : c = conf[r]
        BY DEF Launched
    <1>2. identity[r].digest = content.digest /\ loaded[r] = <<content, content>>
        BY DEF Whole
    <1> DEFINE e == Evidence(r, served)
    <1>3. /\ e.record = Record(r) /\ e.model = served
          /\ e.from = [contents |-> loaded[r], engine |-> conf[r].build.engine,
                       host |-> HostOf[r].summary, workers |-> width[r]]
          /\ e.refuses = [d \in Configurations |-> Offenders(conf[r].build, d.env)]
        BY DEF Evidence
    <1> HIDE DEF e
    <1>4. /\ Record(r).admission = ComputeAdmission(c.build)
          /\ Record(r).engine = c.build.engine /\ Record(r).model = content.digest
          /\ Record(r).host = HostOf[r].summary /\ Record(r).workers = width[r]
        BY <1>1, <1>2 DEF Record, EngineDigest
    <1>5. e.from = [contents |-> <<content, content>>, engine |-> e.record.engine,
                    host |-> e.record.host, workers |-> e.record.workers]
        BY <1>1, <1>2, <1>3, <1>4
    <1>6. e.refuses = [d \in Configurations |-> Offenders(c.build, d.env)]
        BY <1>1, <1>3, Zenon
    <1>7. Sound(e)
        <2>1. /\ e.record.admission = ComputeAdmission(c.build)
              /\ e.record.engine = c.build.engine /\ e.record.model = content.digest
            BY <1>3, <1>4, Zenon
        <2>2. e.model.template = content.template /\ e.model.startsWithBos = content.startsWithBos
            BY <1>2, <1>3
        <2>3. QED
            BY <1>5, <1>6, <2>1, <2>2, Zenon DEF Sound
    <1>8. QED
        BY <1>7 DEF e

LEMMA ServeKeeps ==
    ASSUME ServingInv, NEW r \in Replicas, Serve(r)
    PROVE  ServingInv'
    <1>1. CASE Down(r)
        BY <1>1, DownKeeps
    <1>2. CASE ~Down(r)
        <2> DEFINE was == ServedModel(loaded[r][1], Path(r), conf[r].requested.path)
        <2>1. PICK served : served = was
            OBVIOUS
        <2>2. /\ phase[r] = "loading" /\ Len(loaded[r]) = 2 /\ VerifyUnchanged(r)
              /\ phase' = [phase EXCEPT ![r] = "serving"]
              /\ model' = [model EXCEPT ![r] = served]
              /\ witness' \in {witness} \cup IF ToBeCompared(r) THEN {Evidence(r, served)} ELSE {}
              /\ UNCHANGED <<conf, env, width, identity, loaded, diskVars, gateway,
                             verified, disturbed>>
            BY <1>2, <2>1, Zenon DEF Serve, Reads
        <2>3. /\ Tables /\ DiskInv /\ VerifiedInv /\ \A s \in Replicas : ProcessInv(s)
              /\ witness = NoRecord \/ Sound(witness)
            BY DEF ServingInv
        <2>4. PICK content \in Contents :
                    content = loaded[r][1] /\ (r \in disturbed \/ Whole(r, content))
            BY <2>2, ReadIsHashed
        <2>5. Launched(r) /\ Digested(r)
            BY <2>2, <2>3 DEF ProcessInv
        <2>6. served = ServedModel(content, Path(r), conf[r].requested.path)
            BY <2>1, <2>4, Zenon
        <2>7. Tables'
            BY <2>2, <2>3 DEF Tables
        <2>8. DiskInv'
            BY <2>2, <2>3 DEF DiskInv, diskVars
        <2>9. VerifiedInv'
            <3>1. \A s \in verified : s # r
                BY <2>2, <2>3 DEF VerifiedInv
            <3>2. \A s \in verified : phase'[s] = phase[s] /\ model'[s] = model[s]
                BY <2>2, <2>3, <3>1 DEF Tables, VerifiedInv
            <3>3. QED
                BY <2>2, <2>3, <3>2 DEF VerifiedInv
        <2>10. ASSUME NEW s \in Replicas PROVE ProcessInv(s)'
            <3>1. CASE s = r
                <4>1. phase'[r] = "serving" /\ model'[r] = served
                    BY <2>2, <2>3 DEF Tables
                <4>2. Launched(r)' /\ Digested(r)'
                    BY <2>2, <2>5, Zenon DEF Launched, Digested
                <4>3. Serves(r, content)'
                    BY <2>2, <2>6, <4>1, Zenon DEF Serves, Path
                <4>4. r \in disturbed' \/ Whole(r, content)'
                    BY <2>2, <2>4, Zenon DEF Whole
                <4>5. QED
                    BY <3>1, <4>1, <4>2, <4>3, <4>4 DEF ProcessInv
            <3>2. CASE s # r
                <4>1. phase'[s] = phase[s] /\ model'[s] = model[s]
                    BY <2>2, <2>3, <3>2 DEF Tables
                <4>2. QED
                    BY <2>2, <2>3, <4>1, Untouched DEF diskVars
            <3>3. QED
                BY <3>1, <3>2
        <2>11. witness' = NoRecord \/ Sound(witness)'
            <3>1. CASE witness' = witness
                BY <2>3, <3>1, Zenon DEF Sound
            <3>2. CASE ToBeCompared(r) /\ witness' = Evidence(r, served)
                <4>1. /\ served.template = content.template
                      /\ served.startsWithBos = content.startsWithBos
                    BY <2>6 DEF ServedModel
                <4>2. Sound(Evidence(r, served))
                    BY <2>4, <2>5, <3>2, <4>1, EvidenceIsSound DEF ToBeCompared
                <4>3. QED
                    BY <3>2, <4>2, Zenon DEF Sound
            <3>3. QED
                BY <2>2, <3>1, <3>2
        <2>12. QED
            BY <2>7, <2>8, <2>9, <2>10, <2>11 DEF ServingInv
    <1>3. QED
        BY <1>1, <1>2

\* What comes to a path with another fingerprint is not what a process hashed there, and
\* with the same one it makes the process a disturbed one.
LEMMA PutKeeps ==
    ASSUME ServingInv, NEW path \in DOMAIN disk, NEW file, file.content \in Contents,
           Put(path, file), \A other \in spare' : other.content \in Contents
    PROVE  ServingInv'
    <1>1. /\ disk' = [disk EXCEPT ![path] = file]
          /\ disturbed' = disturbed \cup {r \in Replicas :
                                /\ phase[r] = "loading" /\ Path(r) = path
                                /\ FileFingerprint(file) = identity[r].fingerprint}
          /\ UNCHANGED <<replicaVars, gateway, verified, witness>>
        BY DEF Put
    <1>2. /\ Tables /\ DiskInv /\ VerifiedInv /\ \A s \in Replicas : ProcessInv(s)
          /\ witness = NoRecord \/ Sound(witness)
        BY DEF ServingInv
    <1>3. Tables'
        BY <1>1, <1>2 DEF Tables, replicaVars
    <1>4. DiskInv'
        BY <1>1, <1>2 DEF DiskInv
    <1>5. VerifiedInv'
        BY <1>1, <1>2 DEF VerifiedInv, replicaVars
    <1>6. ASSUME NEW s \in Replicas PROVE ProcessInv(s)'
        <2>1. /\ phase' = phase /\ conf' = conf /\ env' = env /\ width' = width
              /\ identity' = identity /\ loaded' = loaded /\ model' = model
            BY <1>1 DEF replicaVars
        <2>2. Launched(s) => Launched(s)'
            BY <2>1, Zenon DEF Launched
        <2>3. Digested(s) => Digested(s)'
            BY <2>1, Zenon DEF Digested
        <2>4. ASSUME NEW content
              PROVE  /\ Whole(s, content) => Whole(s, content)'
                     /\ Serves(s, content) => Serves(s, content)'
            BY <2>1, Zenon DEF Whole, Serves, Path
        <2>5. s \in disturbed => s \in disturbed'
            BY <1>1
        <2>6. ASSUME phase[s] = "loading", Launched(s), Kept(s)
              PROVE  s \in disturbed' \/ Kept(s)'
            <3>1. Path(s)' = Path(s) /\ Path(s) \in DOMAIN disk
                BY <1>2, <2>1, <2>6, ConfigurationAssumption DEF Path, Launched, DiskInv
            <3>2. CASE Path(s) = path /\ FileFingerprint(file) = identity[s].fingerprint
                BY <1>1, <2>6, <3>2
            <3>3. CASE Path(s) = path /\ FileFingerprint(file) # identity[s].fingerprint
                <4>1. disk'[Path(s)'] = file
                    BY <1>1, <3>1, <3>3
                <4>2. ~VerifyUnchanged(s)'
                    BY <2>1, <3>3, <4>1 DEF VerifyUnchanged, FileFingerprint
                <4>3. QED
                    BY <4>2 DEF Kept
            <3>4. CASE Path(s) # path
                <4>1. disk'[Path(s)'] = disk[Path(s)]
                    BY <1>1, <3>1, <3>4
                <4>2. QED
                    BY <2>1, <2>6, <4>1, Zenon DEF Kept, VerifyUnchanged, FileFingerprint
            <3>5. QED
                BY <3>2, <3>3, <3>4
        <2>7. ProcessInv(s)
            BY <1>2
        <2>8. QED
            BY <2>1, <2>2, <2>3, <2>4, <2>5, <2>6, <2>7 DEF ProcessInv
    <1>7. witness' = NoRecord \/ Sound(witness)'
        BY <1>1, <1>2, Zenon DEF Sound
    <1>8. QED
        BY <1>3, <1>4, <1>5, <1>6, <1>7 DEF ServingInv

LEMMA DiskKeeps ==
    ASSUME ServingInv, NEW path \in WritablePaths, Move(path) \/ Rewrite(path)
    PROVE  ServingInv'
    <1>1. /\ path \in DOMAIN disk /\ disk[path].content \in Contents
          /\ \A other \in spare : other.content \in Contents
        BY DiskAssumption DEF ServingInv, DiskInv
    <1>2. CASE Move(path)
        <2>1. PICK file \in spare : /\ Put(path, file)
                                    /\ spare' = (spare \ {file}) \cup {disk[path]}
            BY <1>2, Zenon DEF Move
        <2>2. QED
            BY <1>1, <2>1, PutKeeps
    <1>3. CASE Rewrite(path)
        <2>1. PICK content \in Contents :
                    /\ Put(path, [inode |-> disk[path].inode, content |-> content])
                    /\ spare' = spare
            BY <1>3, Zenon DEF Rewrite
        <2>2. [inode |-> disk[path].inode, content |-> content].content = content
            OBVIOUS
        <2>3. PICK file : file = [inode |-> disk[path].inode, content |-> content]
            OBVIOUS
        <2>4. Put(path, file) /\ file.content = content
            BY <2>1, <2>2, <2>3, Zenon
        <2>5. QED
            BY <1>1, <2>1, <2>4, PutKeeps
    <1>4. QED
        BY <1>2, <1>3

LEMMA GatewayAlone ==
    ASSUME ServingInv, UNCHANGED <<replicaVars, diskVars, witness, disturbed>>, VerifiedInv'
    PROVE  ServingInv'
    <1>1. /\ Tables /\ DiskInv /\ \A s \in Replicas : ProcessInv(s)
          /\ witness = NoRecord \/ Sound(witness)
        BY DEF ServingInv
    <1>2. Tables' /\ DiskInv'
        BY <1>1 DEF Tables, DiskInv, replicaVars, diskVars
    <1>3. ASSUME NEW s \in Replicas PROVE ProcessInv(s)'
        BY <1>1, Untouched DEF replicaVars, diskVars
    <1>4. witness' = NoRecord \/ Sound(witness)'
        BY <1>1, Zenon DEF Sound
    <1>5. QED
        BY <1>2, <1>3, <1>4 DEF ServingInv

\* The replica that is asked at an origin is the one that listens there.
LEMMA AskedAt ==
    ASSUME NEW origin, ReplicaAt(origin) # NoReplica
    PROVE  ReplicaAt(origin) \in Replicas /\ OriginOf[ReplicaAt(origin)] = origin
    BY DEF ReplicaAt

LEMMA GatewayDownKeeps == ServingInv /\ GatewayDown => ServingInv'
    <1> SUFFICES ASSUME ServingInv, GatewayDown PROVE ServingInv'
        OBVIOUS
    <1>1. DOMAIN gateway' = {"phase", "args", "unchecked"} /\ verified' = {}
        BY DEF GatewayDown, ServingInv, VerifiedInv
    <1>2. VerifiedInv'
        BY <1>1 DEF VerifiedInv
    <1>3. QED
        BY <1>2, GatewayAlone DEF GatewayDown

LEMMA GatewayKeeps == ServingInv /\ GatewayStep => ServingInv'
    <1> SUFFICES ASSUME ServingInv, GatewayStep PROVE ServingInv'
        OBVIOUS
    <1>1. VerifiedInv /\ Tables
        BY DEF ServingInv
    <1>2. CASE StartGateway
        <2>1. VerifiedInv'
            <3>1. gateway.phase = "down" /\ verified' = verified
                BY <1>2 DEF StartGateway, historyVars
            <3>2. verified' = {}
                BY <1>1, <3>1 DEF VerifiedInv
            <3>3. DOMAIN gateway' = {"phase", "args", "unchecked"}
                BY <1>2 DEF StartGateway
            <3>4. QED
                BY <3>2, <3>3 DEF VerifiedInv
        <2>2. QED
            BY <1>2, <2>1, GatewayAlone DEF StartGateway, historyVars
    <1>3. CASE VerifyOrigin
        <2>1. PICK origin \in gateway.unchecked :
                LET r == ReplicaAt(origin)
                IN  /\ gateway.phase = "verifying"
                    /\ IF /\ r # NoReplica /\ phase[r] = "serving"
                          /\ OriginVerifies(gateway.args.routes, origin, model[r])
                       THEN /\ gateway' = [gateway EXCEPT !.unchecked = @ \ {origin}]
                            /\ verified' = verified \cup {r}
                            /\ UNCHANGED <<replicaVars, diskVars, witness, disturbed>>
                       ELSE GatewayDown
            BY <1>3, Zenon DEF VerifyOrigin
        <2> DEFINE at == ReplicaAt(origin)
        <2>2. PICK r : r = at
            OBVIOUS
        <2>3. CASE GatewayDown
            BY <2>3, GatewayDownKeeps
        <2>4. CASE ~GatewayDown
            <3>1. /\ r # NoReplica /\ phase[r] = "serving" /\ gateway.phase = "verifying"
                  /\ OriginVerifies(gateway.args.routes, origin, model[r])
                  /\ gateway' = [gateway EXCEPT !.unchecked = gateway.unchecked \ {origin}]
                  /\ verified' = verified \cup {r}
                  /\ UNCHANGED <<replicaVars, diskVars, witness, disturbed>>
                BY <2>1, <2>2, <2>4, Zenon
            <3>2. r \in Replicas /\ OriginOf[r] = origin
                BY <2>2, <3>1, AskedAt
            <3>3. IdsAt(gateway.args.routes, OriginOf[r]) \subseteq {model[r].id}
                BY <3>1, <3>2, Zenon DEF OriginVerifies
            <3>4. /\ DOMAIN gateway' = {"phase", "args", "unchecked"}
                  /\ gateway'.phase = "verifying" /\ gateway'.args = gateway.args
                BY <1>1, <3>1 DEF VerifiedInv
            <3>5. phase' = phase /\ model' = model
                BY <3>1 DEF replicaVars
            <3>6. ASSUME NEW s \in verified'
                  PROVE  /\ s \in Replicas /\ phase'[s] = "serving"
                         /\ IsCatalogMode(gateway'.args) =>
                               IdsAt(gateway'.args.routes, OriginOf[s]) \subseteq {model'[s].id}
                <4>1. CASE s = r
                    BY <3>1, <3>2, <3>3, <3>4, <3>5, <4>1
                <4>2. CASE s \in verified
                    BY <1>1, <3>4, <3>5, <4>2 DEF VerifiedInv
                <4>3. QED
                    BY <3>1, <4>1, <4>2
            <3>7. VerifiedInv'
                BY <3>4, <3>6 DEF VerifiedInv
            <3>8. QED
                BY <3>1, <3>7, GatewayAlone
        <2>5. QED
            BY <2>3, <2>4
    <1>4. CASE Listen
        <2>1. CASE GatewayDown
            BY <2>1, GatewayDownKeeps
        <2>2. CASE ~GatewayDown
            <3>1. /\ gateway.phase = "verifying"
                  /\ gateway' = [gateway EXCEPT !.phase = "serving"]
                  /\ UNCHANGED <<replicaVars, diskVars, historyVars>>
                BY <1>4, <2>2 DEF Listen
            <3>2. VerifiedInv'
                BY <1>1, <3>1 DEF VerifiedInv, replicaVars, historyVars
            <3>3. QED
                BY <3>1, <3>2, GatewayAlone DEF historyVars
        <2>3. QED
            BY <2>1, <2>2
    <1>5. CASE StopGateway
        BY <1>5, GatewayDownKeeps DEF StopGateway
    <1>6. QED
        BY <1>2, <1>3, <1>4, <1>5 DEF GatewayStep

LEMMA StillKeeps ==
    ASSUME ServingInv, UNCHANGED <<diskVars, replicaVars, gateway, historyVars>>
    PROVE  ServingInv'
    <1>1. VerifiedInv'
        BY DEF ServingInv, VerifiedInv, replicaVars, historyVars
    <1>2. QED
        BY <1>1, GatewayAlone DEF historyVars

LEMMA ServingStep == ServingInv /\ [Next]_vars => ServingInv'
    <1> SUFFICES ASSUME ServingInv, [Next]_vars PROVE ServingInv'
        OBVIOUS
    <1>1. CASE \E r \in Replicas : ReplicaStep(r)
        <2>1. PICK r \in Replicas : ReplicaStep(r)
            BY <1>1
        <2>2. QED
            BY <2>1, StartKeeps, IdentifyKeeps, ReadKeeps, ServeKeeps, DownKeeps DEF ReplicaStep, Die
    <1>2. CASE GatewayStep
        BY <1>2, GatewayKeeps
    <1>3. CASE \E path \in WritablePaths : Move(path) \/ Rewrite(path)
        BY <1>3, DiskKeeps
    <1>4. CASE AskGateway \/ AskDirectly
        BY <1>4, StillKeeps DEF AskGateway, AskDirectly, Ask
    <1>5. CASE UNCHANGED vars
        BY <1>5, StillKeeps DEF vars
    <1>6. QED
        BY <1>1, <1>2, <1>3, <1>4, <1>5 DEF Next

\* What every state has in common: what the processes hold is what they published.
THEOREM Invariant == Spec => []ServingInv
    <1>1. QED
        BY ServingInit, ServingStep, PTL DEF Spec
-----------------------------------------------------------------------------
(* The environment *)

LEMMA PrefixIs ==
    ASSUME NEW A, NEW B, NEW s \in Seq(A), NEW t \in Seq(B)
    PROVE  IsPrefix(s, t) <=> Len(s) <= Len(t) /\ \A i \in 1..Len(s) : s[i] = t[i]
    <1> DEFINE S == A \cup B
               n == Len(s)
    <1>1. s \in Seq(S) /\ t \in Seq(S) /\ n \in Nat /\ Len(t) \in Nat
        <2>1. A \subseteq S /\ B \subseteq S
            OBVIOUS
        <2> HIDE DEF S
        <2>2. QED
            BY <2>1, SeqMonotonic
    <1> HIDE DEF S
    <1>2. ASSUME n <= Len(t)
          PROVE  SubSeq(s, 1, n) = SubSeq(t, 1, n) <=> \A i \in 1..n : s[i] = t[i]
        <2>1. \A i \in 1..n : s[i] \in S /\ t[i] \in S
            BY <1>1, <1>2
        <2>2. 1 \in Int /\ n \in Int
            BY <1>1
        <2>3. /\ SubSeq(s, 1, n) \in Seq(S) /\ SubSeq(t, 1, n) \in Seq(S)
              /\ Len(SubSeq(s, 1, n)) = IF 1 <= n THEN n - 1 + 1 ELSE 0
              /\ Len(SubSeq(t, 1, n)) = IF 1 <= n THEN n - 1 + 1 ELSE 0
              /\ \A i \in 1..n - 1 + 1 : SubSeq(s, 1, n)[i] = s[1 + i - 1]
              /\ \A i \in 1..n - 1 + 1 : SubSeq(t, 1, n)[i] = t[1 + i - 1]
            BY <2>1, <2>2, SubSeqProperties
        <2>4. /\ Len(SubSeq(s, 1, n)) = n /\ Len(SubSeq(t, 1, n)) = n
              /\ \A i \in 1..n : SubSeq(s, 1, n)[i] = s[i] /\ SubSeq(t, 1, n)[i] = t[i]
            BY <1>1, <2>3
        <2>5. ASSUME \A i \in 1..n : s[i] = t[i] PROVE SubSeq(s, 1, n) = SubSeq(t, 1, n)
            BY <2>3, <2>4, <2>5, SeqEqual
        <2>6. QED
            BY <2>4, <2>5
    <1>3. QED
        BY <1>2 DEF IsPrefix

\* The lane's own vector is in the namespace, and no build permits a name of it.
LEMMA CanonicalRows ==
    /\ ToSet(CANONICAL) =
            {[name |-> <<"CAMELID", "DETERMINISTIC">>, value |-> "1"],
             [name |-> <<"CAMELID", "METAL", "Q8">>, value |-> "false"]}
    /\ \A row \in ToSet(CANONICAL) :
            (CHOOSE other \in ToSet(CANONICAL) : other.name = row.name).value = row.value
    <1>1. ToSet(CANONICAL) =
            {[name |-> <<"CAMELID", "DETERMINISTIC">>, value |-> "1"],
             [name |-> <<"CAMELID", "METAL", "Q8">>, value |-> "false"]}
        BY DEF CANONICAL, ToSet
    <1>2. <<"CAMELID", "DETERMINISTIC">> # <<"CAMELID", "METAL", "Q8">>
        OBVIOUS
    <1>3. ASSUME NEW row \in ToSet(CANONICAL), NEW other \in ToSet(CANONICAL), other.name = row.name
          PROVE  other.value = row.value
        BY <1>1, <1>2, <1>3
    <1>4. ASSUME NEW row \in ToSet(CANONICAL)
          PROVE  (CHOOSE other \in ToSet(CANONICAL) : other.name = row.name).value = row.value
        <2> DEFINE found == CHOOSE other \in ToSet(CANONICAL) : other.name = row.name
        <2>1. found \in ToSet(CANONICAL) /\ found.name = row.name
            OBVIOUS
        <2> HIDE DEF found
        <2>2. found.value = row.value
            BY <1>3, <2>1
        <2>3. QED
            BY <2>2 DEF found
    <1>5. QED
        BY <1>1, <1>4

LEMMA CanonicalIsRefused ==
    ASSUME NEW c \in Configurations, NEW row \in ToSet(CANONICAL)
    PROVE  Refused(c.build, row.name)
    <1>1. c.build.namespace = <<"CAMELID">> /\ c.build.permitted \in Seq(Rules)
        BY ConfigurationAssumption DEF Builds, NAMESPACE
    <1>2. PICK S : /\ row.name \in Seq(S) /\ Len(row.name) >= 2 /\ row.name[1] = "CAMELID"
                   /\ row.name[2] # "ENTERPRISE" /\ <<"CAMELID">> \in Seq(S)
        <2> DEFINE S == {"CAMELID", "DETERMINISTIC", "METAL", "Q8"}
        <2>1. /\ <<"CAMELID", "DETERMINISTIC">> \in Seq(S) /\ <<"CAMELID", "METAL", "Q8">> \in Seq(S)
              /\ <<"CAMELID">> \in Seq(S)
              /\ Len(<<"CAMELID", "DETERMINISTIC">>) = 2 /\ Len(<<"CAMELID", "METAL", "Q8">>) = 3
            OBVIOUS
        <2>2. row.name = <<"CAMELID", "DETERMINISTIC">> \/ row.name = <<"CAMELID", "METAL", "Q8">>
            BY CanonicalRows
        <2>3. row.name[1] = "CAMELID" /\ row.name[2] \in {"DETERMINISTIC", "METAL"}
            BY <2>2
        <2> HIDE DEF S
        <2>4. row.name \in Seq(S) /\ Len(row.name) >= 2
            <3>1. CASE row.name = <<"CAMELID", "DETERMINISTIC">>
                BY <2>1, <3>1
            <3>2. CASE row.name = <<"CAMELID", "METAL", "Q8">>
                BY <2>1, <3>2
            <3>3. QED
                BY <2>2, <3>1, <3>2
        <2>5. QED
            BY <2>1, <2>3, <2>4
    <1>3. InNamespace(c.build, row.name)
        <2> DEFINE own == <<"CAMELID">>
        <2>1. Len(own) = 1 /\ own[1] = "CAMELID" /\ own \in Seq(S) /\ c.build.namespace = own
            BY <1>1, <1>2
        <2> HIDE DEF own
        <2>2. \A i \in 1..Len(own) : own[i] = row.name[i]
            BY <1>2, <2>1
        <2>3. Len(own) <= Len(row.name)
            BY <1>2, <2>1
        <2>4. IsPrefix(own, row.name)
            BY <1>2, <2>1, <2>2, <2>3, PrefixIs
        <2>5. QED
            BY <2>1, <2>4 DEF InNamespace, NameStartsWith
    <1>4. ASSUME NEW permit \in ToSet(c.build.permitted) PROVE ~Matches(permit, row.name)
        <2>1. permit \in Rules
            BY <1>1 DEF ToSet
        <2>2. permit.literal \in Seq(STRING)
            BY <2>1 DEF Rules
        <2>3. IsPrefix(<<"CAMELID", "ENTERPRISE">>, permit.literal)
            BY ConfigurationAssumption
        <2>4. Len(permit.literal) >= 2 /\ permit.literal[2] = "ENTERPRISE"
            <3> DEFINE Words == {"CAMELID", "ENTERPRISE"}
                       own == <<"CAMELID", "ENTERPRISE">>
            <3>1. own \in Seq(Words) /\ Len(own) = 2 /\ own[2] = "ENTERPRISE"
                OBVIOUS
            <3>2. IsPrefix(own, permit.literal)
                BY <2>3
            <3> HIDE DEF Words, own
            <3>3. Len(own) <= Len(permit.literal) /\ \A i \in 1..Len(own) : own[i] = permit.literal[i]
                BY <2>2, <3>1, <3>2, PrefixIs
            <3>4. QED
                BY <3>1, <3>3
        <2>5. permit.literal # row.name
            BY <1>2, <2>4
        <2>6. ~IsPrefix(permit.literal, row.name)
            <3>1. SUFFICES ASSUME IsPrefix(permit.literal, row.name) PROVE FALSE
                OBVIOUS
            <3>2. \A i \in 1..Len(permit.literal) : permit.literal[i] = row.name[i]
                BY <1>2, <2>2, <3>1, PrefixIs
            <3>3. QED
                BY <1>2, <2>2, <2>4, <3>2
        <2>7. QED
            BY <2>5, <2>6 DEF Matches, NameStartsWith
    <1>5. QED
        BY <1>3, <1>4 DEF Refused, PermittedBy

\* What the lane writes is what a process has, whatever its operator set.
LEMMA EnvironmentOf ==
    ASSUME NEW c \in Configurations, Offenders(c.build, c.env) = {}
    PROVE  /\ \A row \in ToSet(CANONICAL) : /\ WithCanonical(c.env)[row.name] = row.value
                                            /\ row.name \notin DOMAIN c.env
           /\ \A name \in DOMAIN WithCanonical(c.env) \ CanonicalNames :
                 InNamespace(c.build, name) => PermittedBy(c.build.permitted, name)
    <1>1. ASSUME NEW row \in ToSet(CANONICAL)
          PROVE  WithCanonical(c.env)[row.name] = row.value /\ row.name \notin DOMAIN c.env
        <2>1. row.name \notin DOMAIN c.env
            BY CanonicalIsRefused DEF Offenders
        <2>2. row.name \in CanonicalNames
            BY DEF CanonicalNames
        <2>3. WithCanonical(c.env)[row.name] =
                (CHOOSE other \in ToSet(CANONICAL) : other.name = row.name).value
            BY <2>2 DEF WithCanonical
        <2>4. QED
            BY <2>1, <2>3, CanonicalRows
    <1>2. ASSUME NEW name \in DOMAIN WithCanonical(c.env) \ CanonicalNames, InNamespace(c.build, name)
          PROVE  PermittedBy(c.build.permitted, name)
        <2>1. name \in DOMAIN c.env
            BY <1>2 DEF WithCanonical
        <2>2. QED
            BY <1>2, <2>1 DEF Offenders, Refused
    <1>3. QED
        BY <1>1, <1>2

\* However a process was started, one that got past its scan computes with the lane's
\* vector and with nothing of the namespace that its build does not permit (lane.rs).
THEOREM EnvironmentHolds == Spec => []EnvironmentIsTheLanes
    <1>1. ServingInv => EnvironmentIsTheLanes
        <2>1. SUFFICES ASSUME ServingInv, NEW r \in Replicas, phase[r] # "down"
                       PROVE  /\ \A row \in ToSet(CANONICAL) :
                                    env[r][row.name] = row.value /\ row.name \notin DOMAIN conf[r].env
                              /\ \A name \in DOMAIN env[r] \ CanonicalNames :
                                    InNamespace(conf[r].build, name)
                                        => PermittedBy(conf[r].build.permitted, name)
            BY DEF EnvironmentIsTheLanes
        <2>2. Launched(r)
            BY <2>1 DEF ServingInv, ProcessInv
        <2>3. PICK c \in Configurations : c = conf[r]
            BY <2>2 DEF Launched
        <2>4. Offenders(c.build, c.env) = {} /\ env[r] = WithCanonical(c.env)
            BY <2>2, <2>3, Zenon DEF Launched
        <2>5. QED
            BY <2>3, <2>4, EnvironmentOf
    <1>2. QED
        BY <1>1, Invariant, PTL
-----------------------------------------------------------------------------
(* What is answered *)

\* A response is of the lane's answer, of the pool's refusal or failure of it, or of
\* the error that replaces either.
Stamped(r, q, response) ==
    /\ response.headers = Record(r)
    /\ response.receipt = [record |-> Record(r), status |-> response.answer.status]
    /\ \/ response.answer = ServeOnlyTheLane(model[r], q)
       \/ /\ response.answer.made = NoTokens
          /\ response.answer.code \in {"engine_queue_full", "generation_worker_unavailable",
                                       "generation_failed", "attribution"}
    /\ \/ response.body = Record(r)
       \/ response.answer.code = "completion" => q.path \notin GenerationPaths

LEMMA ResponsesAreStamped ==
    ASSUME NEW r, NEW q, NEW response \in ReplicaResponses(r, q)
    PROVE  Stamped(r, q, response)
    <1>1. PICK answer \in PoolAnswers(ServeOnlyTheLane(model[r], q)), buffered \in BOOLEAN :
                response = Attribute(r, q, answer, buffered)
        BY SMT DEF ReplicaResponses
    <1>2. \/ answer = ServeOnlyTheLane(model[r], q)
          \/ /\ answer.made = NoTokens
             /\ answer.code \in {"engine_queue_full", "generation_worker_unavailable",
                                 "generation_failed"}
        <2>1. answer \in {ServeOnlyTheLane(model[r], q), Answer(503, "engine_queue_full"),
                          Answer(503, "generation_worker_unavailable"),
                          Answer(500, "generation_failed")}
            BY DEF PoolAnswers
        <2>2. QED
            BY <2>1, CodesOf
    <1> DEFINE rewritten == q.path \in GenerationPaths /\ IsJson(answer)
    <1>3. PICK final : final = IF rewritten /\ ~buffered THEN Answer(500, "attribution") ELSE answer
        OBVIOUS
    <1>4. /\ response.answer = final /\ response.headers = Record(r)
          /\ response.body = IF rewritten /\ buffered THEN Record(r) ELSE NoRecord
          /\ response.receipt = [record |-> Record(r), status |-> final.status]
        BY <1>1, <1>3 DEF Attribute, IsGenerationPath
    <1>5. CASE rewritten /\ ~buffered
        <2>1. final.made = NoTokens /\ final.code = "attribution"
            BY <1>3, <1>5, CodesOf
        <2>2. QED
            BY <1>4, <2>1 DEF Stamped
    <1>6. CASE rewritten /\ buffered
        <2>1. final = answer /\ response.body = Record(r)
            BY <1>3, <1>4, <1>6
        <2>2. QED
            BY <1>2, <1>4, <2>1 DEF Stamped
    <1>7. CASE ~rewritten
        <2>1. final = answer
            BY <1>3, <1>7
        <2>2. answer.code = "completion" => q.path \notin GenerationPaths
            BY <1>7 DEF IsJson
        <2>3. QED
            BY <1>2, <1>4, <2>1, <2>2 DEF Stamped
    <1>8. QED
        BY <1>5, <1>6, <1>7

\* What a process publishes is never mistaken for no identity.
LEMMA ServingRecord ==
    ASSUME ServingInv, NEW r \in Replicas, phase[r] = "serving"
    PROVE  Record(r) # NoRecord
    <1>1. Launched(r) /\ Digested(r)
        BY DEF ServingInv, ProcessInv
    <1>2. PICK c \in Configurations : c = conf[r]
        BY <1>1 DEF Launched
    <1>3. PICK content \in Contents : identity[r].digest = content.digest
        BY <1>1 DEF Digested
    <1>4. c.build.posture \in STRING /\ c.build.engine \in STRING
        BY ConfigurationAssumption DEF Builds
    <1>5. width[r] = ResolveWorkerPool(r, c)
        BY <1>1, <1>2, Zenon DEF Launched
    <1>6. Record(r) = [lane |-> "deterministic", config |-> ComputeConfig(c.build),
                       admission |-> ComputeAdmission(c.build), posture |-> c.build.posture,
                       engine |-> c.build.engine, model |-> content.digest,
                       host |-> HostOf[r].summary, workers |-> ResolveWorkerPool(r, c)]
        BY <1>2, <1>3, <1>5, Zenon DEF Record, EngineDigest
    <1>7. /\ ComputeConfig(c.build) \in {ComputeConfig(d.build) : d \in Configurations}
          /\ ComputeAdmission(c.build) \in {ComputeAdmission(d.build) : d \in Configurations}
          /\ content.digest \in {d.digest : d \in Contents}
          /\ HostOf[r].summary \in {HostOf[s].summary : s \in Replicas}
        BY Zenon
    <1>8. ResolveWorkerPool(r, c) \in {ResolveWorkerPool(s, d) : s \in Replicas, d \in Configurations}
        BY SMT
    <1>9. Record(r) \in Records
        BY <1>4, <1>6, <1>7, <1>8 DEF Records
    <1>10. QED
        BY <1>9, RecordAssumption

LEMMA AskAnswers ==
    ASSUME ServingInv, NEW r \in Replicas, Ask(r)
    PROVE  \E q \in HttpRequests :
              /\ exchange'.q = q /\ exchange'.by = r /\ phase[r] = "serving"
              /\ exchange'.catalog = FALSE /\ exchange'.gateway = FALSE
              /\ Stamped(r, q, exchange'.response)
    <1>1. PICK q \in Requests : \E response \in ReplicaResponses(r, q) :
                exchange' = [q |-> q, routed |-> Forward(OriginOf[r], NoModel), catalog |-> FALSE,
                             gateway |-> FALSE, by |-> r, response |-> response]
        BY Zenon DEF Ask
    <1>2. PICK response \in ReplicaResponses(r, q) :
                exchange' = [q |-> q, routed |-> Forward(OriginOf[r], NoModel), catalog |-> FALSE,
                             gateway |-> FALSE, by |-> r, response |-> response]
        BY <1>1
    <1>3. Stamped(r, q, response)
        BY ResponsesAreStamped
    <1>4. /\ exchange'.q = q /\ exchange'.by = r /\ exchange'.catalog = FALSE
          /\ exchange'.gateway = FALSE /\ exchange'.response = response
        BY <1>2
    <1>5. q \in HttpRequests
        BY RequestAssumption
    <1>6. QED
        BY <1>3, <1>4, <1>5, Zenon DEF Ask

\* An exchange through the gateway is answered by it, or by the replica it was for.
Unanswered(routed, response) ==
    /\ response.headers = NoRecord /\ response.answer.made = NoTokens
    /\ routed.kind = "refused" => response.answer = routed.answer

LEMMA GatewayAnswers ==
    ASSUME ServingInv, AskGateway
    PROVE  \E q, routed :
              /\ q \in HttpRequests /\ Directed(gateway.args, q, routed)
              /\ exchange'.q = q /\ exchange'.routed = routed
              /\ exchange'.catalog = IsCatalogMode(gateway.args)
              /\ \/ exchange'.by = NoReplica /\ Unanswered(routed, exchange'.response)
                 \/ \E r \in Replicas :
                       /\ exchange'.by = r /\ phase[r] = "serving" /\ routed.kind = "forward"
                       /\ OriginOf[r] = routed.origin /\ Stamped(r, q, exchange'.response)
    <1>1. PICK q \in Requests, arrives \in {"whole", "late", "broken"} :
                exchange' \in RouteAndAnswer(q, arrives)
        BY Zenon DEF AskGateway
    <1>2. PICK routed : routed = ResolveRoute(gateway.args, q, arrives)
        OBVIOUS
    <1>3. PICK r : r = IF routed.kind = "forward" THEN ReplicaAt(routed.origin) ELSE NoReplica
        OBVIOUS
    <1> DEFINE up == IF r = NoReplica THEN FALSE ELSE phase[r] = "serving"
               responses == CASE routed.kind # "forward" -> {Own(routed.answer)}
                              [] routed.kind = "forward" /\ ~up -> {Unreached}
                              [] routed.kind = "forward" /\ up -> ReplicaResponses(r, q)
    <1>4. PICK response \in responses :
                exchange' = [q |-> q, routed |-> routed, catalog |-> IsCatalogMode(gateway.args),
                             gateway |-> TRUE, by |-> IF up THEN r ELSE NoReplica,
                             response |-> response]
        BY <1>1, <1>2, <1>3, Zenon DEF RouteAndAnswer
    <1>5. /\ exchange'.q = q /\ exchange'.routed = routed
          /\ exchange'.catalog = IsCatalogMode(gateway.args)
          /\ exchange'.by = (IF up THEN r ELSE NoReplica) /\ exchange'.response = response
        BY <1>4
    <1>6. q \in HttpRequests
        BY RequestAssumption
    <1>7. Directed(gateway.args, q, routed)
        BY <1>2, Directs
    <1>8. CASE routed.kind # "forward"
        <2>1. response = Own(routed.answer)
            BY <1>8
        <2>2. response.headers = NoRecord /\ response.answer = routed.answer
            BY <2>1 DEF Own
        <2>3. Unanswered(routed, response)
            BY <1>7, <1>8, <2>2, DirectedSays DEF Unanswered
        <2>4. exchange'.by = NoReplica
            BY <1>3, <1>5, <1>8
        <2>5. QED
            BY <1>5, <1>6, <1>7, <2>3, <2>4
    <1>9. CASE routed.kind = "forward" /\ ~up
        <2>1. response = Unreached
            BY <1>9
        <2>2. response.headers = NoRecord /\ response.answer = Answer(502, "upstream")
            BY <2>1 DEF Own, Unreached
        <2>3. Unanswered(routed, response)
            BY <1>9, <2>2, CodesOf DEF Unanswered
        <2>4. exchange'.by = NoReplica
            BY <1>5, <1>9
        <2>5. QED
            BY <1>5, <1>6, <1>7, <2>3, <2>4
    <1>10. CASE routed.kind = "forward" /\ up
        <2>1. response \in ReplicaResponses(r, q)
            BY <1>10
        <2>2. r # NoReplica /\ phase[r] = "serving" /\ r = ReplicaAt(routed.origin)
            BY <1>3, <1>10
        <2>3. r \in Replicas /\ OriginOf[r] = routed.origin
            BY <2>2, AskedAt
        <2>4. Stamped(r, q, response)
            BY <2>1, ResponsesAreStamped
        <2>5. exchange'.by = r
            BY <1>5, <1>10
        <2>6. QED
            BY <1>5, <1>6, <1>7, <1>10, <2>2, <2>3, <2>4, <2>5
    <1>11. QED
        BY <1>8, <1>9, <1>10
-----------------------------------------------------------------------------
(* The properties of an exchange.  One is answered in a single step, which     *)
(* leaves all else as it is.                                                   *)

StillAll == UNCHANGED <<diskVars, replicaVars, gateway, historyVars>>

LEMMA StepsAnswer ==
    ASSUME [Next]_vars
    PROVE  \/ exchange' = NoExchange
           \/ StillAll /\ AskGateway
           \/ StillAll /\ \E r \in Replicas : Ask(r)
           \/ UNCHANGED vars
    BY DEF Next, StillAll, AskGateway, AskDirectly, Ask

LEMMA StillRecord ==
    ASSUME StillAll
    PROVE  \A r : Record(r)' = Record(r)
    BY Zenon DEF StillAll, replicaVars, Record

Attributed(response, record) ==
    /\ response.headers = record /\ response.receipt.record = record
    /\ response.receipt.status = response.answer.status
    /\ response.body = NoRecord => response.answer.code # "completion"

LEMMA StampedIsAttributed ==
    ASSUME ServingInv, NEW r \in Replicas, phase[r] = "serving", NEW q \in HttpRequests,
           NEW response, Stamped(r, q, response)
    PROVE  Attributed(response, Record(r))
    <1>1. Record(r) # NoRecord
        BY ServingRecord
    <1>2. /\ response.headers = Record(r) /\ response.receipt.record = Record(r)
          /\ response.receipt.status = response.answer.status
        BY DEF Stamped
    <1>3. ASSUME response.body = NoRecord, response.answer.code = "completion" PROVE FALSE
        <2>1. q.path \notin GenerationPaths
            BY <1>1, <1>3 DEF Stamped
        <2>2. response.answer = ServeOnlyTheLane(model[r], q)
            BY <1>3 DEF Stamped
        <2>3. QED
            BY <1>3, <2>1, <2>2, LaneCompletes
    <1>4. QED
        BY <1>2, <1>3 DEF Attributed

\* Every answer of a replica carries its identity in the headers and the receipt, the one
\* that replaces an answer too large included, and a completion carries it in its body
\* (attribution.rs).
THEOREM ResponsesAreAttributed == Spec => []EveryResponseIsAttributed
    <1>1. Init => EveryResponseIsAttributed
        BY DEF Init, EveryResponseIsAttributed, Asked
    <1>2. ASSUME ServingInv, EveryResponseIsAttributed, [Next]_vars
          PROVE  EveryResponseIsAttributed'
        <2>1. CASE exchange' = NoExchange
            BY <2>1 DEF EveryResponseIsAttributed, Asked
        <2>2. CASE UNCHANGED vars
            <3>1. exchange' = exchange /\ StillAll
                BY <2>2 DEF vars, StillAll
            <3>2. Record(exchange.by)' = Record(exchange.by)
                BY <3>1, StillRecord DEF StillAll, replicaVars, Record
            <3>3. QED
                BY <1>2, <3>1, <3>2 DEF EveryResponseIsAttributed, Asked
        <2>3. CASE \/ exchange'.by = NoReplica /\ exchange'.response.headers = NoRecord
                   \/ \E r \in Replicas : /\ exchange'.by = r
                                          /\ Attributed(exchange'.response, Record(r)')
            <3>1. CASE exchange'.by = NoReplica /\ exchange'.response.headers = NoRecord
                BY <3>1 DEF EveryResponseIsAttributed
            <3>2. ASSUME NEW r \in Replicas, exchange'.by = r,
                         Attributed(exchange'.response, Record(r)')
                  PROVE  EveryResponseIsAttributed'
                <4>1. r # NoReplica
                    BY ServingAssumption
                <4>2. Record(exchange.by)' = Record(r)'
                    BY <3>2 DEF Record
                <4>3. QED
                    BY <3>2, <4>1, <4>2 DEF EveryResponseIsAttributed, Attributed
            <3>3. QED
                BY <2>3, <3>1, <3>2
        <2>4. CASE StillAll /\ \E r \in Replicas : Ask(r)
            <3>1. PICK r \in Replicas : Ask(r)
                BY <2>4
            <3>2. exchange'.by = r /\ Attributed(exchange'.response, Record(r))
                BY <1>2, <3>1, AskAnswers, StampedIsAttributed
            <3>3. QED
                BY <2>3, <2>4, <3>2, StillRecord
        <2>5. CASE StillAll /\ AskGateway
            <3>1. \/ exchange'.by = NoReplica /\ exchange'.response.headers = NoRecord
                  \/ \E r \in Replicas : /\ exchange'.by = r
                                         /\ Attributed(exchange'.response, Record(r))
                BY <1>2, <2>5, GatewayAnswers, StampedIsAttributed DEF Unanswered
            <3>2. QED
                BY <2>3, <2>5, <3>1, StillRecord
        <2>6. QED
            BY <1>2, <2>1, <2>2, <2>4, <2>5, StepsAnswer
    <1>3. QED
        BY <1>1, <1>2, Invariant, PTL DEF Spec

LEMMA StampedIsServed ==
    ASSUME NEW args, NEW q \in HttpRequests, NEW routed, Directed(args, q, routed),
           routed.kind = "forward", NEW r, NEW response, Stamped(r, q, response)
    PROVE  response.answer.code \notin {"route_not_served", "not_found", "method"}
    <1>1. PICK route \in RegisteredAt(q.path) : GatewayAsks(q) \in route.methods
        BY DirectedSays
    <1>2. CASE response.answer = ServeOnlyTheLane(model[r], q)
        BY <1>1, <1>2, LaneServes
    <1>3. QED
        BY <1>2 DEF Stamped

\* The gateway forwards no route that a replica withholds or does not know, and answers
\* none itself as unknown that a replica would serve (replica-contract).
THEOREM ForwardedIsServed == Spec => []WhatIsForwardedIsServed
    <1>1. Init => WhatIsForwardedIsServed
        BY DEF Init, WhatIsForwardedIsServed, Asked
    <1>2. ASSUME ServingInv, WhatIsForwardedIsServed, [Next]_vars
          PROVE  WhatIsForwardedIsServed'
        <2>1. CASE exchange' = NoExchange
            BY <2>1 DEF WhatIsForwardedIsServed, Asked
        <2>2. CASE UNCHANGED vars
            BY <1>2, <2>2 DEF WhatIsForwardedIsServed, Asked, vars
        <2>3. CASE \E r \in Replicas : Ask(r)
            <3>1. exchange'.gateway = FALSE
                BY <1>2, <2>3, AskAnswers
            <3>2. QED
                BY <3>1 DEF WhatIsForwardedIsServed
        <2>4. CASE AskGateway
            <3>1. PICK q, routed :
                    /\ q \in HttpRequests /\ Directed(gateway.args, q, routed)
                    /\ exchange'.q = q /\ exchange'.routed = routed
                    /\ \/ exchange'.by = NoReplica /\ Unanswered(routed, exchange'.response)
                       \/ \E r \in Replicas :
                             /\ exchange'.by = r /\ routed.kind = "forward"
                             /\ Stamped(r, q, exchange'.response)
                BY <1>2, <2>4, GatewayAnswers, Zenon
            <3>2. exchange'.by # NoReplica =>
                    exchange'.response.answer.code \notin {"route_not_served", "not_found", "method"}
                BY <3>1, StampedIsServed
            <3>3. ASSUME routed.kind = "refused",
                         exchange'.response.answer.code \in {"not_found", "method"}
                  PROVE  ~IsServed(q.method, q.path)
                <4>1. exchange'.response.answer = routed.answer
                    BY <3>1, <3>3 DEF Unanswered
                <4>2. Unknown(q)
                    BY <3>1, <3>3, <4>1, DirectedSays
                <4>3. QED
                    BY <3>1, <4>2, UnknownIsNotServed
            <3>4. QED
                BY <3>1, <3>2, <3>3 DEF WhatIsForwardedIsServed
        <2>5. QED
            BY <1>2, <2>1, <2>2, <2>3, <2>4, StepsAnswer
    <1>3. QED
        BY <1>1, <1>2, Invariant, PTL DEF Spec

\* The gateway forwards a body that names its model once, so that every reader of it
\* behind the gateway reads that name.
LEMMA NamedOnce ==
    ASSUME NEW routes, NEW q \in HttpRequests, NEW routed, ForwardedTo(routes, q, routed)
    PROVE  /\ routed.model = HandlerModel(q.body) /\ HandlerModel(q.body) = FilterModel(q.body)
           /\ routed.model # "" /\ routed.model \in IdsAt(routes, routed.origin)
    <1>1. q.body.models \in Seq(STRING \cup {Null, Number})
        BY DEF HttpRequests, Bodies
    <1> DEFINE id == SelectedModel(q.body)
    <1>2. /\ Len(q.body.models) <= 1 /\ id # NoModel
          /\ \E i \in DOMAIN routes : routes[i].id = id /\ routed = Forward(routes[i].origin, id)
        BY DEF ForwardedTo, SelectionIsReadable
    <1>3. routed.model = id /\ routed.model \in IdsAt(routes, routed.origin)
        <2>1. PICK i \in DOMAIN routes : routes[i].id = id /\ routed = Forward(routes[i].origin, id)
            BY <1>2
        <2>2. routed.model = id /\ routed.origin = routes[i].origin
            BY <2>1 DEF Forward
        <2>3. PICK origin : origin = routed.origin
            OBVIOUS
        <2>4. i \in {j \in DOMAIN routes : routes[j].origin = origin}
            BY <2>2, <2>3
        <2>5. routes[i].id \in IdsAt(routes, origin)
            BY <2>4, Zenon DEF IdsAt
        <2>6. QED
            BY <2>1, <2>2, <2>3, <2>5
    <1>4. q.body.models # <<>> /\ id = Last(q.body.models) /\ id # ""
        BY <1>2 DEF SelectedModel
    <1>5. Len(q.body.models) = 1
        <2> DEFINE S == STRING \cup {Null, Number}
        <2>1. PICK models \in Seq(S) : models = q.body.models
            BY <1>1
        <2> HIDE DEF S
        <2>2. Len(models) <= 1 /\ models # <<>>
            BY <1>2, <1>4, <2>1
        <2>3. PICK n \in Nat \ {0} : n = Len(models)
            BY <2>1, <2>2, EmptySeq
        <2>4. n = 1
            BY <2>2, <2>3
        <2>5. QED
            BY <2>1, <2>3, <2>4
    <1>6. Last(q.body.models) = q.body.models[1] /\ Head(q.body.models) = q.body.models[1]
        BY <1>1, <1>5 DEF Last
    <1>7. HandlerModel(q.body) = id /\ FilterModel(q.body) = id
        BY <1>4, <1>6 DEF HandlerModel, FilterModel
    <1>8. QED
        BY <1>3, <1>4, <1>7

\* Tokens are of the one model of the replica that made them, for a body whose last word
\* on the model is that model or none; through a catalog, for its only word on it
\* (surface.rs, in_tree.rs, gateway/src/lib.rs).
THEOREM TokensAreOfTheNamedModel == Spec => []TokensComeFromTheNamedModel
    <1>1. Init => TokensComeFromTheNamedModel
        BY DEF Init, TokensComeFromTheNamedModel, Asked
    <1>2. ASSUME ServingInv, TokensComeFromTheNamedModel, [Next]_vars
          PROVE  TokensComeFromTheNamedModel'
        <2>1. CASE exchange' = NoExchange
            BY <2>1 DEF TokensComeFromTheNamedModel, Asked
        <2>2. CASE UNCHANGED vars
            BY <1>2, <2>2 DEF TokensComeFromTheNamedModel, Asked, Serving, vars, replicaVars
        <2>3. ASSUME StillAll, NEW r \in Replicas, NEW q \in HttpRequests, exchange'.by = r,
                     exchange'.q = q, phase[r] = "serving", Stamped(r, q, exchange'.response),
                     exchange'.catalog =>
                        /\ exchange'.routed.model = HandlerModel(q.body)
                        /\ HandlerModel(q.body) = FilterModel(q.body)
              PROVE  TokensComeFromTheNamedModel'
            <3>1. phase' = phase /\ model' = model
                BY <2>3 DEF StillAll, replicaVars
            <3>2. PICK answer : answer = exchange'.response.answer
                OBVIOUS
            <3>3. answer.made = NoTokens \/ answer = ServeOnlyTheLane(model[r], q)
                BY <2>3, <3>2 DEF Stamped
            <3>4. answer.made # NoTokens =>
                    /\ answer.made.model = model[r].id /\ q.body.form = "object"
                    /\ q.body.size = "fits" /\ FilterModel(q.body) \in model[r].aliases \cup {Null}
                BY <3>3, LaneMakes
            <3>5. r \in Serving'
                BY <2>3, <3>1 DEF Serving
            <3>6. QED
                BY <2>3, <3>1, <3>2, <3>4, <3>5 DEF TokensComeFromTheNamedModel
        <2>4. CASE StillAll /\ \E r \in Replicas : Ask(r)
            <3>1. PICK r \in Replicas : Ask(r)
                BY <2>4
            <3>2. PICK q \in HttpRequests :
                    /\ exchange'.q = q /\ exchange'.by = r /\ phase[r] = "serving"
                    /\ exchange'.catalog = FALSE /\ Stamped(r, q, exchange'.response)
                BY <1>2, <3>1, AskAnswers
            <3>3. QED
                BY <2>3, <2>4, <3>2
        <2>5. CASE StillAll /\ AskGateway
            <3>1. PICK q, routed :
                    /\ q \in HttpRequests /\ Directed(gateway.args, q, routed)
                    /\ exchange'.q = q /\ exchange'.routed = routed
                    /\ exchange'.catalog = IsCatalogMode(gateway.args)
                    /\ \/ exchange'.by = NoReplica /\ Unanswered(routed, exchange'.response)
                       \/ \E r \in Replicas :
                             /\ exchange'.by = r /\ phase[r] = "serving" /\ routed.kind = "forward"
                             /\ Stamped(r, q, exchange'.response)
                BY <1>2, <2>5, GatewayAnswers, Zenon
            <3>2. CASE Unanswered(routed, exchange'.response)
                BY <3>2 DEF Unanswered, TokensComeFromTheNamedModel
            <3>3. ASSUME NEW r \in Replicas, exchange'.by = r, phase[r] = "serving",
                         routed.kind = "forward", Stamped(r, q, exchange'.response)
                  PROVE  TokensComeFromTheNamedModel'
                <4>1. exchange'.catalog => ForwardedTo(gateway.args.routes, q, routed)
                    BY <3>1, <3>3, DirectedSays
                <4>2. exchange'.catalog =>
                        /\ exchange'.routed.model = HandlerModel(q.body)
                        /\ HandlerModel(q.body) = FilterModel(q.body)
                    <5>1. PICK routes : routes = gateway.args.routes
                        OBVIOUS
                    <5>2. exchange'.catalog => ForwardedTo(routes, q, routed)
                        BY <4>1, <5>1
                    <5>3. ASSUME exchange'.catalog
                          PROVE  /\ routed.model = HandlerModel(q.body)
                                 /\ HandlerModel(q.body) = FilterModel(q.body)
                        BY <5>2, <5>3, <3>1, NamedOnce, Zenon
                    <5>4. QED
                        BY <3>1, <5>3
                <4>3. QED
                    BY <2>3, <2>5, <3>1, <3>3, <4>2
            <3>4. QED
                BY <3>1, <3>2, <3>3
        <2>6. QED
            BY <1>2, <2>1, <2>2, <2>4, <2>5, StepsAnswer
    <1>3. QED
        BY <1>1, <1>2, Invariant, PTL DEF Spec

\* A model that has an id is served by it (ServedModel::new).
LEMMA ServedByItsId ==
    ASSUME NEW content, NEW canonical, NEW requested, NEW served,
           served = ServedModel(content, canonical, requested)
    PROVE  served.id # "" => served.id \in served.aliases
    <1>1. PICK own : own = ModelId(content, canonical)
        OBVIOUS
    <1>2. PICK named : named = {own} \cup Spellings(canonical) \cup Spellings(requested)
        OBVIOUS
    <1>3. PICK others : others = named \ {""}
        OBVIOUS
    <1>4. PICK template, startsWithBos :
                served = [id |-> own, template |-> template, startsWithBos |-> startsWithBos,
                          aliases |-> others]
        BY <1>1, <1>2, <1>3, Zenon DEF ServedModel
    <1>5. served.id = own /\ served.aliases = others
        BY <1>4
    <1>6. own \in named
        BY <1>2
    <1>7. QED
        BY <1>3, <1>5, <1>6

\* A replica behind a verified catalog answers to every id that is routed to it.
LEMMA VerifiedAnswers ==
    ASSUME ServingInv, NEW r \in verified, NEW q \in HttpRequests, NEW routed,
           IsCatalogMode(gateway.args), q.path \in GenerationPaths,
           ForwardedTo(gateway.args.routes, q, routed), OriginOf[r] = routed.origin,
           NEW response, Stamped(r, q, response)
    PROVE  response.answer.code \notin {"model_not_served", "model_not_found"}
    <1>1. /\ r \in Replicas /\ phase[r] = "serving"
          /\ IdsAt(gateway.args.routes, OriginOf[r]) \subseteq {model[r].id}
        BY DEF ServingInv, VerifiedInv
    <1>2. /\ routed.model = HandlerModel(q.body) /\ HandlerModel(q.body) = FilterModel(q.body)
          /\ routed.model # ""
        BY NamedOnce
    <1>3. routed.model = model[r].id
        <2>1. PICK routes : routes = gateway.args.routes
            OBVIOUS
        <2>2. ForwardedTo(routes, q, routed)
            BY <2>1
        <2>3. PICK origin : origin = routed.origin /\ origin = OriginOf[r]
            OBVIOUS
        <2>4. routed.model \in IdsAt(routes, origin)
            BY <2>2, <2>3, NamedOnce
        <2>5. IdsAt(routes, origin) \subseteq {model[r].id}
            BY <1>1, <2>1, <2>3
        <2>6. QED
            BY <2>4, <2>5
    <1>4. model[r].id \in model[r].aliases
        <2>1. PICK content \in Contents : Serves(r, content)
            BY <1>1 DEF ServingInv, ProcessInv
        <2>2. PICK canonical, requested : model[r] = ServedModel(content, canonical, requested)
            BY <2>1, Zenon DEF Serves
        <2>3. QED
            BY <1>2, <1>3, <2>2, ServedByItsId, Zenon
    <1>5. CASE response.answer = ServeOnlyTheLane(model[r], q)
        BY <1>2, <1>3, <1>4, <1>5, LaneKnows
    <1>6. QED
        BY <1>5 DEF Stamped

\* An id of the catalog that the gateway verified is never refused by its replica as
\* long as the process lives that was asked (gateway/src/main.rs).
THEOREM VerifiedRoutesHold == Spec => []VerifiedRoutesAnswer
    <1>1. Init => VerifiedRoutesAnswer
        BY DEF Init, VerifiedRoutesAnswer, Asked
    <1>2. ASSUME ServingInv, VerifiedRoutesAnswer, [Next]_vars
          PROVE  VerifiedRoutesAnswer'
        <2>1. CASE exchange' = NoExchange
            BY <2>1 DEF VerifiedRoutesAnswer, Asked
        <2>2. CASE UNCHANGED vars
            BY <1>2, <2>2 DEF VerifiedRoutesAnswer, Asked, vars, historyVars
        <2>3. CASE \E r \in Replicas : Ask(r)
            <3>1. exchange'.catalog = FALSE
                BY <1>2, <2>3, AskAnswers
            <3>2. QED
                BY <3>1 DEF VerifiedRoutesAnswer
        <2>4. CASE StillAll /\ AskGateway
            <3>1. PICK q, routed :
                    /\ q \in HttpRequests /\ Directed(gateway.args, q, routed)
                    /\ exchange'.catalog = IsCatalogMode(gateway.args)
                    /\ \/ exchange'.by = NoReplica
                       \/ \E r \in Replicas :
                             /\ exchange'.by = r /\ routed.kind = "forward"
                             /\ OriginOf[r] = routed.origin /\ Stamped(r, q, exchange'.response)
                BY <1>2, <2>4, GatewayAnswers, Zenon
            <3>2. verified' = verified /\ NoReplica \notin verified
                BY <1>2, <2>4, ServingAssumption
                DEF StillAll, historyVars, ServingInv, VerifiedInv
            <3>3. SUFFICES ASSUME exchange'.catalog, exchange'.by \in verified
                           PROVE  exchange'.response.answer.code
                                    \notin {"model_not_served", "model_not_found"}
                BY <3>2 DEF VerifiedRoutesAnswer
            <3>4. PICK r \in verified :
                        /\ exchange'.by = r /\ routed.kind = "forward"
                        /\ OriginOf[r] = routed.origin /\ Stamped(r, q, exchange'.response)
                BY <3>1, <3>2, <3>3
            <3>5. IsCatalogMode(gateway.args)
                BY <3>1, <3>3
            <3>6. q.path \in GenerationPaths /\ ForwardedTo(gateway.args.routes, q, routed)
                BY <3>1, <3>4, <3>5, DirectedSays
            <3>7. QED
                BY <1>2, <3>1, <3>4, <3>5, <3>6, VerifiedAnswers
        <2>5. QED
            BY <1>2, <2>1, <2>2, <2>3, <2>4, StepsAnswer
    <1>3. QED
        BY <1>1, <1>2, Invariant, PTL DEF Spec
-----------------------------------------------------------------------------
(* What a response publishes decides its tokens. *)

Permits(build)  == {<<rule.tag, rule.literal>> : rule \in ToSet(build.permitted)}
Refusals(build) == {<<"refuse_foreign", name>> : name \in ToSet(build.foreign)}
Under(build)    == {<<"namespace", build.namespace>>}

LEMMA RuleRows ==
    ASSUME NEW s, NEW n \in Nat, n = Len(s), DOMAIN s = 1..n, NEW S,
           {<<rule.tag, rule.literal>> : rule \in ToSet(s)} \subseteq S, NEW rows,
           rows = [i \in 1..Len(s) |-> <<s[i].tag, s[i].literal>>]
    PROVE  rows \in Seq(S) /\ ToSet(rows) = {<<rule.tag, rule.literal>> : rule \in ToSet(s)}
    <1>1. DOMAIN rows = 1..n /\ \A i \in 1..n : rows[i] = <<s[i].tag, s[i].literal>>
        OBVIOUS
    <1>2. \A i \in 1..n : s[i] \in ToSet(s)
        BY DEF ToSet
    <1>3. \A rule \in ToSet(s) : \E i \in 1..n : s[i] = rule
        BY DEF ToSet
    <1>4. \A i \in 1..n : rows[i] \in {<<rule.tag, rule.literal>> : rule \in ToSet(s)}
        BY <1>1, <1>2
    <1>5. \A i \in 1..n : rows[i] \in S
        BY <1>4
    <1>6. rows \in Seq(S)
        <2>1. rows = [i \in 1..n |-> rows[i]]
            BY <1>1
        <2>2. QED
            BY <1>5, <2>1
    <1>7. \A rule \in ToSet(s) : <<rule.tag, rule.literal>> \in ToSet(rows)
        BY <1>1, <1>3 DEF ToSet
    <1>8. \A row \in ToSet(rows) : \E i \in 1..n : row = rows[i]
        BY <1>1 DEF ToSet
    <1>9. QED
        BY <1>4, <1>6, <1>7, <1>8

LEMMA NameRows ==
    ASSUME NEW s, NEW n \in Nat, n = Len(s), DOMAIN s = 1..n, NEW S,
           {<<"refuse_foreign", name>> : name \in ToSet(s)} \subseteq S, NEW rows,
           rows = [i \in 1..Len(s) |-> <<"refuse_foreign", s[i]>>]
    PROVE  rows \in Seq(S) /\ ToSet(rows) = {<<"refuse_foreign", name>> : name \in ToSet(s)}
    <1>1. DOMAIN rows = 1..n /\ \A i \in 1..n : rows[i] = <<"refuse_foreign", s[i]>>
        OBVIOUS
    <1>2. \A i \in 1..n : s[i] \in ToSet(s)
        BY DEF ToSet
    <1>3. \A name \in ToSet(s) : \E i \in 1..n : s[i] = name
        BY DEF ToSet
    <1>4. \A i \in 1..n : rows[i] \in {<<"refuse_foreign", name>> : name \in ToSet(s)}
        BY <1>1, <1>2
    <1>5. \A i \in 1..n : rows[i] \in S
        BY <1>4
    <1>6. rows \in Seq(S)
        <2>1. rows = [i \in 1..n |-> rows[i]]
            BY <1>1
        <2>2. QED
            BY <1>5, <2>1
    <1>7. \A name \in ToSet(s) : <<"refuse_foreign", name>> \in ToSet(rows)
        BY <1>1, <1>3 DEF ToSet
    <1>8. \A row \in ToSet(rows) : \E i \in 1..n : row = rows[i]
        BY <1>1 DEF ToSet
    <1>9. QED
        BY <1>4, <1>6, <1>7, <1>8

\* The preimage of the admission digest has a row for every rule, and no other
\* (policy_digest).
LEMMA AdmissionRows ==
    ASSUME NEW build \in Builds
    PROVE  ToSet(ComputeAdmission(build)) = Permits(build) \cup Refusals(build) \cup Under(build)
    <1> DEFINE S == Permits(build) \cup Refusals(build) \cup Under(build)
    <1>1. PICK permitted, foreign : permitted = build.permitted /\ foreign = build.foreign
        OBVIOUS
    <1>2. PICK n \in Nat : n = Len(permitted) /\ DOMAIN permitted = 1..n
        BY <1>1 DEF Builds
    <1>3. PICK m \in Nat : m = Len(foreign) /\ DOMAIN foreign = 1..m
        BY <1>1 DEF Builds
    <1>4. PICK rules : rules = [i \in 1..Len(permitted) |-> <<permitted[i].tag, permitted[i].literal>>]
        OBVIOUS
    <1>5. PICK names : names = [i \in 1..Len(foreign) |-> <<"refuse_foreign", foreign[i]>>]
        OBVIOUS
    <1>6. PICK last : last = <<"namespace", build.namespace>>
        OBVIOUS
    <1>7. ComputeAdmission(build) = rules \o names \o <<last>>
        BY <1>1, <1>4, <1>5, <1>6, Zenon DEF ComputeAdmission
    <1>8. Permits(build) \subseteq S /\ Refusals(build) \subseteq S /\ last \in S
        BY <1>6 DEF Under
    <1> HIDE DEF S
    <1>9. rules \in Seq(S) /\ ToSet(rules) = Permits(build)
        <2>1. Permits(build) = {<<rule.tag, rule.literal>> : rule \in ToSet(permitted)}
            BY <1>1 DEF Permits
        <2>2. QED
            BY <1>2, <1>4, <1>8, <2>1, RuleRows
    <1>10. names \in Seq(S) /\ ToSet(names) = Refusals(build)
        <2>1. Refusals(build) = {<<"refuse_foreign", name>> : name \in ToSet(foreign)}
            BY <1>1 DEF Refusals
        <2>2. QED
            BY <1>3, <1>5, <1>8, <2>1, NameRows
    <1>11. <<last>> \in Seq(S) /\ ToSet(<<last>>) = {last}
        BY <1>8, OneCheck
    <1>12. rules \o names \in Seq(S) /\ ToSet(rules \o names) = Permits(build) \cup Refusals(build)
        BY <1>9, <1>10, JoinedChecks
    <1>13. ToSet((rules \o names) \o <<last>>)
             = (Permits(build) \cup Refusals(build)) \cup {last}
        <2>1. PICK both, end : both = rules \o names /\ end = <<last>>
            OBVIOUS
        <2>2. both \in Seq(S) /\ end \in Seq(S)
            BY <1>11, <1>12, <2>1
        <2>3. ToSet(both \o end) = ToSet(both) \cup ToSet(end)
            BY <2>2, JoinedChecks
        <2>4. QED
            BY <1>11, <1>12, <2>1, <2>3
    <1>14. QED
        BY <1>6, <1>7, <1>13 DEF Under

\* Builds whose digest is the same admit the same: no row of one kind can stand for a
\* row of another.
LEMMA AdmissionSeparates ==
    ASSUME NEW b \in Builds, NEW d \in Builds, ComputeAdmission(b) = ComputeAdmission(d)
    PROVE  ToSet(b.permitted) \subseteq ToSet(d.permitted)
           /\ ToSet(b.foreign) \subseteq ToSet(d.foreign)
    <1>1. Permits(b) \cup Refusals(b) \cup Under(b) = Permits(d) \cup Refusals(d) \cup Under(d)
        BY AdmissionRows
    <1>2. \A build \in Builds : \A rule \in ToSet(build.permitted) : rule \in Rules
        BY DEF Builds, ToSet
    <1>3. ASSUME NEW rule \in ToSet(b.permitted) PROVE rule \in ToSet(d.permitted)
        <2>1. rule \in Rules
            BY <1>2
        <2>2. PICK row : row = <<rule.tag, rule.literal>>
            OBVIOUS
        <2>3. row \in Permits(b)
            BY <2>2 DEF Permits
        <2>4. row[1] \in {"permit_exact", "permit_prefix"}
            BY <2>1, <2>2 DEF Rules
        <2>5. row \notin Refusals(d) /\ row \notin Under(d)
            BY <2>4 DEF Refusals, Under
        <2>6. PICK other \in ToSet(d.permitted) : row = <<other.tag, other.literal>>
            BY <1>1, <2>3, <2>5 DEF Permits
        <2>7. other.tag = rule.tag /\ other.literal = rule.literal
            BY <2>2, <2>6
        <2>8. other \in Rules
            BY <1>2
        <2>9. other = rule
            BY <2>1, <2>7, <2>8 DEF Rules
        <2>10. QED
            BY <2>9
    <1>4. ASSUME NEW name \in ToSet(b.foreign) PROVE name \in ToSet(d.foreign)
        <2>1. PICK row : row = <<"refuse_foreign", name>>
            OBVIOUS
        <2>2. row \in Refusals(b)
            BY <2>1 DEF Refusals
        <2>3. row \notin Permits(d)
            <3>1. ASSUME NEW other \in ToSet(d.permitted), row = <<other.tag, other.literal>>
                  PROVE  FALSE
                <4>1. other.tag \in {"permit_exact", "permit_prefix"}
                    BY <1>2 DEF Rules
                <4>2. QED
                    BY <2>1, <3>1, <4>1
            <3>2. QED
                BY <3>1 DEF Permits
        <2>4. row \notin Under(d)
            BY <2>1 DEF Under
        <2>5. PICK other \in ToSet(d.foreign) : row = <<"refuse_foreign", other>>
            BY <1>1, <2>2, <2>3, <2>4 DEF Refusals
        <2>6. QED
            BY <2>1, <2>5
    <1>5. QED
        BY <1>3, <1>4

LEMMA SameAdmissionSameRefusals ==
    ASSUME NEW b \in Builds, NEW d \in Builds, ComputeAdmission(b) = ComputeAdmission(d),
           NEW environment
    PROVE  Offenders(b, environment) = Offenders(d, environment)
    <1>1. ToSet(b.permitted) = ToSet(d.permitted) /\ ToSet(b.foreign) = ToSet(d.foreign)
        <2>1. ToSet(b.permitted) \subseteq ToSet(d.permitted) /\ ToSet(b.foreign) \subseteq ToSet(d.foreign)
            BY AdmissionSeparates
        <2>2. ToSet(d.permitted) \subseteq ToSet(b.permitted) /\ ToSet(d.foreign) \subseteq ToSet(b.foreign)
            BY AdmissionSeparates
        <2>3. QED
            BY <2>1, <2>2
    <1>2. b.namespace = d.namespace
        BY DEF Builds
    <1>3. ASSUME NEW name PROVE Refused(b, name) <=> Refused(d, name)
        <2>1. InNamespace(b, name) <=> InNamespace(d, name)
            BY <1>2, Zenon DEF InNamespace
        <2>2. PermittedBy(b.permitted, name) <=> PermittedBy(d.permitted, name)
            BY <1>1, Zenon DEF PermittedBy
        <2>3. QED
            BY <1>1, <2>1, <2>2, Zenon DEF Refused
    <1>4. QED
        BY <1>3, Zenon DEF Offenders

\* The record and the id decide the evidence.
LEMMA SoundEvidenceAgrees ==
    ASSUME NEW e, NEW w, Sound(e), Sound(w),
           e.record = w.record, e.model.id = w.model.id
    PROVE  /\ e.from = w.from /\ e.refuses = w.refuses
           /\ RenderChatPrompt(e.model) = RenderChatPrompt(w.model)
    <1>1. PICK c \in Configurations, content \in Contents :
            /\ e.record.admission = ComputeAdmission(c.build)
            /\ e.record.model = content.digest
            /\ e.from = [contents |-> <<content, content>>, engine |-> e.record.engine,
                         host |-> e.record.host, workers |-> e.record.workers]
            /\ e.refuses = [d \in Configurations |-> Offenders(c.build, d.env)]
            /\ e.model.template = content.template
            /\ e.model.startsWithBos = content.startsWithBos
        BY Zenon DEF Sound
    <1>2. PICK k \in Configurations, other \in Contents :
            /\ w.record.admission = ComputeAdmission(k.build)
            /\ w.record.model = other.digest
            /\ w.from = [contents |-> <<other, other>>, engine |-> w.record.engine,
                         host |-> w.record.host, workers |-> w.record.workers]
            /\ w.refuses = [d \in Configurations |-> Offenders(k.build, d.env)]
            /\ w.model.template = other.template
            /\ w.model.startsWithBos = other.startsWithBos
        BY Zenon DEF Sound
    <1>3. content = other
        <2>1. content.digest = other.digest
            BY <1>1, <1>2
        <2>2. QED
            BY <2>1, DiskAssumption
    <1>4. e.from = w.from
        BY <1>1, <1>2, <1>3, Zenon
    <1>5. e.refuses = w.refuses
        <2>1. c.build \in Builds /\ k.build \in Builds
            BY ConfigurationAssumption
        <2>2. ComputeAdmission(c.build) = ComputeAdmission(k.build)
            BY <1>1, <1>2, Zenon
        <2>3. \A d \in Configurations : Offenders(c.build, d.env) = Offenders(k.build, d.env)
            BY <2>1, <2>2, SameAdmissionSameRefusals
        <2>4. QED
            BY <1>1, <1>2, <2>3, Zenon
    <1>6. RenderChatPrompt(e.model) = RenderChatPrompt(w.model)
        <2>1. /\ e.model.template = w.model.template
              /\ e.model.startsWithBos = w.model.startsWithBos
            BY <1>1, <1>2, <1>3, Zenon
        <2>2. QED
            BY <2>1, Zenon DEF RenderChatPrompt
    <1>7. QED
        BY <1>4, <1>5, <1>6

\* Two processes that publish the same record and serve under the same id have read the
\* same contents whole, refuse the same environments and render a chat the same way,
\* unless a file with the fingerprint of the hashed one came to the path of one of them
\* while it hashed or loaded (attribution.rs, lane.rs, surface.rs).
THEOREM EqualRecordsEqualTokens == Spec => []SameIdentitySameTokens
    <1>1. ServingInv => SameIdentitySameTokens
        <2>1. SUFFICES ASSUME ServingInv, witness # NoRecord, NEW r \in Serving, r \notin disturbed,
                              Evidence(r, model[r]).record = witness.record,
                              Evidence(r, model[r]).model.id = witness.model.id
                       PROVE  /\ Evidence(r, model[r]).from = witness.from
                              /\ Evidence(r, model[r]).refuses = witness.refuses
                              /\ RenderChatPrompt(Evidence(r, model[r]).model)
                                    = RenderChatPrompt(witness.model)
            BY DEF SameIdentitySameTokens
        <2>2. r \in Replicas /\ phase[r] = "serving"
            BY DEF Serving
        <2>3. PICK content \in Contents : Serves(r, content) /\ Whole(r, content)
            BY <2>1, <2>2 DEF ServingInv, ProcessInv
        <2>4. Launched(r)
            BY <2>1, <2>2 DEF ServingInv, ProcessInv
        <2>5. PICK served : served = model[r]
            OBVIOUS
        <2>6. served.template = content.template
              /\ served.startsWithBos = content.startsWithBos
            <3>1. PICK canonical, requested : served = ServedModel(content, canonical, requested)
                BY <2>3, <2>5, Zenon DEF Serves
            <3>2. PICK own, others :
                        served = [id |-> own, template |-> content.template,
                                  startsWithBos |-> content.startsWithBos, aliases |-> others]
                BY <3>1, Zenon DEF ServedModel
            <3>3. QED
                BY <3>2
        <2>7. Sound(Evidence(r, served))
            BY <2>2, <2>3, <2>4, <2>6, EvidenceIsSound
        <2>8. PICK e : e = Evidence(r, served)
            OBVIOUS
        <2>9. Sound(e) /\ Sound(witness)
            BY <2>1, <2>7, <2>8, Zenon DEF ServingInv
        <2>10. e.record = witness.record /\ e.model.id = witness.model.id
            BY <2>1, <2>5, <2>8, Zenon
        <2>11. /\ e.from = witness.from /\ e.refuses = witness.refuses
               /\ RenderChatPrompt(e.model) = RenderChatPrompt(witness.model)
            BY <2>9, <2>10, SoundEvidenceAgrees, Zenon
        <2>12. QED
            BY <2>5, <2>8, <2>11, Zenon
    <1>2. QED
        BY <1>1, Invariant, PTL
=============================================================================
