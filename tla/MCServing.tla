----------------------------- MODULE MCServing -----------------------------
(* Two replicas behind one gateway, two paths, one of them writable, three files, and
   contents of which two have one length. *)
EXTENDS Serving

CONSTANTS r1, r2

Content(digest, name, template) ==
    [digest |-> digest, name |-> name, template |-> template, startsWithBos |-> TRUE, len |-> 7]
Unnamed == Content("n", "", "llama3")
Longer  == [Content("l", "", "llama3") EXCEPT !.len = 8]
Beta    == Content("b", "beta", "jinja")

AFile == [text |-> "/models/alpha.gguf", name |-> "alpha.gguf", stem |-> "alpha"]
BFile == [text |-> "/models/beta.gguf", name |-> "beta.gguf", stem |-> "beta"]
Link  == [text |-> "current", name |-> "current", stem |-> "current"]

Origin(host) == [scheme |-> "http", host |-> host, path |-> ""]
MCOriginOf == (r1 :> Origin("one")) @@ (r2 :> Origin("two"))
MCHostOf   == (r1 :> [summary |-> "avx2", cores |-> 2]) @@ (r2 :> [summary |-> "avx2", cores |-> 1])

MCInitialDisk == (AFile :> [inode |-> 1, content |-> Unnamed])
                 @@ (BFile :> [inode |-> 2, content |-> Longer])
MCWritablePaths == {AFile}
MCSpareFiles  == {[inode |-> 3, content |-> Beta]}

Clean(path, requested) ==
    [lane |-> "deterministic", build |-> ThisBuild("e"), env |-> MODEL :> requested.text,
     threads |-> NotSet, slots |-> 1,
     requested |-> [canonical |-> path, path |-> requested]]
OldEngine == [ThisBuild("f") EXCEPT !.permitted = Tail(@) \o <<Prefix(MODEL)>>]

MCConfigurations ==
    {Clean(BFile, BFile), [Clean(AFile, Link) EXCEPT !.build = OldEngine, !.threads = 1]}
    \cup {[Clean(AFile, AFile) EXCEPT !.env = @ @@ extra] :
            extra \in {THREADS :> 1, THREADS :> 0, RAYON_NUM_THREADS :> 1,
                       <<"CAMELID", "DETERMINISTIC">> :> "0",
                       <<"CAMELID", "ENTERPRISE", "MODEL", "DIR">> :> "/"}}

Args(upstream, routes) ==
    [upstream |-> upstream, routes |-> routes, maxBody |-> 2, budget |-> 9,
     audit |-> "a", usage |-> "u", maxConnection |-> 30]
To(id, host) == [id |-> id, origin |-> Origin(host)]
MCGatewayArgs ==
    {Args(Origin("one"), <<>>), [Args(Origin("one"), <<>>) EXCEPT !.usage = "a"],
     Args(NoOrigin, <<To("alpha", "one")>>),
     Args(NoOrigin, <<To("beta", "one"), To("alpha", "one")>>)}

Body(models) ==
    [size |-> "fits", form |-> "object", models |-> models, extra |-> FALSE, input |-> "fine",
     hot |-> FALSE, stream |-> FALSE, long |-> FALSE]
Post(body) == [method |-> "POST", path |-> <<"v1", "chat", "completions">>, type |-> "json",
               body |-> body]
Plain(method, path) == [Discovery EXCEPT !.method = method, !.path = <<"v1">> \o path]

Naming == {<<>>, <<Null>>, <<"alpha">>, <<"beta">>, <<"alpha.gguf">>, <<Number>>,
           <<"beta", "alpha">>, <<"beta", "current">>}
MCRequests ==
    {Post(Body(models)) : models \in Naming}
    \cup {Post(body) : body \in
            {[Body(<<"alpha">>) EXCEPT !.form = f] : f \in {"trailing", "sequence", "broken"}}
            \cup {[Body(<<"alpha">>) EXCEPT !.input = i] : i \in {"absent", "empty", "badrole"}}
            \cup {[Body(<<"alpha">>) EXCEPT !.size = "over"], [Body(<<"alpha">>) EXCEPT !.extra = TRUE],
                  [Body(<<"alpha">>) EXCEPT !.hot = TRUE], [Body(<<"alpha">>) EXCEPT !.stream = TRUE],
                  [Body(<<"alpha">>) EXCEPT !.long = TRUE]}}
    \cup {[Post(Body(<<"alpha">>)) EXCEPT !.path = <<"v1", "completions">>],
          [Post(Body(<<"alpha">>)) EXCEPT !.type = "text"],
          [Post(Body(<<>>)) EXCEPT !.path = <<"v1", "embeddings">>],
          [Post(Body(<<>>)) EXCEPT !.path = <<"v1", "messages", "count">>]}
    \cup {Plain(m, <<"models">>) : m \in {"GET", "HEAD", "OPTIONS", "DELETE"}}
    \cup {Plain("GET", p) : p \in {<<"health">>, <<"models", "alpha">>, <<"models", "">>,
                                   <<"models", "a", "b">>, <<"completions">>, <<"api">>}}
    \cup {[Discovery EXCEPT !.path = <<"healthz">>]}
=============================================================================
