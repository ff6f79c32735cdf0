------------------------------ MODULE MCRouting ------------------------------
(* Two backends, one with two credentials, and the catalogues that matter *)
EXTENDS Routing, TLC

Model(price, lifecycle, hits) ==
    [fits |-> TRUE, says |-> TRUE, hits |-> hits, lifecycle |-> lifecycle, price |-> price, replacement |-> ""]

Backend(type, tags, accounts, models) ==
    [type |-> type, tags |-> tags, accounts |-> accounts, models |-> models,
     allowlist |-> FALSE, media |-> TRUE, speech |-> FALSE, clones |-> FALSE]

MCAt ==
    "b1" :> Backend("t1", {"quality"}, <<"x", "y">>, <<"m1">>)
    @@ "b2" :> Backend("t2", {"bulk"}, <<"x">>, <<"m2", "m1">>)
Speaking == [b \in {"b1", "b2"} |-> [MCAt[b] EXCEPT !.speech = TRUE, !.clones = b = "b2", !.media = b = "b2"]]
Listed == [MCAt EXCEPT !["b2"].allowlist = TRUE, !["b2"].models = <<"m2">>]
\* An adapter with no catalogue of its own takes any id.
Dynamic == [MCAt EXCEPT !["b1"].models = <<>>]
Single == [MCAt EXCEPT !["b1"].accounts = <<"x">>]
Crowded == [MCAt EXCEPT !["b2"].models = <<"m3", "m2", "m1">>, !["b1"].accounts = <<"x">>]

OpenKey == [allowTags |-> {}, denyTags |-> {}, allowBackends |-> {}, backend |-> "", tag |-> ""]
Catalogue(m1, m2) == "m1" :> m1 @@ "m2" :> m2

World(at, key, catalogue, plugins) ==
    [backends |-> <<"b1", "b2">>, at |-> at, key |-> key, catalogue |-> catalogue, plugins |-> plugins,
     aliases |-> "gateway-m1" :> [type |-> "t1", model |-> "m1", backend |-> ""]
                 @@ "mine" :> [type |-> "t2", model |-> "m1", backend |-> "b2"],
     slashed |-> "t2/m1" :> [type |-> "t2", model |-> "m1", backend |-> ""]]

Plain == Catalogue(Model(2, "active", 0), Model(1, "active", 1))
MCWorlds ==
    {World(MCAt, OpenKey, Plain, <<>>)}
    \cup {World(Single, OpenKey, Plain, plugins) : plugins \in {<<"open">>, <<"closed">>}}
    \cup {World(MCAt, key, Plain, <<>>) : key \in
            {[OpenKey EXCEPT !.backend = "b2"], [OpenKey EXCEPT !.tag = "bulk"],
             [OpenKey EXCEPT !.denyTags = {"t1"}], [OpenKey EXCEPT !.denyTags = {"b1", "b2"}],
             [OpenKey EXCEPT !.allowTags = {"quality"}], [OpenKey EXCEPT !.allowBackends = {"b2"}]}}
    \cup {World(MCAt, OpenKey, catalogue, <<>>) : catalogue \in
            {Catalogue([Model(2, "retired", 0) EXCEPT !.replacement = "m2"], Model(1, "active", 0)),
             Catalogue([Model(2, "active", 0) EXCEPT !.replacement = "m2"], Model(3, "deprecated", 1)),
             Catalogue(Model(1, "deprecated", 1), Model(-1, "active", 0)),
             Catalogue([Model(1, "active", 0) EXCEPT !.fits = FALSE], Model(3, "active", 0)),
             Catalogue(Model(-1, "active", 0), Model(1, "retired", 0))}}
    \cup {World(at, OpenKey, Plain, <<>>) : at \in {Speaking, Listed, Dynamic}}
    \cup {World(Crowded, OpenKey, catalogue @@ "m3" :> Model(1, "active", 0), <<>>) : catalogue \in
            {Catalogue([Model(2, "retired", 0) EXCEPT !.replacement = "m2"], Model(1, "active", 0)),
             Catalogue([Model(2, "active", 0) EXCEPT !.replacement = "m2"], Model(1, "active", 0))}}
    \cup {World(Speaking, OpenKey, catalogue, <<>>) : catalogue \in
            {Catalogue([Model(2, "active", 0) EXCEPT !.says = FALSE], Model(1, "active", 0)),
             Catalogue([Model(2, "active", 0) EXCEPT !.fits = FALSE], Model(1, "active", 0))}}

Directive(profile, optimize, fallback, cap) ==
    [profile |-> profile, optimize |-> optimize, fallback |-> fallback, cap |-> cap]
Directives ==
    {Directive("", "", fallback, cap) : fallback \in {"", "same_model", "any"}, cap \in {-1, 1}}
    \cup {Directive(profile, optimize, "", -1) : profile \in {"", "cheap", "best", "bulk"}, optimize \in {"", "latency"}}
    \cup {Directive("cheap", "balanced", "none", 2)}

Ask(model, directive) ==
    [model |-> model, directive |-> directive, audio |-> FALSE, clone |-> FALSE, voice |-> <<>>]
MCRequests ==
    {Ask("auto", directive) : directive \in {d \in Directives : d.fallback = ""}}
    \cup {Ask("m1", directive) : directive \in {d \in Directives : d.optimize = ""}}
    \cup {Ask(model, Directive("", "", "", -1)) : model \in {"gateway-m1", "mine", "t2/m1", "m2"}}
    \cup {[Ask(model, Directive("", "", fallback, -1)) EXCEPT !.audio = TRUE, !.clone = a.clone, !.voice = a.voice] :
            model \in {"auto", "m1"}, fallback \in {"", "any"},
            a \in [clone : {FALSE}, voice : {<<>>, <<"b1", "y">>}] \cup [clone : {TRUE}, voice : {<<>>}]}

MCProfiles ==
    "cheap" :> [tags |-> {}, optimize |-> "cost", fallback |-> "any", cap |-> 2]
    @@ "best" :> [tags |-> {"quality"}, optimize |-> "", fallback |-> "", cap |-> -1]
MCRooms == {NoBudget, 2}
===============================================================================
