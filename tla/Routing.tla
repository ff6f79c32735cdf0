------------------------------- MODULE Routing -------------------------------
(***************************************************************************)
(* Where a create goes: the routing plan (auto_mode.py, stages 1 to 7),    *)
(* the attempts over its candidates (stage 8), and the selection scores    *)
(* (observability/selection.py) that every attempt of every request moves. *)
(*                                                                         *)
(* A deployment, a key and a catalogue are chosen at the start and stand   *)
(* for the runtime the request was leased.  What the router reads of an    *)
(* input is kept as its verdict: whether a model's limits fit, how many    *)
(* optional controls they satisfy, and the estimated cost.  A score is     *)
(* one of four levels and a latency one of three: only their order ranks.  *)
(***************************************************************************)
EXTENDS Integers, Sequences, FiniteSets, SequencesExt

CONSTANTS
    Worlds,         \* what may be configured: records [backends, at, key, catalogue, aliases,
                    \* slashed, plugins], the last the failure modes of the route plugins, in order
    Requests,       \* what may be asked: records [model, audio, clone, voice, directive]
    Profiles,       \* the operator's routing profiles, by name
    DefaultOptimize, AllowUnpriced,
    Rooms,          \* what may be left of the budget, NoBudget when no cap applies
    MaxTraffic      \* bound on the steps of other requests (scores, spend)

Unset == ""
NoCap == -1
Unpriced == -1
NoBudget == 1000
Prices == -1 .. NoBudget - 1

\* Backends are named once and have a credential, ids are not empty, an alias
\* stands for a known model, and the operator's caps are amounts.
RoutingAssumption ==
    /\ \A w \in Worlds :
         /\ w.backends \in Seq(DOMAIN w.at)
         /\ \A i, j \in DOMAIN w.backends : w.backends[i] = w.backends[j] => i = j
         /\ \A b \in DOMAIN w.at : /\ w.at[b].accounts \in Seq(STRING) /\ w.at[b].accounts # <<>>
                                  /\ w.at[b].models \in Seq(STRING)
         /\ IsFiniteSet(DOMAIN w.catalogue) /\ Unset \notin DOMAIN w.catalogue
         /\ \A m \in DOMAIN w.catalogue : w.catalogue[m].price \in Prices /\ w.catalogue[m].hits \in Nat
         /\ \A a \in DOMAIN w.aliases : w.aliases[a].model \in DOMAIN w.catalogue
         /\ \A a \in DOMAIN w.slashed : w.slashed[a].model \in DOMAIN w.catalogue
         /\ w.plugins \in Seq({"open", "closed"})
    /\ \A q \in Requests : q.directive.cap \in Nat \cup {NoCap}
    /\ \A p \in DOMAIN Profiles : Profiles[p].cap \in Nat \cup {NoCap}
    /\ Unset \notin DOMAIN Profiles
    /\ AllowUnpriced \in BOOLEAN
    /\ Rooms \subseteq 0 .. NoBudget
ASSUME RoutingAssumption

\* What the attempts tell apart: the credentials of a backend have ids of their own.
DistinctAccounts ==
    \A w \in Worlds : \A b \in DOMAIN w.at : \A i, j \in DOMAIN w.at[b].accounts :
        w.at[b].accounts[i] = w.at[b].accounts[j] => i = j

VARIABLES
    world, request,
    store,      \* the selection store: [score, latency, cooling] by candidate key
    room,       \* what the budget still admits
    traffic,    \* environment steps taken
    phase,      \* "new", "planned", "trying", "calling", "done"
    plan,       \* [candidates, excluded, unavailable]
    consulted,  \* route plugins that have answered
    next,       \* index of the candidate in turn
    reason, lastFailure,
    tried,      \* history: the candidates taken up, [candidate, outcome]
    answer      \* [code, served, fallback, reason]

vars == <<world, request, store, room, traffic, phase, plan, consulted, next,
          reason, lastFailure, tried, answer>>

---------------------------------------------------------------------------
(* Order *)

\* A finite set in the order of a strict total order on it.
InOrder(S, R) ==
    [k \in 1 .. Cardinality(S) |->
        CHOOSE x \in S : Cardinality({y \in S : <<y, x>> \in R}) = k - 1]

\* The members of a sequence that are in a set, in their order.
Kept(s, set) ==
    LET places == {i \in DOMAIN s : s[i] \in set}
        order == InOrder(places, {p \in places \X places : p[1] < p[2]})
    IN  [k \in DOMAIN order |-> s[order[k]]]

First(s) == IF s = <<>> THEN s ELSE <<Head(s)>>

Lex(k, l) == \E i \in DOMAIN k : k[i] < l[i] /\ \A j \in 1..(i - 1) : k[j] = l[j]

\* Ranked candidates, the lowest rank first.
Sorted(S) == InOrder(S, {p \in S \X S : Lex(p[1].rank, p[2].rank)})

---------------------------------------------------------------------------
(* Policy and registry *)

\* The directive wins member by member over the named profile.
Policy ==
    LET directive == request.directive
        named == directive.profile \in DOMAIN Profiles
        Pick(member, none, default) ==
            IF directive[member] # none THEN directive[member]
            ELSE IF named /\ Profiles[directive.profile][member] # none
                 THEN Profiles[directive.profile][member] ELSE default
    IN  [optimize |-> Pick("optimize", Unset, DefaultOptimize),
         fallback |-> Pick("fallback", Unset, "none"),
         cap |-> Pick("cap", NoCap, NoCap),
         tags |-> IF named THEN Profiles[directive.profile].tags ELSE {},
         tag |-> IF named THEN Unset ELSE directive.profile]

At(b) == world.at[b]
Limits(m) == world.catalogue[m]
Position(seq, x) == CHOOSE i \in DOMAIN seq : seq[i] = x

\* Backends the key may use, in configuration order.
Usable ==
    LET key == world.key
        Open == key.allowTags = {} /\ key.allowBackends = {}
        May(b) == /\ b \notin key.denyTags /\ At(b).type \notin key.denyTags
                  /\ Open \/ b \in key.allowBackends \/ At(b).tags \cap key.allowTags # {}
    IN  Kept(world.backends, {b \in ToSet(world.backends) : May(b)})

\* No create names a backend, so the registry's backend pin is left out.
ServesModality(b) == IF request.audio THEN At(b).speech ELSE At(b).media
UsableForModality == Kept(Usable, {b \in ToSet(Usable) : ServesModality(b)})

Models(b) == At(b).models

\* An alias names its backend type; an advertised id beats the type/id spelling.
ResolveModelId(model) ==
    LET known == {At(b).type : b \in ToSet(Usable)}
        advertised == \E b \in ToSet(Usable) : model \in ToSet(Models(b))
    IN  IF model \in DOMAIN world.aliases THEN world.aliases[model]
        ELSE IF ~advertised /\ model \in DOMAIN world.slashed
                /\ world.slashed[model].type \in known
             THEN world.slashed[model]
             ELSE [type |-> Unset, model |-> model, backend |-> Unset]

Bit(p) == IF p THEN 1 ELSE 0

Serves(b, id) ==
    /\ id.backend \in {Unset, b}
    /\ id.type \in {Unset, At(b).type}
    /\ ServesModality(b)
    /\ \/ id.model \in ToSet(Models(b))
       \/ ~At(b).allowlist /\ (id.type = At(b).type \/ Models(b) = <<>>)

Serving(id) == Kept(Usable, {b \in ToSet(Usable) : Serves(b, id)})
Preference(b, serving) ==
    <<Bit(world.key.backend # b), Bit(world.key.tag \notin At(b).tags), Position(serving, b)>>

\* Serving backends, the key's default and then its default tag first.
Preferred(serving) ==
    InOrder(ToSet(serving), {p \in ToSet(serving) \X ToSet(serving) :
                               Lex(Preference(p[1], serving), Preference(p[2], serving))})

\* The real model and the usable backends that serve it, preferred ones first.
RealModel == ResolveModelId(request.model).model
BackendsServing ==
    LET Of(id) == [model |-> id.model, backends |-> Preferred(Serving(id))]
    IN  Of(ResolveModelId(request.model))

---------------------------------------------------------------------------
(* Scores *)

Key(b, a, m) == <<b, a, m>>
Untried == [score |-> 2, latency |-> 1, cooling |-> FALSE, tried |-> FALSE]
Scores == 0..3
Latencies == 0..2

Score(k) == IF store[k].cooling THEN 0 ELSE store[k].score

\* First outcomes set a level; later ones pull the decayed mix their own way.
\* A sample moves the latency average by 1/430, less than a level.
Observe(k, outcome, latency) ==
    LET old == store[k]
        good == outcome = "success"
    IN  \E score \in Scores :
          /\ IF old.tried
             THEN IF good THEN score >= old.score /\ score > 0 ELSE score <= old.score
             ELSE score = IF good THEN 3 ELSE Bit(latency # 2)
          /\ store' = [store EXCEPT ![k] =
                 [score |-> score, tried |-> TRUE,
                  latency |-> IF old.tried THEN old.latency ELSE latency,
                  cooling |-> old.cooling \/ outcome = "rate_limited"]]

---------------------------------------------------------------------------
(* Planner *)

\* Whether this credential of this backend can speak the request.
Speaks(b, a, m) ==
    \/ ~request.audio
    \/ /\ At(b).speech
       /\ request.clone => At(b).clones
       /\ request.voice \in {<<>>, <<b, a>>}
       /\ Limits(m).says

\* An adapter that reports an error excludes the model; other misfits say nothing.
Unspoken(b, a, m) ==
    /\ request.audio /\ At(b).speech /\ (request.clone => At(b).clones)
    /\ request.voice \in {<<>>, <<b, a>>}
    /\ ~Limits(m).says

\* Mutant: a price exactly at the cap is turned away.
AdmitBelowCap(m) ==
    LET price == Limits(m).price
    IN  IF Policy.cap # NoCap /\ price = Unpriced THEN "unpriced"
        ELSE IF Policy.cap # NoCap /\ price >= Policy.cap THEN "max_cost"
        ELSE IF room # NoBudget /\ price = Unpriced /\ ~AllowUnpriced THEN "unpriced"
        ELSE IF room # NoBudget /\ price > room THEN "budget" ELSE Unset

\* The reason a cap turns the model away, Unset when it is admitted.
AdmitReason(m) ==
    LET price == Limits(m).price
        cap == Policy.cap
        charged == IF price = Unpriced THEN 0 ELSE price
    IN  IF cap # NoCap /\ price = Unpriced THEN "unpriced"
        ELSE IF cap # NoCap /\ price > cap THEN "max_cost"
        ELSE IF room = NoBudget THEN Unset
        ELSE IF price = Unpriced /\ ~AllowUnpriced THEN "unpriced"
        ELSE IF charged > room THEN "budget" ELSE Unset

TagOk(b) ==
    /\ Policy.tag # Unset => Policy.tag \in At(b).tags
    /\ Policy.tags # {} => Policy.tags \cap At(b).tags # {}

\* Limits, then lifecycle, then price and budget.
AutoReason(m) ==
    IF ~Limits(m).fits THEN "limits"
    ELSE IF Limits(m).lifecycle = "retired" THEN "retired" ELSE AdmitReason(m)

OrderKey(k, static, price, deprecated) ==
    LET cooling == Bit(store[k].cooling)
    IN  CASE Policy.optimize = "cost" ->
               <<cooling, Bit(price = Unpriced), price, deprecated, -Score(k)>> \o static
          [] Policy.optimize = "latency" -> <<cooling, store[k].latency, -Score(k)>> \o static
          [] OTHER -> <<cooling, -Score(k)>> \o static

\* The models of the usable backends, and those that pass the gates.
Offered(except) ==
    {o \in ToSet(UsableForModality) \X DOMAIN world.catalogue :
       TagOk(o[1]) /\ o[2] \in ToSet(Models(o[1])) /\ o[2] # except}
Admitted(except) == {o \in Offered(except) : AutoReason(o[2]) = Unset}

Static(b, m) ==
    <<Bit(b # world.key.backend), Bit(world.key.tag \notin At(b).tags), -Limits(m).hits,
      Bit(Limits(m).lifecycle = "deprecated"), Position(UsableForModality, b), Position(Models(b), m)>>

AutoCandidate(b, m, i) ==
    LET k == Key(b, At(b).accounts[i], m)
    IN  [key |-> k, kind |-> "auto", estimate |-> Limits(m).price,
         rank |-> OrderKey(k, Static(b, m), Limits(m).price, Bit(Limits(m).lifecycle = "deprecated"))
                    \o <<i>>]

\* The accounts of the pairs that can speak the request.
SpokenFor(pairs) ==
    UNION {{<<o[1], o[2], i>> : i \in {i \in DOMAIN At(o[1]).accounts : Speaks(o[1], At(o[1]).accounts[i], o[2])}}
             : o \in pairs}

\* Every account of every usable backend, for every model that passes the gates.
AutoCandidates(except) ==
    LET Plan(offered, admitted) ==
            [candidates |-> Sorted({AutoCandidate(x[1], x[2], x[3]) : x \in SpokenFor(admitted)}),
             excluded |->
                {[model |-> o[2], reason |-> AutoReason(o[2])] : o \in offered \ admitted}
                  \cup {[model |-> o[2], reason |-> "limits"] : o \in
                          {o \in admitted : \E a \in ToSet(At(o[1]).accounts) : Unspoken(o[1], a, o[2])}}]
    IN  Plan(Offered(except), Admitted(except))

\* Without fallback the first account of the first backend, else all, healthy first.
SingleChoice == Policy.fallback = "none"
Chosen(backends) == IF SingleChoice THEN First(backends) ELSE backends
PinnedAccounts(b, model) ==
    LET spoken == Kept(At(b).accounts, {a \in ToSet(At(b).accounts) : Speaks(b, a, model)})
    IN  IF SingleChoice THEN First(spoken) ELSE spoken

PinnedCandidate(b, a, model, i, j) ==
    LET k == Key(b, a, model)
    IN  [key |-> k, kind |-> "pinned", estimate |-> Limits(model).price,
         rank |-> <<Bit(store[k].cooling), -Score(k), i, j>>]

PinnedCandidates(model, chosen) ==
    Sorted(UNION {{PinnedCandidate(chosen[i], PinnedAccounts(chosen[i], model)[j], model, i, j)
                     : j \in DOMAIN PinnedAccounts(chosen[i], model)} : i \in DOMAIN chosen})

ReplacementFirst(others, successor) ==
    LET Marked(c) == IF successor # Unset /\ c.key[3] = successor
                     THEN [c EXCEPT !.kind = "replacement"] ELSE c
        marked == [i \in DOMAIN others |-> Marked(others[i])]
        first == {c \in ToSet(marked) : c.kind = "replacement"}
    IN  Kept(marked, first) \o Kept(marked, ToSet(marked) \ first)

NoPlan(error) == [error |-> error, candidates |-> <<>>, excluded |-> {}, unavailable |-> Unset]

\* Mutant: a cap among the reasons outranks the budget, and limits outrank both.
NoCandidateAnyReason(excluded) ==
    LET reasons == {e.reason : e \in excluded}
    IN  IF "limits" \in reasons THEN "validation_error"
        ELSE IF reasons \cap {"max_cost", "unpriced"} # {} THEN "cost_limit_exceeded" ELSE "budget_exceeded"

\* The error of a plan without candidates.
NoCandidateError(excluded) ==
    LET reasons == {e.reason : e \in excluded}
    IN  IF "budget" \in reasons THEN "budget_exceeded"
        ELSE IF reasons \cap {"max_cost", "unpriced"} # {} THEN "cost_limit_exceeded"
        ELSE "validation_error"

PlannedAuto ==
    LET Plan(auto) ==
            [error |-> IF auto.candidates = <<>> THEN NoCandidateError(auto.excluded) ELSE Unset,
             candidates |-> auto.candidates, excluded |-> auto.excluded, unavailable |-> Unset]
    IN  Plan(AutoCandidates(Unset))

\* Why the pinned model may not serve, Unset when it may.
PinnedGate(model) ==
    IF Limits(model).lifecycle = "retired" THEN "retired"
    ELSE IF request.audio /\ ~Limits(model).fits THEN "limits" ELSE AdmitReason(model)

\* The pinned model's candidates, and behind them the automatic ones of fallback any.
PinnedPlan(model, gate, pinned, auto, unspoken, raising) ==
    LET excluded == unspoken \cup (IF gate = Unset THEN {} ELSE {[model |-> request.model, reason |-> gate]})
                      \cup auto.excluded
        candidates == pinned \o ReplacementFirst(auto.candidates, Limits(model).replacement)
    IN  [error |-> IF gate = "retired" /\ Policy.fallback # "any" /\ raising THEN "model_retired"
                   ELSE IF candidates = <<>> THEN NoCandidateError(excluded) ELSE Unset,
         candidates |-> candidates, excluded |-> excluded,
         unavailable |-> CASE gate = "retired" -> "model_retired"
                           [] gate \in {Unset, "limits"} -> Unset
                           [] OTHER -> "over_budget"]

\* Backends with an account that can speak the request, and those that decline it.
SpeakingOf(backends, model) ==
    Kept(backends, {b \in ToSet(backends) : \E a \in ToSet(At(b).accounts) : Speaks(b, a, model)})
Mute(backends, model) ==
    {[model |-> model, reason |-> "limits"] :
       b \in {b \in ToSet(backends) : \E a \in ToSet(At(b).accounts) : Unspoken(b, a, model)}}
Tagged(backends) == Kept(backends, {b \in ToSet(backends) : TagOk(b)})

PlannedPinned(raising) ==
    LET Plan(model, backends, tagged, gate) ==
            IF backends = <<>> THEN NoPlan("model_not_found")
            ELSE IF tagged = <<>> /\ (Policy.tag # Unset \/ Policy.tags # {}) THEN NoPlan("invalid_request_error")
            ELSE PinnedPlan(model, gate,
                            IF gate = Unset THEN PinnedCandidates(model, Chosen(tagged)) ELSE <<>>,
                            IF Policy.fallback = "any" THEN AutoCandidates(model)
                                                       ELSE [candidates |-> <<>>, excluded |-> {}],
                            Mute(backends, model), raising)
        Pin(serving) == Plan(serving.model, serving.backends,
                             Tagged(SpeakingOf(serving.backends, serving.model)),
                             PinnedGate(serving.model))
    IN  Pin(BackendsServing)

Planned(raising) ==
    IF Usable = <<>> THEN NoPlan("forbidden")
    ELSE IF request.model = "auto" THEN PlannedAuto ELSE PlannedPinned(raising)

---------------------------------------------------------------------------
(* The create *)

\* Models a backend may be asked for; one without an allowlist takes any id.
Reached(b) == IF At(b).allowlist THEN ToSet(Models(b)) ELSE ToSet(Models(b)) \cup DOMAIN world.catalogue

Init ==
    /\ world \in Worlds /\ request \in Requests /\ room \in Rooms
    /\ request.model \in {"auto"} \cup DOMAIN world.catalogue \cup DOMAIN world.aliases \cup DOMAIN world.slashed
    /\ request.model # "auto" => RealModel \in DOMAIN world.catalogue
    /\ store = [k \in UNION {{Key(b, a, m) : a \in ToSet(At(b).accounts), m \in Reached(b)}
                              : b \in ToSet(world.backends)} |-> Untried]
    /\ traffic = 0 /\ phase = "new" /\ consulted = 0 /\ next = 1
    /\ plan = [candidates |-> <<>>, excluded |-> {}, unavailable |-> Unset]
    /\ reason = Unset /\ lastFailure = Unset /\ tried = <<>>
    /\ answer = [code |-> Unset, served |-> <<>>, fallback |-> FALSE, reason |-> Unset]

Refuse(code) ==
    /\ phase' = "done"
    /\ answer' = [answer EXCEPT !.code = code]

\* plan_route: one synchronous look at the store and the ledger.
PlanRoute ==
    /\ phase = "new"
    /\ LET Adopt(planned) ==
               /\ plan' = [candidates |-> planned.candidates, excluded |-> planned.excluded,
                           unavailable |-> planned.unavailable]
               /\ reason' = planned.unavailable
               /\ IF planned.error # Unset THEN Refuse(planned.error)
                  ELSE phase' = "planned" /\ UNCHANGED answer
       IN  Adopt(Planned(TRUE))
    /\ UNCHANGED <<world, request, store, room, traffic, consulted, next, lastFailure, tried>>

\* A route plugin answers with some of the places of the plan, each once, in any order.
PluginRoutes ==
    /\ phase = "planned" /\ consulted < Len(world.plugins)
    /\ LET candidates == plan.candidates
           Dropped(i) == [model |-> candidates[i].key[3], reason |-> "plugin_policy"]
       IN  \E n \in 0 .. Len(candidates) : \E result \in Injection(1 .. n, DOMAIN candidates) :
             plan' = [plan EXCEPT !.candidates = [k \in 1 .. n |-> candidates[result[k]]],
                                  !.excluded = @ \cup {Dropped(i) : i \in DOMAIN candidates \ Range(result)}]
    /\ consulted' = consulted + 1
    /\ UNCHANGED <<world, request, store, room, traffic, phase, next, reason, lastFailure,
                   tried, answer>>

\* A hook that raises, times out or answers nonsense is ignored, or ends the create.
PluginFails ==
    /\ phase = "planned" /\ consulted < Len(world.plugins)
    /\ consulted' = consulted + 1
    /\ IF world.plugins[consulted + 1] = "closed" THEN Refuse("plugin_route_error") ELSE UNCHANGED <<phase, answer>>
    /\ UNCHANGED <<world, request, store, room, traffic, plan, next, reason, lastFailure, tried>>

RouteSettled ==
    /\ phase = "planned" /\ consulted = Len(world.plugins)
    /\ IF plan.candidates = <<>> THEN Refuse("plugin_route_rejected") ELSE phase' = "trying" /\ UNCHANGED answer
    /\ UNCHANGED <<world, request, store, room, traffic, plan, consulted, next, reason, lastFailure,
                   tried>>

Current == plan.candidates[next]
Charged(c) == IF c.estimate = Unpriced THEN 0 ELSE c.estimate
Left(c, sign) == IF room = NoBudget THEN room ELSE room + sign * Charged(c)

\* How long its own attempts took ranks later creates, not this one.
Typical == 1
Attempted(outcome) == tried' = Append(tried, [candidate |-> Current, outcome |-> outcome])

\* The hold reserves the estimate before the provider is called.
HoldEstimate ==
    /\ phase = "trying" /\ next <= Len(plan.candidates)
    /\ Charged(Current) <= room
    /\ room' = Left(Current, -1)
    /\ phase' = "calling"
    /\ UNCHANGED <<world, request, store, traffic, plan, consulted, next, reason, lastFailure,
                   tried, answer>>

\* Mutant: the first refused hold ends the create.
HoldRefusedEnds ==
    /\ phase = "trying" /\ next <= Len(plan.candidates) /\ Charged(Current) > room
    /\ Refuse("budget_exceeded") /\ Attempted("over_budget")
    /\ UNCHANGED <<world, request, store, room, traffic, plan, consulted, next, reason, lastFailure>>

\* The budget filled up since planning: the next candidate may be cheaper.
HoldRefused ==
    /\ phase = "trying" /\ next <= Len(plan.candidates)
    /\ Charged(Current) > room
    /\ reason' = "over_budget" /\ next' = next + 1 /\ Attempted("over_budget")
    /\ UNCHANGED <<world, request, store, room, traffic, phase, plan, consulted, lastFailure, answer>>

AttemptAccepted ==
    LET fallback == \/ next > 1 \/ plan.unavailable # Unset
                    \/ request.model # "auto" /\ Current.kind # "pinned"
    IN  /\ phase = "calling"
        /\ Observe(Current.key, "success", Typical)
        /\ phase' = "done" /\ Attempted("success")
        /\ answer' = [code |-> Unset, served |-> Current.key, fallback |-> fallback,
                      reason |-> IF ~fallback THEN Unset
                                 ELSE IF reason = Unset THEN "provider_unavailable" ELSE reason]
        /\ UNCHANGED <<world, request, room, traffic, plan, consulted, next, reason, lastFailure>>

\* 429s, timeouts, 5xx and unknown errors move on, the last three under three
\* names for the report; a client error is the answer.
Failures == {"rate_limited", "provider_unavailable", "client_error"}
Retryable(failure) == failure # "client_error"

AttemptFailed ==
    /\ phase = "calling"
    /\ room' = Left(Current, 1)
    /\ \E failure \in Failures :
         /\ Observe(Current.key, failure, Typical)
         /\ Attempted(failure) /\ lastFailure' = failure
         /\ IF ~Retryable(failure) \/ (request.model # "auto" /\ Policy.fallback = "none")
            THEN Refuse(failure) /\ UNCHANGED <<reason, next>>
            ELSE /\ reason' = failure /\ next' = next + 1
                 /\ phase' = "trying" /\ UNCHANGED answer
    /\ UNCHANGED <<world, request, traffic, plan, consulted>>

\* The last failure is the answer, else the budget that filled up.
Exhausted ==
    /\ phase = "trying" /\ next > Len(plan.candidates)
    /\ Refuse(IF lastFailure # Unset THEN lastFailure ELSE "budget_exceeded")
    /\ UNCHANGED <<world, request, store, room, traffic, plan, consulted, next, reason, lastFailure,
                   tried>>

---------------------------------------------------------------------------
(* Everybody else *)

Elsewhere == traffic < MaxTraffic /\ traffic' = traffic + 1

\* Only the plan reads the store: what others record later ranks later creates.

OthersObserve ==
    /\ Elsewhere /\ phase = "new"
    /\ \E k \in DOMAIN store :
         \/ \E latency \in {0, 2} : Observe(k, "success", latency)
         \/ \E failure \in {"rate_limited", "provider_unavailable"} : Observe(k, failure, 0)
    /\ UNCHANGED <<world, request, room, phase, plan, consulted, next, reason, lastFailure,
                   tried, answer>>

OthersSpend ==
    /\ Elsewhere /\ phase # "done" /\ room \notin {0, NoBudget}
    /\ room' = 0
    /\ UNCHANGED <<world, request, store, phase, plan, consulted, next, reason, lastFailure,
                   tried, answer>>

CooldownEnds ==
    /\ phase = "new"
    /\ \E k \in DOMAIN store : store[k].cooling /\ store' = [store EXCEPT ![k].cooling = FALSE]
    /\ UNCHANGED <<world, request, room, traffic, phase, plan, consulted, next, reason, lastFailure,
                   tried, answer>>

Done == phase = "done" /\ UNCHANGED vars

Next == \/ PlanRoute \/ PluginRoutes \/ PluginFails \/ RouteSettled
        \/ HoldEstimate \/ HoldRefused \/ AttemptAccepted \/ AttemptFailed \/ Exhausted
        \/ OthersObserve \/ OthersSpend \/ CooldownEnds \/ Done

Spec == Init /\ [][Next]_vars

---------------------------------------------------------------------------
(* The registry's own resolution, and the estimate *)

\* Registry.enumerate_auto_candidates: limits and lifecycle, then live health.
EnumerateAutoCandidates ==
    LET fitting == {o \in ToSet(UsableForModality) \X DOMAIN world.catalogue :
                      /\ o[2] \in ToSet(Models(o[1])) /\ Limits(o[2]).fits
                      /\ Limits(o[2]).lifecycle # "retired"
                      /\ Policy.tag # Unset => Policy.tag \in At(o[1]).tags}
        Rank(b, m, i) ==
            LET k == Key(b, At(b).accounts[i], m)
            IN  <<Bit(store[k].cooling), -Score(k), Bit(b # world.key.backend),
                  Bit(world.key.tag \notin At(b).tags), -Limits(m).hits,
                  Position(UsableForModality, b), Position(Models(b), m), i>>
        Account(b, m, i) == [key |-> Key(b, At(b).accounts[i], m), rank |-> Rank(b, m, i)]
        Keys(order) == [i \in DOMAIN order |-> order[i].key]
    IN  Keys(Sorted(UNION {{Account(o[1], o[2], i) : i \in DOMAIN At(o[1]).accounts} : o \in fitting}))

\* Mutant: the default tag beats the default backend.
ResolveTagFirst ==
    LET candidates == BackendsServing.backends
        With(t) == Kept(candidates, {b \in ToSet(candidates) : t \in At(b).tags})
    IN  IF With(Policy.tag) # <<>> THEN Head(With(Policy.tag))
        ELSE IF With(world.key.tag) # <<>> THEN Head(With(world.key.tag)) ELSE Head(world.backends)

\* Registry.resolve for a pinned model: tag, then the key's defaults, then the first.
ResolvePinned ==
    LET candidates == BackendsServing.backends
        With(t) == Kept(candidates, {b \in ToSet(candidates) : t \in At(b).tags})
    IN  IF Policy.tag # Unset THEN Head(With(Policy.tag))
        ELSE IF world.key.backend \in ToSet(candidates) THEN world.key.backend
        ELSE IF With(world.key.tag) # <<>> THEN Head(With(world.key.tag)) ELSE Head(candidates)

\* Mutant: the estimate names the cheapest model offered.
EstimateCheapest ==
    LET Cheapest(models) == CHOOSE m \in models : \A n \in models : Limits(m).price <= Limits(n).price
        Report(admissible, excluded) ==
            [model |-> IF admissible = {} THEN Unset ELSE Cheapest(admissible),
             admissible |-> admissible, refused |-> {e.model : e \in excluded} \ admissible]
        Of(planned) == Report({c.key[3] : c \in ToSet(planned.candidates)}, planned.excluded)
    IN  Of(Planned(FALSE))

\* POST .../estimate: each model once, admissible ones first; <<>> when it raises.
EstimateRoute ==
    LET Report(candidates, admissible, excluded) ==
            [model |-> IF candidates = <<>> THEN Unset ELSE candidates[1].key[3],
             admissible |-> admissible, refused |-> {e.model : e \in excluded} \ admissible]
        Of(planned) == Report(planned.candidates, {c.key[3] : c \in ToSet(planned.candidates)},
                              planned.excluded)
    IN  Of(Planned(FALSE))

---------------------------------------------------------------------------
(* Properties *)

TypeOK ==
    /\ store \in [DOMAIN store -> [score : Scores, latency : Latencies, cooling : BOOLEAN, tried : BOOLEAN]]
    /\ room \in 0..NoBudget /\ next \in 1..(Len(plan.candidates) + 1)
    /\ phase \in {"new", "planned", "trying", "calling", "done"}
    /\ answer.reason \in {Unset, "model_retired", "over_budget"} \cup (Failures \ {"client_error"})

Planning == phase = "new" /\ phase' # "new"
Candidates == {plan'.candidates[i] : i \in DOMAIN plan'.candidates}

\* The documented gates, read off the configuration, in the documents' order.
Offers(b, m) ==
    /\ b \in ToSet(UsableForModality) /\ m \in ToSet(At(b).models)
    /\ request.directive.profile # Unset =>
         IF request.directive.profile \in DOMAIN Profiles
         THEN Profiles[request.directive.profile].tags \in {{}} \/
              Profiles[request.directive.profile].tags \cap At(b).tags # {}
         ELSE request.directive.profile \in At(b).tags
Fitting(b, m) == Offers(b, m) /\ Limits(m).fits /\ Limits(m).lifecycle # "retired"
Known(m) == Limits(m).price # Unpriced
WithinCap(m) == Policy.cap # NoCap => Known(m) /\ Limits(m).price <= Policy.cap
WithinBudget(m, left) ==
    left # NoBudget => IF Known(m) THEN Limits(m).price <= left ELSE AllowUnpriced
Pairs == {p \in ToSet(world.backends) \X DOMAIN world.catalogue : Fitting(p[1], p[2])}

\* A candidate cooling down after a rate limit is behind every other of its kind,
\* whatever the optimize mode (auto-mode.md:69-70; _Planner.order_key, plan_route).
CoolingSinks ==
    [][Planning => \A i, j \in DOMAIN plan'.candidates :
          LET c == plan'.candidates[i]
              d == plan'.candidates[j]
          IN  i < j /\ c.kind = d.kind /\ store[c.key].cooling => store[d.key].cooling]_vars

\* An automatic plan holds every account of every model that passes the gates,
\* and nothing else (auto-mode.md stages 1 to 6; _Planner.auto_candidates).
EveryCandidate ==
    [][Planning /\ request.model = "auto" /\ ~request.audio =>
          {c.key : c \in Candidates} =
             UNION {{Key(p[1], a, p[2]) : a \in ToSet(At(p[1]).accounts)} :
                      p \in {p \in Pairs : WithinCap(p[2]) /\ WithinBudget(p[2], room)}}]_vars

\* Whatever fallbacks and plugins did, the served model is not retired, is within
\* the cap, fitted the budget when it was held, and its backend carries the
\* profile's tags and speaks with the voice asked for.
ServedWithinPolicy ==
    [][answer'.served # answer.served =>
          LET k == answer'.served
          IN  /\ Limits(k[3]).lifecycle # "retired" /\ WithinCap(k[3]) /\ room >= 0
              /\ request.directive.profile # Unset => TagOk(k[1])
              /\ request.audio => /\ Limits(k[3]).says /\ request.voice \in {<<>>, <<k[1], k[2]>>}
                                  /\ Limits(k[3]).fits]_vars

\* fallback none tries one candidate, same_model only the pinned model, any the
\* pinned model, then its replacement, then the rest; and no candidate is taken
\* up twice (auto-mode.md, Fallbacks; plan_route).
FallbackKept ==
    /\ \A i, j \in DOMAIN tried : i # j => tried[i].candidate.key # tried[j].candidate.key
    /\ request.model # "auto" =>
         LET model == RealModel
             Stage(c) == IF c.key[3] = model THEN 1
                         ELSE IF c.key[3] = Limits(model).replacement THEN 2 ELSE 3
         IN  /\ Policy.fallback = "none" => Len(tried) <= 1
             /\ Policy.fallback # "any" => \A i \in DOMAIN tried : Stage(tried[i].candidate) = 1
             /\ world.plugins = <<>> =>
                  \A i, j \in DOMAIN tried : i < j => Stage(tried[i].candidate) <= Stage(tried[j].candidate)

\* A create refused before any provider is contacted says why: nothing fits, or
\* everything that fits is over the cap or unpriced, or a budget has no room
\* (auto-mode.md, Errors; _no_candidate_error).
ErrorSpecific ==
    [][Planning /\ request.model = "auto" /\ ~request.audio =>
          CASE answer'.code = "validation_error" -> Pairs = {}
            [] answer'.code = "cost_limit_exceeded" ->
                 /\ Pairs # {}
                 /\ \A p \in Pairs : ~WithinCap(p[2]) \/ ~Known(p[2])
            [] answer'.code = "budget_exceeded" ->
                 \E p \in Pairs : Known(p[2]) /\ WithinCap(p[2]) /\ ~WithinBudget(p[2], room)
            [] OTHER -> TRUE]_vars

\* The task says it is a fallback exactly when the first choice did not serve
\* it, and the reason it names is what happened last (execute_plan).
FallbackReported ==
    answer.served # <<>> =>
        LET served == tried[Len(tried)]
            passed == Len(tried) - 1
        IN  /\ answer.fallback = (passed > 0 \/ plan.unavailable # Unset
                                   \/ (request.model # "auto" /\ served.candidate.key[3] # RealModel))
            /\ passed > 0 => answer.reason = tried[passed].outcome
            /\ passed = 0 /\ plan.unavailable # Unset =>
                 answer.reason = IF Limits(RealModel).lifecycle = "retired"
                                 THEN "model_retired" ELSE "over_budget"

\* A create that may fall back fails only on a client error or once every
\* candidate was tried or refused by a budget, and it then answers with the
\* last failure (execute_plan; auto-mode.md, Fallbacks).
CandidatesExhausted ==
    phase = "done" /\ tried # <<>> /\ answer.served = <<>>
      /\ (request.model = "auto" \/ Policy.fallback # "none")
      => \/ tried[Len(tried)].outcome = "client_error" /\ answer.code = "client_error"
         \/ /\ {tried[i].candidate : i \in DOMAIN tried} = ToSet(plan.candidates)
            /\ LET failed == {i \in DOMAIN tried : tried[i].outcome # "over_budget"}
               IN  answer.code = IF failed = {} THEN "budget_exceeded" ELSE tried[Max(failed)].outcome

\* A plan holds what may serve the request and nothing else, in an order that
\* spares the accounts cooling down, and what is served in the end is within it.
PlanSound ==
    /\ CoolingSinks
    /\ EveryCandidate
    /\ ServedWithinPolicy

\* The types, and that fallbacks are those asked for, are reported as such and
\* go on until nothing is left.
FallbackSound ==
    /\ TypeOK
    /\ FallbackKept
    /\ FallbackReported
    /\ CandidatesExhausted

\* An estimate names the model a create would try first, or none when a create
\* would be refused, and lists no model as both (auto-mode.md:245-247; estimate_route).
EstimateHonest ==
    [][Planning =>
          LET Honest(estimate) ==
                  /\ estimate.model = IF plan'.candidates = <<>> \/ phase' = "done" THEN Unset
                                      ELSE plan'.candidates[1].key[3]
                  /\ estimate.refused \cap {c.key[3] : c \in Candidates} = {}
          IN  Honest(EstimateRoute)]_vars

\* The registry's own resolution and the planner, written apart, pick alike when
\* no price, budget, deprecation or speech sets them apart (Registry.resolve,
\* enumerate_auto_candidates; plan_route).
RegistryAgrees ==
    [][Planning /\ phase' = "planned" /\ ~request.audio /\ Policy.tags = {} =>
          IF request.model # "auto"
          THEN Policy.fallback = "none" => ResolvePinned = plan'.candidates[1].key[1]
          ELSE Policy.optimize = "balanced" /\ Policy.cap = NoCap /\ room = NoBudget
                 /\ (\A m \in DOMAIN world.catalogue : Limits(m).lifecycle # "deprecated")
               => EnumerateAutoCandidates = [i \in DOMAIN plan'.candidates |-> plan'.candidates[i].key]]_vars
===============================================================================
