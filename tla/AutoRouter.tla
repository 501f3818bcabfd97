------------------------------ MODULE AutoRouter ------------------------------
(***************************************************************************)
(* How requests for the model "auto" are routed while Nacos changes the    *)
(* router's configuration: resolveAutoRouter, getOrCreateRouterStrategy    *)
(* and getRetryConfig of internal/logic/chat.go, updateRouterConfig and    *)
(* the strategy cache of internal/bootstrap/service_context.go,            *)
(* ApplyRouterDefaults of internal/config/loader.go.                       *)
(*                                                                         *)
(* Requests read Config.Router without svc.mu, which updateRouterConfig    *)
(* holds; the cached strategy has a lock of its own.  So a step is one     *)
(* read of the pointer, one access of the cache, or one Run of a strategy, *)
(* whose only writes are made under the mutex of a group.                  *)
(***************************************************************************)
EXTENDS PriorityStrategy, SemanticStrategy

CONSTANTS
    Requests,   \* bound: requests at a time; one that ends makes room for the next
    Users,      \* the users that requests come from
    Configs,    \* the configurations that are published
    Table,      \* Table[c]: the content of the configuration c
    None        \* no configuration, no strategy

Sections == {"semantic", "priority"}

(* candidates and fallback are those of the section "priority", routing is *)
(* that of the section "semantic"; idleTimeoutMs stands for the timeouts   *)
(* and the retry interval of each section, which get their defaults in the *)
(* same way.                                                               *)
ConfigType ==
    [enabled : BOOLEAN, strategy : STRING, idleTimeoutMs : [Sections -> Int],
     candidates : Seq([model : STRING, enabled : BOOLEAN, priority : Int,
                       weight : Int, minVipLevel : Int]),
     fallback : STRING \union {NoModel},
     routing :
       [candidates : Seq([model : STRING, enabled : BOOLEAN,
                          scores : [Labels -> Int]]),
        minScore : Int, tieBreakOrder : Seq(STRING),
        fallbackModelName : STRING \union {NoModel}, ruled : BOOLEAN]]

(* Strategy objects: the cache holds at most one and each request at most  *)
(* one; the number of an object that nobody holds is used again.           *)
Objects == 1..(Cardinality(Requests) + 1)

ASSUME RouterAssumption ==
    /\ IsFiniteSet(Requests) /\ Requests # {}
    /\ None \notin Objects /\ None \notin Configs
    /\ Users \subseteq [vip : Int, expired : BOOLEAN]
    /\ Configs # {}
    /\ \A c \in Configs : Table[c] \in ConfigType
    /\ Alphabet \in Seq(STRING)

VARIABLES
    router,     \* Config.Router: the configuration it points to
    idle,       \* idleTimeoutMs of each section of *Config.Router
    updater,    \* updateRouterConfig: "done", "assigned" or "defaulted"
    cache,      \* routerStrategy: an object or None
    config,     \* config[o]: the configuration that the object o was made from
    weights,    \* weights[o]: the states of its groups, by KeyOf
    picked,     \* history: picked[o][g]: picks from the visible group g in this cycle
    overlapped, \* history: a strategy was being made when the cache was cleared
    pc,         \* pc[r]: where the request stands
    runner,     \* runner[r]: the strategy object in getOrCreateRouterStrategy or Run
    route,      \* route[r]: what Run returned, until the settings are read
    section,    \* section[r]: where it reads its settings; of, a history: chosen by which
    timeout     \* timeout[r]: the idle timeout of its calls; -1: not read yet

nacos == <<router, idle, updater>>
objects == <<config, weights, picked>>
vars == <<nacos, cache, objects, overlapped, pc, runner, route, section, timeout>>

Empty == [k \in {} |-> <<>>]
NoSection == [of |-> None, name |-> None]
NoRoute == [by |-> None, basis |-> None, selected |-> NoModel, ordered |-> <<>>]

-----------------------------------------------------------------------------
(* The configuration.                                                      *)

(* Mutant: a timeout of zero counts as given. *)
DefaultsForNegative(c) ==
    [s \in Sections |->
        IF Table[c].enabled /\ Table[c].strategy = s /\ Table[c].idleTimeoutMs[s] < 0
        THEN 180000 ELSE Table[c].idleTimeoutMs[s]]

(* ApplyRouterDefaults: nothing for a strategy that is not named. *)
ApplyRouterDefaults(c) ==
    [s \in Sections |->
        IF Table[c].enabled /\ Table[c].strategy = s /\ Table[c].idleTimeoutMs[s] <= 0
        THEN 180000 ELSE Table[c].idleTimeoutMs[s]]

(* The first configuration is complete before requests are served. *)
Init ==
    /\ router \in Configs
    /\ idle = ApplyRouterDefaults(router)
    /\ updater = "done"
    /\ cache = None
    /\ config = [o \in Objects |-> None]
    /\ weights = [o \in Objects |-> Empty]
    /\ picked = [o \in Objects |-> Empty]
    /\ overlapped = FALSE
    /\ pc = [r \in Requests |-> "idle"]
    /\ runner = [r \in Requests |-> None]
    /\ route = [r \in Requests |-> NoRoute]
    /\ section = [r \in Requests |-> NoSection]
    /\ timeout = [r \in Requests |-> -1]

(* An object that neither the cache nor a request holds any more is gone. *)
Held(o) == o = cache' \/ \E r \in Requests : runner'[r] = o

Keep(w, p) ==
    /\ config' = [o \in Objects |-> IF Held(o) THEN config[o] ELSE None]
    /\ weights' = [o \in Objects |-> IF Held(o) THEN w[o] ELSE Empty]
    /\ picked' = [o \in Objects |-> IF Held(o) THEN p[o] ELSE Empty]

Collect == Keep(weights, picked)

(* updateRouterConfig, step by step. *)
AssignRouter(c) ==
    /\ updater = "done" /\ c # router
    /\ router' = c
    /\ idle' = Table[c].idleTimeoutMs
    /\ updater' = "assigned"
    /\ UNCHANGED <<cache, objects, overlapped, pc, runner, route, section, timeout>>

ApplyDefaults ==
    /\ updater = "assigned"
    /\ idle' = ApplyRouterDefaults(router)
    /\ updater' = "defaulted"
    /\ UNCHANGED <<router, cache, objects, overlapped, pc, runner, route, section, timeout>>

BeingMadeFromOld ==
    \E r \in Requests : pc[r] = "store" /\ config[runner[r]] # router

(* Mutant: the old strategy stays in the cache. *)
KeepCache ==
    /\ updater = "defaulted"
    /\ updater' = "done"
    /\ overlapped' = BeingMadeFromOld
    /\ UNCHANGED <<router, idle, cache, objects, pc, runner, route, section, timeout>>

ClearCache ==
    /\ updater = "defaulted"
    /\ cache' = None
    /\ updater' = "done"
    /\ overlapped' = BeingMadeFromOld
    /\ UNCHANGED <<router, idle, pc, runner, route, section, timeout>>
    /\ Collect

-----------------------------------------------------------------------------
(* A request: resolveAutoRouter and getOrCreateRouterStrategy.             *)

(* A request that finds the router off keeps its model and is not routed. *)
Begin(r) ==
    /\ pc[r] = "idle"
    /\ Table[router].enabled
    /\ pc' = [pc EXCEPT ![r] = "lookup"]
    /\ UNCHANGED <<nacos, cache, objects, overlapped, runner, route, section, timeout>>

Lookup(r) ==
    /\ pc[r] = "lookup"
    /\ IF cache = None
       THEN /\ pc' = [pc EXCEPT ![r] = "create"]
            /\ UNCHANGED runner
       ELSE /\ pc' = [pc EXCEPT ![r] = "run"]
            /\ runner' = [runner EXCEPT ![r] = cache]
    /\ UNCHANGED <<nacos, cache, objects, overlapped, route, section, timeout>>

IsSemantic(c) == Table[c].strategy \in {"semantic", ""}

(* NewRunner makes a strategy. *)
CanMake(c) ==
    \/ IsSemantic(c)
    \/ Table[c].strategy = "priority" /\ IsValid(Table[c].candidates)

Fresh == CHOOSE o \in Objects : o # cache /\ \A q \in Requests : runner[q] # o

Create(r) ==
    /\ pc[r] = "create" /\ CanMake(router)
    /\ config' = [config EXCEPT ![Fresh] = router]
    /\ runner' = [runner EXCEPT ![r] = Fresh]
    /\ pc' = [pc EXCEPT ![r] = "store"]
    /\ UNCHANGED <<nacos, cache, weights, picked, overlapped, route, section, timeout>>

(* Mutant: a strategy that could not be made is run. *)
CreatesNil(r) ==
    /\ pc[r] = "create" /\ ~CanMake(router)
    /\ pc' = [pc EXCEPT ![r] = "run"]
    /\ UNCHANGED <<nacos, cache, objects, overlapped, runner, route, section, timeout>>

(* The request is refused: the strategy is unknown or invalid. *)
CreateFails(r) ==
    /\ pc[r] = "create" /\ ~CanMake(router)
    /\ pc' = [pc EXCEPT ![r] = "idle"]
    /\ UNCHANGED <<nacos, cache, objects, overlapped, runner, route, section, timeout>>

Store(r) ==
    /\ pc[r] = "store"
    /\ cache' = runner[r]
    /\ pc' = [pc EXCEPT ![r] = "run"]
    /\ UNCHANGED runner
    /\ Collect
    /\ UNCHANGED <<nacos, overlapped, route, section, timeout>>

-----------------------------------------------------------------------------
(* Run of a strategy.  What does not depend on the weights is a function  *)
(* of the configuration, of which TLC computes every value once.           *)

Visible == [c \in Configs |-> [u \in Users |-> VisibleTo(u, Table[c].candidates)]]

Group == [c \in Configs |-> [u \in Users |-> SelectedVisible(u, Table[c].candidates)]]

(* The list for degradation after a model of the group. *)
ListFrom ==
    [c \in Configs |-> [u \in Users |-> [selected \in Range(ModelsOf(Group[c][u])) |->
        AppendVisibleFallback(OrderedCandidates(selected, Visible[c][u]),
                              Visible[c][u], Table[c].fallback)]]]

(* What the semantic strategy may return. *)
Labelled ==
    [c \in Configs |->
        LET routing == Table[c].routing IN
        UNION {{[basis    |-> [label |-> label, passed |-> Range(ModelsOf(outcome.candidates))],
                 selected |-> SelectedModel(label, outcome.candidates, routing),
                 ordered  |-> OrderCandidatesByLabel(label, outcome.candidates, routing)] :
                   label \in Answers(outcome)} :
                   outcome \in ApplyRuleEngine(FilterEnabled(routing.candidates), routing)}]

(* Run returns.  History: by, the configuration, and basis, what was decided *)
(* by: the user, or the label and the candidates that passed the rules.  The *)
(* request lets go of the object.                                          *)
Returns(r, basis, selected, ordered) ==
    /\ route' = [route EXCEPT ![r] = [by |-> config[runner[r]], basis |-> basis,
                                      selected |-> selected, ordered |-> ordered]]
    /\ pc' = [pc EXCEPT ![r] = "routed"]
    /\ runner' = [runner EXCEPT ![r] = None]
    /\ UNCHANGED <<nacos, cache, overlapped, section, timeout>>

(* The weights of a group before a pick; zero for a set not seen before. *)
WeightsOf(o, group) ==
    IF KeyOf(group) \in DOMAIN weights[o] /\ Len(weights[o][KeyOf(group)]) = Len(group)
    THEN weights[o][KeyOf(group)]
    ELSE NoWeights(group)

(* History: one more pick; a cycle has as many picks as the group weighs. *)
PickedWith(o, group, i) ==
    LET before == IF group \in DOMAIN picked[o] THEN picked[o][group] ELSE NoWeights(group)
        whole  == SumFunction(before) = TotalWeight(group)
    IN  [IF whole THEN NoWeights(group) ELSE before EXCEPT ![i] = @ + 1]

Assign(f, k, value) == [x \in DOMAIN f \union {k} |-> IF x = k THEN value ELSE f[x]]

(* selectVisibleModelByRoundRobin, under the mutex of the group. *)
Pick(o, group) ==
    LET w == WeightsOf(o, group) IN
    Keep([weights EXCEPT ![o] = Assign(@, KeyOf(group), Charged(group, w))],
         [picked EXCEPT ![o] = Assign(@, group, PickedWith(o, group, Heaviest(group, w)))])

RunPriority(r, u) ==
    /\ pc[r] = "run" /\ ~IsSemantic(config[runner[r]])
    /\ LET o == runner[r]
           group == Group[config[o]][u]
           selected == IF Len(group) = 1 THEN group[1].model
                       ELSE group[Heaviest(group, WeightsOf(o, group))].model
       IN  /\ Visible[config[o]][u] # <<>>
           /\ Returns(r, u, selected, ListFrom[config[o]][u][selected])
           /\ IF Len(group) = 1 THEN Collect ELSE Pick(o, group)

(* The request is refused: its user sees no candidate. *)
NoneVisible(r, u) ==
    /\ pc[r] = "run" /\ ~IsSemantic(config[runner[r]])
    /\ Visible[config[runner[r]]][u] = <<>>
    /\ pc' = [pc EXCEPT ![r] = "idle"]
    /\ runner' = [runner EXCEPT ![r] = None]
    /\ UNCHANGED cache
    /\ Collect
    /\ UNCHANGED <<nacos, overlapped, route, section, timeout>>

(* The user is not looked at. *)
RunSemantic(r) ==
    /\ pc[r] = "run" /\ IsSemantic(config[runner[r]])
    /\ \E run \in Labelled[config[runner[r]]] : Returns(r, run.basis, run.selected, run.ordered)
    /\ Collect

-----------------------------------------------------------------------------
(* The settings of the calls, and the end of the request.                  *)

(* getRetryConfig reads the configuration again: first the strategy, which *)
(* names a section, and then through Config.Router once more each of four  *)
(* settings of that section, in whatever is the configuration by then.  A  *)
(* request without a list has the settings of llmTimeout.                  *)
SectionFor(ordered) ==
    IF ordered = <<>> THEN "llmTimeout"
    ELSE IF Table[router].strategy = "priority" THEN "priority" ELSE "semantic"

ReadStrategy(r) ==
    /\ pc[r] = "routed"
    /\ section' = [section EXCEPT ![r] = [of |-> router, name |-> SectionFor(route[r].ordered)]]
    /\ route' = [route EXCEPT ![r] = NoRoute]
    /\ pc' = [pc EXCEPT ![r] = "settings"]
    /\ UNCHANGED <<nacos, cache, objects, overlapped, runner, timeout>>

(* Any one of the four reads: the others are like it.                      *)
ReadTimeout(r) ==
    /\ pc[r] = "settings"
    /\ timeout' = [timeout EXCEPT ![r] =
                     IF section[r].name = "llmTimeout" THEN 180000 ELSE idle[section[r].name]]
    /\ section' = [section EXCEPT ![r] = NoSection]
    /\ pc' = [pc EXCEPT ![r] = "calling"]
    /\ UNCHANGED <<nacos, cache, objects, overlapped, runner, route>>

End(r) ==
    /\ pc[r] = "calling"
    /\ pc' = [pc EXCEPT ![r] = "idle"]
    /\ timeout' = [timeout EXCEPT ![r] = -1]
    /\ UNCHANGED <<nacos, cache, objects, overlapped, runner, route, section>>

-----------------------------------------------------------------------------
Next ==
    \/ \E c \in Configs : AssignRouter(c)
    \/ ApplyDefaults
    \/ ClearCache
    \/ \E r \in Requests :
         \/ Begin(r) \/ Lookup(r) \/ Create(r) \/ CreateFails(r) \/ Store(r)
         \/ \E u \in Users : RunPriority(r, u) \/ NoneVisible(r, u)
         \/ RunSemantic(r) \/ ReadStrategy(r) \/ ReadTimeout(r) \/ End(r)

Spec == Init /\ [][Next]_vars

-----------------------------------------------------------------------------
(* Properties.                                                             *)

(* The shape of the state: a request has a strategy just when it runs or   *)
(* caches one, and the objects that exist are those that someone holds.    *)
TypeOK ==
    /\ router \in Configs
    /\ idle \in [Sections -> Int]
    /\ updater \in {"done", "assigned", "defaulted"}
    /\ cache \in Objects \union {None}
    /\ config \in [Objects -> Configs \union {None}]
    /\ \A o \in Objects : o \in {cache} \union Range(runner) <=> config[o] # None
    /\ \A o \in Objects : \A k \in DOMAIN weights[o] : weights[o][k] \in [1..Len(k[2]) -> Int]
    /\ overlapped \in BOOLEAN
    /\ pc \in [Requests -> {"idle", "lookup", "create", "store", "run", "routed", "settings", "calling"}]
    /\ runner \in [Requests -> Objects \union {None}]
    /\ \A r \in Requests : runner[r] # None <=> pc[r] \in {"store", "run"}
    /\ \A r \in Requests : route[r].by \in IF pc[r] = "routed" THEN Configs ELSE {None}
    /\ \A r \in Requests :
         section[r].of \in IF pc[r] = "settings" THEN Configs ELSE {None}
    /\ timeout \in [Requests -> Int]

(* The round robin is fair and smooth for every set of visible models by   *)
(* itself, whatever other users and requests pick in between: a model is   *)
(* never a whole pick ahead of its share, and never as far behind as there *)
(* are other models; and over a whole cycle, which has as many picks as    *)
(* the models weigh, each is picked exactly as often as its weight says.   *)
FairShare ==
    \A o \in Objects : \A group \in DOMAIN picked[o] :
        LET total == TotalWeight(group)
            n     == SumFunction(picked[o][group])
        IN  \A i \in DOMAIN group :
              LET ahead == total * picked[o][group][i] - n * group[i].weight
              IN  /\ ahead < total
                  /\ -ahead < total * (Len(group) - 1)
                  /\ n = total => picked[o][group][i] = group[i].weight

(* The places of the candidates that a user may use. *)
UsablePlaces(u, candidates) ==
    {i \in DOMAIN candidates :
       /\ candidates[i].enabled
       /\ candidates[i].minVipLevel > 0 =>
            u.vip >= candidates[i].minVipLevel /\ ~u.expired}

(* After the selected model, all others by priority, weight and place. *)
Ranked(ordered, selected, candidates, others) ==
    /\ ordered[1] = selected
    /\ Len(ordered) = Cardinality(others) + 1
    /\ \A i \in others : \E k \in 2..Len(ordered) : ordered[k] = candidates[i].model
    /\ \A k, l \in 2..Len(ordered) : k < l =>
         \E i, j \in others :
           /\ ordered[k] = candidates[i].model /\ ordered[l] = candidates[j].model
           /\ ~GoesBefore(candidates[j], candidates[i])
           /\ GoesBefore(candidates[i], candidates[j]) \/ i < j

SoundFor(u, candidates, selected, ordered) ==
    LET usable == UsablePlaces(u, candidates)
    IN  /\ \E i \in usable :
             /\ candidates[i].model = selected
             /\ \A j \in usable : candidates[i].priority <= candidates[j].priority
        /\ Ranked(ordered, selected, candidates,
                  {i \in usable : candidates[i].model # selected})

(* A request is routed to the models that its user may use, to all of      *)
(* them, and to no other, not even by way of the fallback: the selected    *)
(* one first, which is of the best priority, then the others by priority,  *)
(* weight and place in the configuration.                                  *)
RouteIsSound ==
    \A r \in Requests :
      route[r].by # None /\ ~IsSemantic(route[r].by) =>
        SoundFor(route[r].basis, Table[route[r].by].candidates,
                 route[r].selected, route[r].ordered)

Score(model, candidates, label) ==
    Max({Scores(c, label) : c \in {d \in candidates : d.model = model}})

(* Models by their scores, and equal ones by the tie-break list. *)
FollowsScores(ordered, candidates, label, tieBreakOrder) ==
    \A i, j \in DOMAIN ordered :
      /\ i < j
      /\ {ordered[i], ordered[j]} \subseteq {c.model : c \in candidates}
      => LET s == Score(ordered[i], candidates, label)
             t == Score(ordered[j], candidates, label)
         IN  \/ s > t
             \/ /\ s = t
                /\ {ordered[i], ordered[j]} \subseteq Range(tieBreakOrder) =>
                     Position(ordered[i], tieBreakOrder) <= Position(ordered[j], tieBreakOrder)

(* What lets the model that the client is told of differ from the first. *)
MayDiffer(ordered, candidates, label, routing) ==
    \/ label = NoLabel
    \/ \A c \in candidates : Scores(c, label) < routing.minScore \/ Scores(c, label) < 0
    \/ /\ routing.tieBreakOrder = <<>>
       /\ \E c \in candidates :
            /\ c.model # ordered[1]
            /\ Score(c.model, candidates, label) = Score(ordered[1], candidates, label)

SoundByScores(routing, basis, selected, ordered) ==
    LET passed == {c \in Range(routing.candidates) : c.enabled /\ c.model \in basis.passed}
        models == {c.model : c \in passed}
        fallback == {routing.fallbackModelName} \ {NoModel}
    IN  /\ IsInjective(ordered)
        /\ Range(ordered) = models \union fallback
        /\ \A m \in fallback \ models : Last(ordered) = m
        /\ basis.label # NoLabel =>
             FollowsScores(ordered, passed, basis.label, routing.tieBreakOrder)
        /\ ordered # <<>> /\ ordered[1] # selected =>
             MayDiffer(ordered, passed, basis.label, routing)

(* The semantic route: every candidate that passed the rules once, and     *)
(* after them the fallback.  With a label no candidate comes after one     *)
(* that scores less, and equal scores follow the tie-break list.  The      *)
(* model that the client is told of is the one that is called first, but   *)
(* when the analyzer gave no label, the best score is too low, or equal    *)
(* scores meet no tie-break list.                                          *)
SemanticRouteIsSound ==
    \A r \in Requests :
      route[r].by # None /\ IsSemantic(route[r].by) =>
        SoundByScores(Table[route[r].by].routing, route[r].basis,
                      route[r].selected, route[r].ordered)

(* Assigning the configuration before clearing the cache is enough, but    *)
(* for a request that was making a strategy from the old one when the      *)
(* cache was cleared: only then does the cache disagree with the           *)
(* configuration after an update.                                          *)
StaleOnlyIfOverlapped ==
    updater = "done" /\ cache # None /\ config[cache] # router => overlapped

ZeroHasCause ==
    \A r \in Requests :
        timeout[r] = -1 /\ timeout'[r] <= 0 /\ timeout'[r] # -1 =>
            \/ updater = "assigned"
            \/ ~Table[router].enabled
            \/ Table[router].strategy \notin Sections
            \/ Table[section[r].of].strategy # Table[router].strategy

(* A routed request gets a timeout of zero, which fails its calls at once, *)
(* in three cases only.  The configuration that it reads now, which need   *)
(* not be the one it was routed by, is off or names no strategy that has   *)
(* defaults; or it has been assigned and not yet been completed; or the    *)
(* strategy was read before an update that changed it, so that the request *)
(* reads the section that nobody completed.                                *)
ZeroTimeoutExplained == [][ZeroHasCause]_vars
==============================================================================
