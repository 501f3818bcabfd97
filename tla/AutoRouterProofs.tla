--------------------------- MODULE AutoRouterProofs ---------------------------
(***************************************************************************)
(* The automatic model selection, for any number of requests and any       *)
(* configurations: what a change of the configuration can do to the cache  *)
(* of the strategies and to the timeouts of the requests; that the picks   *)
(* follow the weights; that every route is one that its strategy promises; *)
(* and the types.                                                          *)
(***************************************************************************)
EXTENDS AutoRouter, ListsProofs

States == {"idle", "lookup", "create", "store", "run", "routed", "settings", "calling"}

CacheType ==
    /\ router \in Configs
    /\ updater \in {"done", "assigned", "defaulted"}
    /\ cache \in Objects \union {None}
    /\ config \in [Objects -> Configs \union {None}]
    /\ pc \in [Requests -> States]
    /\ runner \in [Requests -> Objects \union {None}]

(* Who holds a strategy object. *)
Holders ==
    \A r \in Requests :
        /\ pc[r] = "store" => runner[r] \in Objects
        /\ pc[r] \notin {"store", "run"} => runner[r] = None

(* Only an overlap leaves an old strategy in the cache, or on its way. *)
StaleExplained ==
    updater = "done" /\ ~overlapped =>
        /\ cache # None => config[cache] = router
        /\ \A r \in Requests : pc[r] = "store" => config[runner[r]] = router

CacheInv == CacheType /\ Holders /\ StaleExplained

(* A request that makes a strategy finds a number that is not in use: the  *)
(* others and the cache hold fewer objects than there are.                 *)
LEMMA FreshObject ==
    ASSUME NEW r \in Requests, runner[r] = None
    PROVE  Fresh \in Objects /\ Fresh # cache /\ \A q \in Requests : runner[q] # Fresh
<1> DEFINE others == Requests \ {r}
           held == {runner[q] : q \in others}
           used == held \union {cache}
<1>1. IsFiniteSet(others) /\ Cardinality(others) = Cardinality(Requests) - 1
  BY RouterAssumption, FS_RemoveElement
<1>2. IsFiniteSet(held) /\ Cardinality(held) <= Cardinality(others)
  <2> DEFINE f == [q \in others |-> runner[q]]
  <2>1. f \in Surjection(others, held)
    BY DEF Surjection
  <2> HIDE DEF f
  <2> QED BY <1>1, <2>1, FS_Surjection
<1>3. IsFiniteSet(used) /\ Cardinality(used) <= Cardinality(Requests)
  <2>1. IsFiniteSet(used)
        /\ Cardinality(used) = IF cache \in held THEN Cardinality(held) ELSE Cardinality(held) + 1
    BY <1>2, FS_AddElement
  <2>2. Cardinality(Requests) \in Nat /\ Cardinality(held) \in Nat /\ Cardinality(others) \in Nat
    BY <1>1, <1>2, RouterAssumption, FS_CardinalityType
  <2> HIDE DEF used, held, others
  <2> QED BY <1>1, <1>2, <2>1, <2>2
<1>4. IsFiniteSet(Objects) /\ Cardinality(Objects) = Cardinality(Requests) + 1
  <2>1. Cardinality(Requests) \in Nat
    BY RouterAssumption, FS_CardinalityType
  <2> QED BY <2>1, FS_Interval DEF Objects
<1>5. ~(Objects \subseteq used)
  <2>1. Cardinality(Requests) \in Nat /\ Cardinality(used) \in Nat
    BY <1>3, RouterAssumption, FS_CardinalityType
  <2>2. ASSUME Objects \subseteq used PROVE FALSE
    <3> HIDE DEF used
    <3>1. Cardinality(Objects) <= Cardinality(used)
      BY <1>3, <2>2, FS_Subset
    <3> QED BY <1>3, <1>4, <2>1, <3>1
  <2> QED BY <2>2
<1>6. PICK o \in Objects : o \notin used
  BY <1>5
<1>7. o # cache /\ \A q \in Requests : runner[q] # o
  BY <1>6, RouterAssumption
<1> QED BY <1>7 DEF Fresh

-----------------------------------------------------------------------------
(* The invariant of the cache.                                             *)

(* An object that someone holds keeps its configuration. *)
LEMMA HeldIsKept ==
    ASSUME CacheType, NEW w, NEW p, Keep(w, p)
    PROVE  /\ config' \in [Objects -> Configs \union {None}]
           /\ \A o \in Objects : Held(o) => config'[o] = config[o]
BY DEF CacheType, Keep

LEMMA InitCache == Init => CacheInv
BY DEF Init, CacheInv, CacheType, Holders, StaleExplained, States

(* Steps of a request that leave cache, configuration and objects alone. *)
LEMMA QuietStep ==
    ASSUME CacheInv, NEW r \in Requests, NEW s \in States \ {"store"},
           pc' = [pc EXCEPT ![r] = s],
           \/ runner' = runner /\ runner[r] = None
           \/ s = "run" /\ runner' = [runner EXCEPT ![r] = cache],
           UNCHANGED <<nacos, cache, objects, overlapped>>
    PROVE  CacheInv'
<1>1. CacheType'
  BY DEF CacheInv, CacheType, States, nacos, objects
<1>2. Holders'
  BY DEF CacheInv, CacheType, Holders
<1>3. StaleExplained'
  BY DEF CacheInv, CacheType, StaleExplained, nacos, objects
<1> QED BY <1>1, <1>2, <1>3 DEF CacheInv

(* Steps in which a request lets go of its object. *)
LEMMA ReleaseStep ==
    ASSUME CacheInv, NEW r \in Requests, pc[r] = "run",
           NEW s \in {"idle", "routed"}, NEW w, NEW p,
           pc' = [pc EXCEPT ![r] = s], runner' = [runner EXCEPT ![r] = None],
           UNCHANGED <<nacos, cache, overlapped>>, Keep(w, p)
    PROVE  CacheInv'
<1>0. CacheType /\ Holders /\ StaleExplained
  BY DEF CacheInv
<1>1. /\ config' \in [Objects -> Configs \union {None}]
      /\ \A o \in Objects : Held(o) => config'[o] = config[o]
  BY <1>0, HeldIsKept
<1>2. CacheType'
  BY <1>0, <1>1 DEF CacheType, States, nacos
<1>3. Holders'
  BY <1>0 DEF CacheType, Holders
<1>4. StaleExplained'
  <2>1. cache # None => config'[cache] = config[cache]
    BY <1>0, <1>1 DEF Held, CacheType
  <2>2. ASSUME NEW q \in Requests, pc'[q] = "store"
        PROVE  pc[q] = "store" /\ runner'[q] = runner[q] /\ config'[runner[q]] = config[runner[q]]
    <3>1. q # r /\ pc[q] = "store" /\ runner'[q] = runner[q]
      BY <1>0, <2>2 DEF CacheType
    <3>2. runner[q] \in Objects /\ Held(runner[q])
      BY <1>0, <3>1 DEF Holders, Held
    <3> QED BY <1>1, <3>1, <3>2
  <2> QED BY <1>0, <2>1, <2>2 DEF StaleExplained, nacos
<1> QED BY <1>2, <1>3, <1>4 DEF CacheInv

LEMMA UpdateStep ==
    ASSUME CacheInv,
           (\E c \in Configs : AssignRouter(c)) \/ ApplyDefaults \/ ClearCache
    PROVE  CacheInv'
<1>0. CacheType /\ Holders /\ StaleExplained
  BY DEF CacheInv
<1>1. ASSUME NEW c \in Configs, AssignRouter(c) PROVE CacheInv'
  BY <1>0, <1>1 DEF AssignRouter, CacheInv, CacheType, Holders, StaleExplained, objects
<1>2. CASE ApplyDefaults
  BY <1>0, <1>2 DEF ApplyDefaults, CacheInv, CacheType, Holders, StaleExplained, objects
<1>3. CASE ClearCache
  <2>1. /\ config' \in [Objects -> Configs \union {None}]
        /\ \A o \in Objects : Held(o) => config'[o] = config[o]
    BY <1>0, <1>3, HeldIsKept DEF ClearCache, Collect
  <2>2. CacheType' /\ Holders'
    BY <1>0, <1>3, <2>1 DEF ClearCache, CacheType, Holders
  <2>3. ASSUME NEW q \in Requests, pc[q] = "store", ~BeingMadeFromOld
        PROVE  config'[runner[q]] = router
    <3>1. runner[q] \in Objects /\ Held(runner[q])
      BY <1>0, <1>3, <2>3 DEF Holders, Held, ClearCache
    <3> QED BY <2>1, <2>3, <3>1 DEF BeingMadeFromOld
  <2>4. StaleExplained'
    BY <1>3, <2>3 DEF ClearCache, StaleExplained
  <2> QED BY <2>2, <2>4 DEF CacheInv
<1> QED BY <1>1, <1>2, <1>3

LEMMA CreateStep ==
    ASSUME CacheInv, NEW r \in Requests, Create(r)
    PROVE  CacheInv'
<1>0. CacheType /\ Holders /\ StaleExplained
  BY DEF CacheInv
<1>1. runner[r] = None
  BY <1>0 DEF Holders, Create
<1>2. Fresh \in Objects /\ Fresh # cache /\ \A q \in Requests : runner[q] # Fresh
  BY <1>0, <1>1, FreshObject
<1>3. CacheType'
  BY <1>0, <1>2 DEF CacheType, Create, States, nacos
<1>4. Holders'
  BY <1>0, <1>2 DEF CacheType, Holders, Create
<1>5. StaleExplained'
  <2>1. \A o \in Objects : o # Fresh => config'[o] = config[o]
    BY <1>0 DEF CacheType, Create
  <2>2. config'[Fresh] = router /\ runner'[r] = Fresh
    BY <1>0, <1>2 DEF CacheType, Create
  <2>3. cache # None => config'[cache] = config[cache]
    BY <1>0, <1>2, <2>1 DEF CacheType
  <2>4. ASSUME NEW q \in Requests, q # r, pc'[q] = "store"
        PROVE  pc[q] = "store" /\ config'[runner'[q]] = config[runner[q]]
    <3>1. pc[q] = "store" /\ runner'[q] = runner[q]
      BY <1>0, <2>4 DEF CacheType, Create
    <3> QED BY <1>0, <1>2, <2>1, <3>1 DEF Holders
  <2> QED BY <1>0, <2>2, <2>3, <2>4 DEF StaleExplained, Create, nacos
<1> QED BY <1>3, <1>4, <1>5 DEF CacheInv

LEMMA StoreStep ==
    ASSUME CacheInv, NEW r \in Requests, Store(r)
    PROVE  CacheInv'
<1>0. CacheType /\ Holders /\ StaleExplained
  BY DEF CacheInv
<1>1. /\ config' \in [Objects -> Configs \union {None}]
      /\ \A o \in Objects : Held(o) => config'[o] = config[o]
  BY <1>0, HeldIsKept DEF Store, Collect
<1>2. pc[r] = "store" /\ runner[r] \in Objects /\ cache' = runner[r]
  BY <1>0 DEF Store, Holders
<1>3. CacheType'
  BY <1>0, <1>1, <1>2 DEF CacheType, Store, States, nacos
<1>4. Holders'
  BY <1>0 DEF CacheType, Holders, Store
<1>5. StaleExplained'
  <2>1. \A q \in Requests : pc[q] = "store" => config'[runner[q]] = config[runner[q]]
    BY <1>0, <1>1 DEF Holders, Held, Store
  <2>2. \A q \in Requests : pc'[q] = "store" => pc[q] = "store" /\ runner'[q] = runner[q]
    BY <1>0 DEF CacheType, Store
  <2> QED BY <1>0, <1>2, <2>1, <2>2 DEF StaleExplained, Store, nacos
<1> QED BY <1>3, <1>4, <1>5 DEF CacheInv

LEMMA StepCache == CacheInv /\ [Next]_vars => CacheInv'
<1> SUFFICES ASSUME CacheInv, [Next]_vars PROVE CacheInv'
  OBVIOUS
<1>0. CacheType /\ Holders
  BY DEF CacheInv
<1>1. CASE UNCHANGED vars
  BY <1>1 DEF vars, nacos, objects, CacheInv, CacheType, Holders, StaleExplained
<1>2. CASE (\E c \in Configs : AssignRouter(c)) \/ ApplyDefaults \/ ClearCache
  BY <1>2, UpdateStep
<1>3. ASSUME NEW r \in Requests, Begin(r) \/ CreateFails(r) PROVE CacheInv'
  <2>1. runner[r] = None
    BY <1>0, <1>3 DEF Holders, Begin, CreateFails
  <2> QED BY <1>3, <2>1, QuietStep DEF Begin, CreateFails, States
<1>4. ASSUME NEW r \in Requests, Lookup(r) PROVE CacheInv'
  <2>1. runner[r] = None
    BY <1>0, <1>4 DEF Holders, Lookup
  <2> QED BY <1>4, <2>1, QuietStep DEF Lookup, States
<1>5. ASSUME NEW r \in Requests, Create(r) PROVE CacheInv'
  BY <1>5, CreateStep
<1>6. ASSUME NEW r \in Requests, Store(r) PROVE CacheInv'
  BY <1>6, StoreStep
<1>7. ASSUME NEW r \in Requests, NEW u \in Users, RunPriority(r, u) PROVE CacheInv'
  <2> DEFINE group == Group[config[runner[r]]][u]
  <2>1. /\ pc[r] = "run"
        /\ \E selected, ordered : Returns(r, u, selected, ordered)
        /\ Collect \/ Pick(runner[r], group)
    BY <1>7 DEF RunPriority
  <2>2. \E w, p : Keep(w, p)
    BY <2>1 DEF Collect, Pick
  <2> QED BY <2>1, <2>2, ReleaseStep DEF Returns
<1>8. ASSUME NEW r \in Requests, NEW u \in Users, NoneVisible(r, u) PROVE CacheInv'
  BY <1>8, ReleaseStep DEF NoneVisible, Collect
<1>9. ASSUME NEW r \in Requests, RunSemantic(r) PROVE CacheInv'
  <2>1. pc[r] = "run" /\ Collect /\ \E basis, selected, ordered : Returns(r, basis, selected, ordered)
    BY <1>9 DEF RunSemantic
  <2> QED BY <2>1, ReleaseStep DEF Returns, Collect
<1>10. ASSUME NEW r \in Requests, ReadStrategy(r) \/ ReadTimeout(r) \/ End(r) PROVE CacheInv'
  <2>1. runner[r] = None
    BY <1>0, <1>10 DEF Holders, ReadStrategy, ReadTimeout, End
  <2> QED BY <1>10, <2>1, QuietStep DEF ReadStrategy, ReadTimeout, End, States
<1> QED BY <1>1, <1>2, <1>3, <1>4, <1>5, <1>6, <1>7, <1>8, <1>9, <1>10 DEF Next

(* After an update the cache holds a strategy of the new configuration, or *)
(* none, unless a request was making one when the cache was cleared.       *)
THEOREM StaleIsExplained == Spec => []StaleOnlyIfOverlapped
<1>1. CacheInv => StaleOnlyIfOverlapped
  BY DEF CacheInv, StaleExplained, CacheType, StaleOnlyIfOverlapped
<1> QED BY InitCache, StepCache, <1>1, PTL DEF Spec

-----------------------------------------------------------------------------
(* The timeouts.                                                           *)

(* The section that a strategy stands for, and what a request that is      *)
(* about to read its settings has chosen.                                  *)
Named(c) == IF Table[c].strategy = "priority" THEN "priority" ELSE "semantic"

IsChosen(chosen) == chosen.of \in Configs /\ chosen.name \in {"llmTimeout", Named(chosen.of)}

SectionChosen ==
    /\ pc \in [Requests -> States]
    /\ DOMAIN section = Requests
    /\ \A r \in Requests :
         IF pc[r] = "settings" THEN IsChosen(section[r]) ELSE section[r].of = None

(* The current configuration has its defaults, but while it is assigned. *)
Complete ==
    /\ router \in Configs
    /\ idle \in [Sections -> Int]
    /\ timeout \in [Requests -> Int]
    /\ updater # "assigned" => idle = ApplyRouterDefaults(router)

DefaultsInv == Complete /\ SectionChosen

LEMMA SettingsType ==
    ASSUME NEW c \in Configs
    PROVE  /\ Table[c].idleTimeoutMs \in [Sections -> Int]
           /\ ApplyRouterDefaults(c) \in [Sections -> Int]
<1>1. Table[c].idleTimeoutMs \in [Sections -> Int]
  BY RouterAssumption DEF ConfigType
<1> QED BY <1>1 DEF ApplyRouterDefaults

LEMMA InitDefaults == Init => DefaultsInv
<1> SUFFICES ASSUME Init PROVE DefaultsInv
  OBVIOUS
<1>1. Complete
  BY SettingsType DEF Init, Complete
<1>2. NoSection.of = None
  BY DEF NoSection
<1>3. SectionChosen
  BY <1>2 DEF Init, SectionChosen, States
<1> QED BY <1>1, <1>3 DEF DefaultsInv

(* Steps of a request that leave its settings alone. *)
LEMMA OtherChosen ==
    ASSUME SectionChosen, NEW r \in Requests, NEW s \in States \ {"settings"}, pc[r] # "settings",
           pc' = [pc EXCEPT ![r] = s], UNCHANGED section
    PROVE  SectionChosen'
BY DEF SectionChosen

LEMMA ReadStrategyChosen ==
    ASSUME DefaultsInv, NEW r \in Requests, ReadStrategy(r)
    PROVE  SectionChosen'
<1> DEFINE x == [of |-> router, name |-> SectionFor(route[r].ordered)]
<1>1. IsChosen(x)
  BY DEF DefaultsInv, Complete, IsChosen, SectionFor, Named
<1>2. section' = [section EXCEPT ![r] = x] /\ pc' = [pc EXCEPT ![r] = "settings"]
  BY DEF ReadStrategy
<1> HIDE DEF x
<1>3. IsChosen(section[r]') = IsChosen(x)
  BY <1>2 DEF DefaultsInv, SectionChosen
<1> QED BY <1>1, <1>2 DEF DefaultsInv, SectionChosen, States, IsChosen, Named

LEMMA ReadTimeoutTyped ==
    ASSUME DefaultsInv, NEW r \in Requests, ReadTimeout(r)
    PROVE  Complete' /\ SectionChosen'
<1>1. IsChosen(section[r])
  BY DEF DefaultsInv, SectionChosen, ReadTimeout
<1>2. section[r].name # "llmTimeout" => idle[section[r].name] \in Int
  BY <1>1 DEF IsChosen, Named, Sections, DefaultsInv, Complete
<1>3. timeout' \in [Requests -> Int] /\ UNCHANGED <<router, idle, updater>>
  BY <1>2 DEF ReadTimeout, DefaultsInv, Complete, nacos
<1>4. Complete'
  BY <1>3 DEF DefaultsInv, Complete, ApplyRouterDefaults
<1>5. NoSection.of = None
  BY DEF NoSection
<1>6. SectionChosen'
  BY <1>5 DEF ReadTimeout, DefaultsInv, SectionChosen, States, IsChosen, Named
<1> QED BY <1>4, <1>6

LEMMA StepDefaults == DefaultsInv /\ [Next]_vars => DefaultsInv'
<1> SUFFICES ASSUME DefaultsInv, [Next]_vars PROVE DefaultsInv'
  OBVIOUS
<1>0. Complete /\ SectionChosen
  BY DEF DefaultsInv
<1>a. ASSUME UNCHANGED <<pc, section>> PROVE SectionChosen'
  BY <1>0, <1>a DEF SectionChosen, IsChosen, Named
<1>b. ASSUME UNCHANGED <<router, idle>>, timeout' \in [Requests -> Int],
             updater' # "assigned" => updater # "assigned"
      PROVE  Complete'
  BY <1>0, <1>b DEF Complete, ApplyRouterDefaults
<1>1. ASSUME NEW c \in Configs, AssignRouter(c) PROVE DefaultsInv'
  <2>1. Complete'
    BY <1>0, <1>1, SettingsType DEF AssignRouter, Complete
  <2> QED BY <1>1, <1>a, <2>1 DEF AssignRouter, DefaultsInv
<1>2. CASE ApplyDefaults
  <2>1. Complete'
    BY <1>0, <1>2, SettingsType DEF ApplyDefaults, Complete, ApplyRouterDefaults
  <2> QED BY <1>2, <1>a, <2>1 DEF ApplyDefaults, DefaultsInv
<1>3. CASE ClearCache \/ UNCHANGED vars
  <2>1. CASE ClearCache
    BY <1>0, <1>a, <1>b, <2>1 DEF ClearCache, Complete, DefaultsInv
  <2>2. CASE UNCHANGED vars
    BY <1>0, <1>a, <1>b, <2>2 DEF vars, nacos, Complete, DefaultsInv
  <2> QED BY <1>3, <2>1, <2>2
<1>4. ASSUME NEW r \in Requests,
             \/ Begin(r) \/ Lookup(r) \/ Create(r) \/ CreateFails(r) \/ Store(r)
             \/ \E u \in Users : RunPriority(r, u) \/ NoneVisible(r, u)
             \/ RunSemantic(r)
      PROVE  /\ UNCHANGED nacos /\ UNCHANGED <<section, timeout>> /\ pc[r] # "settings"
             /\ \E s \in States \ {"settings"} : pc' = [pc EXCEPT ![r] = s]
  <2>1. CASE Begin(r) \/ Lookup(r) \/ Create(r) \/ CreateFails(r) \/ Store(r)
    BY <2>1 DEF Begin, Lookup, Create, CreateFails, Store, States
  <2>2. ASSUME NEW b, NEW l, NEW m, Returns(r, b, l, m), pc[r] = "run"
        PROVE  /\ UNCHANGED nacos /\ UNCHANGED <<section, timeout>> /\ pc[r] # "settings"
               /\ \E s \in States \ {"settings"} : pc' = [pc EXCEPT ![r] = s]
    BY <2>2 DEF Returns, States
  <2>3. CASE \E u \in Users : RunPriority(r, u)
    BY <2>2, <2>3 DEF RunPriority
  <2>4. CASE \E u \in Users : NoneVisible(r, u)
    BY <2>4 DEF NoneVisible, States
  <2>5. CASE RunSemantic(r)
    BY <2>2, <2>5 DEF RunSemantic
  <2> QED BY <1>4, <2>1, <2>3, <2>4, <2>5
<1>5. ASSUME NEW r \in Requests, ReadStrategy(r) PROVE DefaultsInv'
  BY <1>0, <1>5, <1>b, ReadStrategyChosen DEF ReadStrategy, DefaultsInv, nacos, Complete
<1>6. ASSUME NEW r \in Requests, ReadTimeout(r) PROVE DefaultsInv'
  BY <1>6, ReadTimeoutTyped DEF DefaultsInv
<1>7. ASSUME NEW r \in Requests, End(r) PROVE DefaultsInv'
  <2>1. /\ UNCHANGED nacos /\ timeout' \in [Requests -> Int] /\ UNCHANGED section
        /\ pc[r] # "settings" /\ pc' = [pc EXCEPT ![r] = "idle"]
    BY <1>0, <1>7 DEF End, Complete
  <2> QED BY <1>0, <1>b, <2>1, OtherChosen DEF DefaultsInv, nacos, States
<1>8. ASSUME NEW r \in Requests, UNCHANGED nacos, UNCHANGED <<section, timeout>>,
             pc[r] # "settings", NEW s \in States \ {"settings"}, pc' = [pc EXCEPT ![r] = s]
      PROVE  DefaultsInv'
  BY <1>0, <1>8, <1>b, OtherChosen DEF DefaultsInv, nacos, Complete
<1> QED BY <1>1, <1>2, <1>3, <1>4, <1>5, <1>6, <1>7, <1>8 DEF Next

LEMMA DefaultsArePositive ==
    ASSUME NEW c \in Configs, NEW s \in Sections,
           Table[c].enabled, Table[c].strategy = s
    PROVE  ApplyRouterDefaults(c)[s] > 0
<1>1. Table[c].idleTimeoutMs[s] \in Int
  BY RouterAssumption DEF ConfigType
<1> QED BY <1>1 DEF ApplyRouterDefaults

(* A step in which a request gets a timeout of zero, or less, reads it     *)
(* from a section that has no defaults.                                    *)
LEMMA ZeroStep ==
    ASSUME DefaultsInv, Next, NEW r \in Requests,
           timeout[r] = -1, timeout'[r] <= 0, timeout'[r] # -1
    PROVE  \/ updater = "assigned"
           \/ ~Table[router].enabled
           \/ Table[router].strategy \notin Sections
           \/ Table[section[r].of].strategy # Table[router].strategy
<1>0. Complete /\ SectionChosen
  BY DEF DefaultsInv
<1>1. PICK q \in Requests : ReadTimeout(q) \/ End(q)
  <2>1. timeout' # timeout
    OBVIOUS
  <2>2. ~((\E c \in Configs : AssignRouter(c)) \/ ApplyDefaults \/ ClearCache)
    BY <2>1 DEF AssignRouter, ApplyDefaults, ClearCache
  <2>3. ASSUME NEW q \in Requests
        PROVE  /\ ~(Begin(q) \/ Lookup(q) \/ Create(q) \/ CreateFails(q) \/ Store(q))
               /\ ~\E u \in Users : RunPriority(q, u) \/ NoneVisible(q, u)
               /\ ~RunSemantic(q) /\ ~ReadStrategy(q)
    <3>1. ~(Begin(q) \/ Lookup(q) \/ Create(q) \/ CreateFails(q) \/ Store(q))
      BY <2>1 DEF Begin, Lookup, Create, CreateFails, Store
    <3>2. \A u \in Users : ~RunPriority(q, u)
      BY <2>1 DEF RunPriority, Returns
    <3>3. \A u \in Users : ~NoneVisible(q, u)
      BY <2>1 DEF NoneVisible
    <3>4. ~RunSemantic(q) /\ ~ReadStrategy(q)
      BY <2>1 DEF RunSemantic, Returns, ReadStrategy
    <3> QED BY <3>1, <3>2, <3>3, <3>4
  <2> QED BY <2>2, <2>3 DEF Next
<1>2. ReadTimeout(r)
  BY <1>0, <1>1 DEF ReadTimeout, End, Complete
<1>3. timeout'[r] = IF section[r].name = "llmTimeout" THEN 180000 ELSE idle[section[r].name]
  BY <1>0, <1>2 DEF ReadTimeout, Complete
<1>4. IsChosen(section[r])
  BY <1>0, <1>2 DEF ReadTimeout, SectionChosen
<1> SUFFICES ASSUME updater # "assigned", Table[router].enabled,
                    Table[router].strategy \in Sections,
                    Table[section[r].of].strategy = Table[router].strategy
             PROVE  FALSE
  OBVIOUS
<1> DEFINE s == Table[router].strategy
<1>5. idle[s] > 0
  BY <1>0, DefaultsArePositive DEF Complete
<1>6. section[r].name \in {"llmTimeout", s}
  BY <1>4 DEF IsChosen, Named, Sections
<1>7. timeout'[r] = 180000 \/ timeout'[r] = idle[s]
  BY <1>3, <1>6
<1>8. idle[s] \in Int
  BY <1>0 DEF Complete
<1> QED BY <1>5, <1>7, <1>8

(* Whatever configurations are published and however the requests fall     *)
(* among their updates, also between the two reads of one request, a       *)
(* timeout of zero has one of the causes that the property names.          *)
THEOREM ZeroTimeoutIsExplained == Spec => ZeroTimeoutExplained
<1>1. DefaultsInv /\ [Next]_vars => [ZeroHasCause]_vars
  <2> SUFFICES ASSUME DefaultsInv, Next PROVE ZeroHasCause
    OBVIOUS
  <2> QED BY ZeroStep DEF ZeroHasCause
<1> QED BY InitDefaults, StepDefaults, <1>1, PTL DEF Spec, ZeroTimeoutExplained

-----------------------------------------------------------------------------
(* The round robin of one group.                                           *)

(* A group of models that take turns, and what is true of its weights. *)
Weighted(group) ==
    /\ IsFiniteSet(DOMAIN group) /\ DOMAIN group = 1..Len(group)
    /\ Len(group) \in Nat \ {0}
    /\ \A i \in DOMAIN group : group[i].weight \in Nat \ {0}

Balanced(group, w, p) ==
    /\ w \in [DOMAIN group -> Int] /\ p \in [DOMAIN group -> Int]
    /\ SumFunction(w) = 0
    /\ \A i \in DOMAIN group :
         /\ w[i] > -TotalWeight(group)
         /\ w[i] = SumFunction(p) * group[i].weight - TotalWeight(group) * p[i]

(* The sum of the values of a function with a finite domain. *)
LEMMA SumOf ==
    ASSUME NEW D, IsFiniteSet(D), NEW f \in [D -> Int]
    PROVE  SumFunction(f) = SumFunctionOnSet(f, D) /\ SumFunction(f) \in Int
<1>1. SumFunction(f) = SumFunctionOnSet(f, D)
  BY DEF SumFunction
<1> QED BY <1>1, SumInt

(* A group weighs something. *)
LEMMA TotalIs ==
    ASSUME NEW group, Weighted(group)
    PROVE  /\ Weights(group) \in [DOMAIN group -> Int]
           /\ TotalWeight(group) = SumFunctionOnSet(Weights(group), DOMAIN group)
           /\ TotalWeight(group) \in Int
           /\ TotalWeight(group) >= 1
<1> DEFINE D == DOMAIN group
           a == Weights(group)
<1>1. a \in [D -> Int] /\ \A i \in D : a[i] \in Int /\ a[i] >= 1
  BY DEF Weighted, Weights
<1>2. IsFiniteSet(D) /\ Cardinality(D) \in Nat /\ Cardinality(D) >= 1
  <2>1. Len(group) \in Nat /\ Len(group) >= 1 /\ D = 1..Len(group) /\ IsFiniteSet(D)
    BY DEF Weighted
  <2>2. Cardinality(1..Len(group)) = Len(group)
    BY <2>1, FS_Interval
  <2> QED BY <2>1, <2>2
<1>3. TotalWeight(group) = SumFunctionOnSet(a, D) /\ TotalWeight(group) \in Int
  <2> HIDE DEF a, D
  <2>1. SumFunction(a) = SumFunctionOnSet(a, D) /\ SumFunction(a) \in Int
    BY <1>1, <1>2, SumOf
  <2> QED BY <2>1 DEF TotalWeight, a
<1>4. SumFunctionOnSet(a, D) >= 1 * Cardinality(D)
  <2> HIDE DEF a, D
  <2> QED BY <1>1, <1>2, SumAtLeast
<1> QED BY <1>1, <1>2, <1>3, <1>4

(* The model that is picked is one of the group, and its raised weight is  *)
(* above zero: the fallback to the first model is never taken.             *)
LEMMA HeaviestIs ==
    ASSUME NEW group, Weighted(group),
           NEW w \in [DOMAIN group -> Int], SumFunction(w) = 0
    PROVE  /\ Raised(group, w) \in [DOMAIN group -> Int]
           /\ \A i \in DOMAIN group : Raised(group, w)[i] = w[i] + group[i].weight
           /\ SumFunctionOnSet(Raised(group, w), DOMAIN group) = TotalWeight(group)
           /\ Heaviest(group, w) \in DOMAIN group
           /\ Raised(group, w)[Heaviest(group, w)] > 0
<1> DEFINE D == DOMAIN group
           a == Weights(group)
           raised == Raised(group, w)
           best == Max(Range(raised))
           at == {i \in D : raised[i] = best}
<1>1. IsFiniteSet(D) /\ D # {} /\ D \in SUBSET Int
  BY DEF Weighted
<1>2. a \in [D -> Int] /\ \A i \in D : a[i] = group[i].weight
  BY TotalIs DEF Weights
<1>3. raised \in [D -> Int] /\ \A i \in D : raised[i] = w[i] + group[i].weight
  BY <1>2 DEF Raised
<1>4. SumFunctionOnSet(raised, D) = TotalWeight(group) /\ TotalWeight(group) >= 1 /\ TotalWeight(group) \in Int
  <2>1. SumFunctionOnSet(w, D) = 0 /\ TotalWeight(group) = SumFunctionOnSet(a, D)
        /\ TotalWeight(group) \in Int /\ TotalWeight(group) >= 1
    BY <1>1, TotalIs, SumOf
  <2> HIDE DEF D, a, raised
  <2>2. \A i \in D : w[i] \in Int /\ a[i] \in Int /\ raised[i] = w[i] + a[i]
    BY <1>2, <1>3 DEF D
  <2>3. SumFunctionOnSet(raised, D) = SumFunctionOnSet(w, D) + SumFunctionOnSet(a, D)
    BY <1>1, <2>2, SumAdded
  <2> QED BY <2>1, <2>3
<1>5. best \in Range(raised) /\ \A i \in D : best >= raised[i]
  <2>1. Range(raised) \in SUBSET Int /\ Range(raised) # {} /\ \A i \in D : raised[i] \in Range(raised)
    BY <1>1, <1>3 DEF Range
  <2>2. raised \in Surjection(D, Range(raised))
    BY <1>3 DEF Range, Surjection
  <2>3. IsFiniteSet(Range(raised))
    <3> HIDE DEF raised, D
    <3> QED BY <1>1, <2>2, FS_Surjection
  <2> HIDE DEF raised
  <2> QED BY <2>1, <2>3, MaxIs
<1>6. PICK m \in D : raised[m] = best
  BY <1>3, <1>5 DEF Range
<1>7. best > 0 /\ best \in Int
  <2> SUFFICES ASSUME best <= 0 PROVE FALSE
    BY <1>3, <1>6
  <2> DEFINE z == [i \in D |-> 0]
  <2>1. \A i \in D : raised[i] \in Int /\ z[i] \in Int /\ raised[i] <= z[i] /\ z[i] = 0
    BY <1>3, <1>5, <1>6
  <2> HIDE DEF z, raised, D
  <2>2. SumFunctionOnSet(raised, D) <= SumFunctionOnSet(z, D) /\ SumFunctionOnSet(z, D) = 0
    BY <1>1, <2>1, SumOrdered, SumZero
  <2> QED BY <1>4, <2>2
<1>8. Heaviest(group, w) = Min(at) /\ Min(at) \in at
  <2>1. at \in SUBSET Int /\ IsFiniteSet(at) /\ at # {}
    BY <1>1, <1>6, FS_Subset
  <2>2. Heaviest(group, w) = Min(at)
    BY <1>7 DEF Heaviest
  <2> HIDE DEF at
  <2> QED BY <2>1, <2>2, MinIs
<1> QED BY <1>3, <1>4, <1>7, <1>8

(* No weights and no picks are in balance. *)
LEMMA StartsBalanced ==
    ASSUME NEW group, Weighted(group)
    PROVE  Balanced(group, NoWeights(group), NoWeights(group))
<1> DEFINE z == NoWeights(group)
           D == DOMAIN group
<1>1. z \in [D -> Int] /\ \A i \in D : z[i] = 0
  BY DEF NoWeights
<1>2. SumFunction(z) = 0
  <2> HIDE DEF z
  <2> QED BY <1>1, SumOf, SumZero DEF Weighted
<1>3. \A i \in D : group[i].weight \in Int /\ TotalWeight(group) \in Int /\ TotalWeight(group) >= 1
  BY TotalIs DEF Weighted
<1> HIDE DEF z
<1> QED BY <1>1, <1>2, <1>3 DEF Balanced, D, z

(* After a whole cycle every model has been picked as often as its weight  *)
(* says, and all weights are zero again.                                   *)
LEMMA WholeCycle ==
    ASSUME NEW group, Weighted(group), NEW w, NEW p, Balanced(group, w, p),
           SumFunction(p) = TotalWeight(group)
    PROVE  /\ w = NoWeights(group)
           /\ \A i \in DOMAIN group : p[i] = group[i].weight
<1> DEFINE D == DOMAIN group
           a == Weights(group)
           total == TotalWeight(group)
<1>1. total \in Int /\ total >= 1 /\ total = SumFunctionOnSet(a, D) /\ a \in [D -> Int]
  BY TotalIs
<1>2. \A i \in D : a[i] = group[i].weight
  BY DEF Weights
<1>3. p \in [D -> Int] /\ w \in [D -> Int] /\ SumFunctionOnSet(p, D) = total /\ IsFiniteSet(D)
  BY SumOf DEF Balanced, Weighted
<1>4. ASSUME NEW i \in D PROVE p[i] <= a[i] /\ w[i] = total * a[i] - total * p[i]
  <2>1. w[i] > -total /\ w[i] = total * a[i] - total * p[i]
    BY <1>2 DEF Balanced
  <2>2. a[i] \in Int /\ p[i] \in Int
    BY <1>1, <1>3
  <2> HIDE DEF a, total
  <2>3. ASSUME p[i] >= a[i] + 1 PROVE FALSE
    <3>1. total * p[i] >= total * (a[i] + 1)
      BY <1>1, <2>2, <2>3
    <3>2. total * (a[i] + 1) = total * a[i] + total
      BY <1>1, <2>2
    <3>3. total * a[i] \in Int /\ total * p[i] \in Int
      BY <1>1, <2>2
    <3> QED BY <1>1, <2>1, <3>1, <3>2, <3>3
  <2> QED BY <2>1, <2>2, <2>3
<1>5. \A i \in D : p[i] = a[i]
  <2>1. \A i \in D : a[i] \in Int /\ p[i] \in Int
    BY <1>1, <1>3
  <2> HIDE DEF a, D, total
  <2> QED BY <1>1, <1>3, <1>4, <2>1, SumOrdered
<1>6. \A i \in D : w[i] = 0
  <2>1. \A i \in D : total * a[i] \in Int
    BY <1>1
  <2> HIDE DEF a, total
  <2> QED BY <1>4, <1>5, <2>1
<1> QED BY <1>2, <1>3, <1>5, <1>6 DEF NoWeights

(* A pick moves one total from the weight of the picked model to its       *)
(* count.                                                                  *)
LEMMA PickKeepsBalance ==
    ASSUME NEW group, Weighted(group), NEW w, NEW p, Balanced(group, w, p)
    PROVE  Balanced(group, Charged(group, w), [p EXCEPT ![Heaviest(group, w)] = @ + 1])
<1> DEFINE D == DOMAIN group
           h == Heaviest(group, w)
           total == TotalWeight(group)
           n == SumFunction(p)
           r == Raised(group, w)
           v == Charged(group, w)
           q == [p EXCEPT ![h] = @ + 1]
<1>1. total \in Int /\ total >= 1 /\ IsFiniteSet(D)
  BY TotalIs DEF Weighted
<1>2. w \in [D -> Int] /\ p \in [D -> Int] /\ n \in Int /\ n = SumFunctionOnSet(p, D)
  BY <1>1, SumOf DEF Balanced
<1>3. /\ r \in [D -> Int] /\ \A i \in D : r[i] = w[i] + group[i].weight
      /\ SumFunctionOnSet(r, D) = total /\ h \in D /\ r[h] > 0
  BY HeaviestIs DEF Balanced
<1>4. q \in [D -> Int] /\ \A i \in D : q[i] = IF i = h THEN p[i] + 1 ELSE p[i]
  <2> HIDE DEF h
  <2> QED BY <1>2, <1>3
<1>5. v \in [D -> Int] /\ \A i \in D : v[i] = IF i = h THEN r[i] + (-total) ELSE r[i]
  BY <1>1, <1>3 DEF Charged
<1>6. SumFunction(v) = 0
  <2> DEFINE d == -total
  <2> HIDE DEF v, D, h, r, total
  <2>0. d \in Int /\ \A i \in D : r[i] \in Int /\ v[i] = IF i = h THEN r[i] + d ELSE r[i]
    BY <1>1, <1>3, <1>5
  <2>1. SumFunctionOnSet(v, D) = SumFunctionOnSet(r, D) + d
    <3>1. IsFiniteSet(D) /\ h \in D
      BY <1>1, <1>3
    <3> HIDE DEF d
    <3> QED BY <2>0, <3>1, SumOneChanged
  <2> QED BY <1>1, <1>3, <1>5, <2>1, SumOf
<1>7. SumFunction(q) = n + 1
  <2> HIDE DEF q, D, h
  <2>0. 1 \in Int /\ \A i \in D : p[i] \in Int /\ q[i] = IF i = h THEN p[i] + 1 ELSE p[i]
    BY <1>2, <1>4
  <2>1. SumFunctionOnSet(q, D) = SumFunctionOnSet(p, D) + 1
    BY <1>1, <1>3, <2>0, SumOneChanged
  <2> QED BY <1>1, <1>2, <1>4, <2>1, SumOf
<1>8. ASSUME NEW i \in D
      PROVE  v[i] > -total /\ v[i] = (n + 1) * group[i].weight - total * q[i]
  <2> DEFINE b == group[i].weight
  <2> SUFFICES v[i] > -total /\ v[i] = (n + 1) * b - total * q[i]
    OBVIOUS
  <2>1. b \in Int /\ b >= 1
    BY DEF Weighted
  <2>2. w[i] > -total /\ w[i] = n * b - total * p[i] /\ p[i] \in Int
    BY <1>2 DEF Balanced
  <2>3. r[i] = w[i] + b /\ r[i] \in Int
    BY <1>3
  <2>4. (n + 1) * b = n * b + b /\ total * (p[i] + 1) = total * p[i] + total
        /\ n * b \in Int /\ total * p[i] \in Int
    <3> HIDE DEF b, total, n
    <3> QED BY <1>1, <1>2, <2>1, <2>2
  <2>5. v[i] = IF i = h THEN r[i] + (-total) ELSE r[i]
    BY <1>5
  <2>6. q[i] = IF i = h THEN p[i] + 1 ELSE p[i]
    BY <1>4
  <2> HIDE DEF b, total, n, r, h, v, q
  <2>7. CASE i = h
    <3>1. v[i] = r[i] - total /\ q[i] = p[i] + 1 /\ r[i] > 0
      BY <1>1, <1>3, <2>3, <2>5, <2>6, <2>7
    <3>2. total * q[i] = total * p[i] + total
      BY <2>4, <3>1
    <3> QED BY <1>1, <2>1, <2>2, <2>3, <2>4, <3>1, <3>2
  <2>8. CASE i # h
    BY <1>1, <2>1, <2>2, <2>3, <2>4, <2>5, <2>6, <2>8
  <2> QED BY <2>7, <2>8
<1> HIDE DEF v, q, n
<1>9. Balanced(group, v, q)
  BY <1>4, <1>5, <1>6, <1>7, <1>8 DEF Balanced
<1> QED BY <1>9 DEF v, q

(* The weights bound how far the picks are from the shares. *)
LEMMA BalancedIsFair ==
    ASSUME NEW group, Weighted(group), Len(group) >= 2, NEW w, NEW p, Balanced(group, w, p),
           NEW i \in DOMAIN group
    PROVE  LET ahead == TotalWeight(group) * p[i] - SumFunction(p) * group[i].weight
           IN  /\ ahead < TotalWeight(group)
               /\ -ahead < TotalWeight(group) * (Len(group) - 1)
               /\ SumFunction(p) = TotalWeight(group) => p[i] = group[i].weight
<1> DEFINE D == DOMAIN group
           total == TotalWeight(group)
           n == SumFunction(p)
           m == Len(group) - 1
           b == group[i].weight
<1>1. total \in Int /\ total >= 1 /\ IsFiniteSet(D) /\ D = 1..Len(group) /\ Len(group) \in Nat
  BY TotalIs DEF Weighted
<1>2. w \in [D -> Int] /\ p[i] \in Int /\ n \in Int /\ b \in Int /\ SumFunctionOnSet(w, D) = 0
  <2>1. w \in [D -> Int] /\ p \in [D -> Int] /\ SumFunction(w) = 0 /\ b \in Int
    BY DEF Balanced, Weighted
  <2> QED BY <1>1, <2>1, SumOf
<1>3. w[i] > -total /\ w[i] = n * b - total * p[i]
  BY DEF Balanced
<1>4. w[i] < total * m
  <2>1. IsFiniteSet(D \ {i}) /\ Cardinality(D \ {i}) = m
    <3>1. Cardinality(1..Len(group)) = Len(group)
      BY <1>1, FS_Interval
    <3>2. Cardinality(D) = Len(group) /\ i \in D
      BY <1>1, <3>1
    <3>3. IsFiniteSet(D) /\ m = Len(group) - 1
      BY <1>1
    <3> HIDE DEF D, total, n, b, m
    <3>4. IsFiniteSet(D \ {i}) /\ Cardinality(D \ {i}) = Cardinality(D) - 1
      BY <3>2, <3>3, FS_RemoveElement
    <3> QED BY <3>2, <3>3, <3>4
  <2>2. \A j \in D \ {i} : w[j] \in Int /\ w[j] >= 1 - total
    BY <1>1, <1>2 DEF Balanced
  <2>3. 1 - total \in Int /\ m \in Int /\ m >= 1
    BY <1>1
  <2>4. 0 = w[i] + SumFunctionOnSet(w, D \ {i}) /\ SumFunctionOnSet(w, D \ {i}) \in Int
    <3> HIDE DEF D
    <3> QED BY <1>1, <1>2, SumStep DEF D
  <2> HIDE DEF total, m, D
  <2>5. SumFunctionOnSet(w, D \ {i}) >= (1 - total) * m
    BY <2>1, <2>2, <2>3, SumAtLeast
  <2>6. (1 - total) * m = m - total * m /\ total * m \in Int
    BY <1>1, <2>3
  <2>7. w[i] \in Int
    BY <1>2 DEF D
  <2> QED BY <2>3, <2>4, <2>5, <2>6, <2>7
<1>5. n = total => p[i] = b
  BY WholeCycle
<1>6. n * b \in Int /\ total * p[i] \in Int /\ total * m \in Int
  BY <1>1, <1>2
<1> HIDE DEF total, n, b, m
<1>7. /\ total * p[i] - n * b < total
      /\ -(total * p[i] - n * b) < total * m
  BY <1>1, <1>3, <1>4, <1>6
<1> QED BY <1>5, <1>7 DEF total, n, b, m

-----------------------------------------------------------------------------
(* The groups of one configuration.                                        *)

CandidateType == [model : STRING, enabled : BOOLEAN, priority : Int, weight : Int, minVipLevel : Int]

(* What a user may use is more, or less, than what another one may. *)
LEMMA UsableIsNested ==
    ASSUME NEW candidates \in Seq(CandidateType), NEW u \in Users, NEW v \in Users
    PROVE  \/ Usable(u, candidates) \subseteq Usable(v, candidates)
           \/ Usable(v, candidates) \subseteq Usable(u, candidates)
<1> DEFINE Less(a, b) == a.expired \/ (~b.expired /\ a.vip <= b.vip)
<1>1. \A c \in Range(candidates) : c \in CandidateType
  BY DEF Range
<1>2. ASSUME NEW a \in Users, NEW b \in Users, Less(a, b)
      PROVE  Usable(a, candidates) \subseteq Usable(b, candidates)
  <2>1. a.vip \in Int /\ b.vip \in Int
    BY RouterAssumption
  <2>2. ASSUME NEW c \in Range(candidates), IsVisible(c, a) PROVE IsVisible(c, b)
    <3>1. c.minVipLevel \in Int
      BY <1>1 DEF CandidateType
    <3> QED BY <1>2, <2>1, <2>2, <3>1 DEF IsVisible
  <2> QED BY <2>2 DEF Usable
<1>3. Less(u, v) \/ Less(v, u)
  BY RouterAssumption
<1> HIDE DEF Less
<1> QED BY <1>2, <1>3

(* The selected group: all of one priority, the best that the user has. *)
LEMMA SelectedIs ==
    ASSUME NEW candidates \in Seq(CandidateType), NEW u \in Users, Usable(u, candidates) # {}
    PROVE  LET P == SelectedPriority(u, candidates)
               group == SelectedVisible(u, candidates)
           IN  /\ P \in Int
               /\ \A c \in Usable(u, candidates) : P <= c.priority
               /\ group \in Seq(CandidateType) /\ Len(group) >= 1
               /\ \A i \in DOMAIN group : /\ group[i] \in Usable(u, candidates)
                                          /\ group[i].priority = P
               /\ \A c \in Usable(u, candidates) : c.priority = P => \E i \in DOMAIN group : group[i] = c
<1> DEFINE U == Usable(u, candidates)
           P == SelectedPriority(u, candidates)
           S == {c \in U : c.priority = P}
           group == SelectedVisible(u, candidates)
           Q == {c.priority : c \in U}
<1>1. U \subseteq Range(candidates) /\ \A c \in U : c \in CandidateType
  BY DEF Usable, Range
<1>2. Q \in SUBSET Int /\ Q # {} /\ IsFiniteSet(Q)
  <2>1. IsFiniteSet(DOMAIN candidates)
    BY FS_Interval
  <2>2. [i \in DOMAIN candidates |-> candidates[i]] \in Surjection(DOMAIN candidates, Range(candidates))
    BY DEF Surjection, Range
  <2>3. IsFiniteSet(U)
    <3>1. IsFiniteSet(Range(candidates))
      BY <2>1, <2>2, FS_Surjection
    <3> HIDE DEF U
    <3> QED BY <1>1, <3>1, FS_Subset
  <2>4. [c \in U |-> c.priority] \in Surjection(U, Q)
    BY DEF Surjection
  <2>5. IsFiniteSet(Q)
    <3> HIDE DEF U, Q
    <3> QED BY <2>3, <2>4, FS_Surjection
  <2>6. Q \in SUBSET Int
    BY <1>1 DEF CandidateType
  <2> QED BY <2>5, <2>6
<1>3. P \in Q /\ \A c \in U : P <= c.priority
  <2>1. P = Min(Q)
    BY DEF SelectedPriority
  <2>2. Min(Q) \in Q /\ \A y \in Q : Min(Q) <= y
    <3> HIDE DEF Q
    <3> QED BY <1>2, MinIs
  <2>3. \A c \in U : c.priority \in Q
    OBVIOUS
  <2> HIDE DEF Q, U, P
  <2> QED BY <2>1, <2>2, <2>3
<1>4. group = Among(candidates, S)
  BY DEF SelectedVisible
<1>5. group \in Seq(CandidateType \intersect S) /\ Range(group) = S
  <2> HIDE DEF S
  <2>1. Range(group) = Range(candidates) \intersect S /\ group \in Seq(CandidateType \intersect S)
    BY <1>4, AmongIs, AmongRange
  <2> QED BY <1>1, <2>1 DEF S
<1>6. S # {}
  BY <1>3
<1> HIDE DEF S, P, group, U, Q
<1>7. group \in Seq(CandidateType) /\ Len(group) >= 1
  BY <1>5, <1>6 DEF Range
<1>8. \A i \in DOMAIN group : group[i] \in S
  BY <1>5 DEF Range
<1>9. \A c \in S : \E i \in DOMAIN group : group[i] = c
  BY <1>5 DEF Range
<1> QED BY <1>2, <1>3, <1>7, <1>8, <1>9 DEF S, P, group, U

(* The key tells the groups of a configuration apart. *)
LEMMA KeysDiffer ==
    ASSUME NEW candidates \in Seq(CandidateType), NEW u \in Users, NEW v \in Users,
           Usable(u, candidates) # {}, Usable(v, candidates) # {},
           KeyOf(SelectedVisible(u, candidates)) = KeyOf(SelectedVisible(v, candidates))
    PROVE  SelectedVisible(u, candidates) = SelectedVisible(v, candidates)
<1> DEFINE g == SelectedVisible(u, candidates)
           h == SelectedVisible(v, candidates)
           P == SelectedPriority(u, candidates)
           S(a) == {c \in Usable(a, candidates) : c.priority = P}
<1>1. g \in Seq(CandidateType) /\ Len(g) >= 1 /\ g[1].priority = P
  BY SelectedIs
<1>2. h \in Seq(CandidateType) /\ Len(h) >= 1 /\ h[1].priority = SelectedPriority(v, candidates)
  BY SelectedIs
<1>3. g[1].priority = h[1].priority /\ ModelsOf(g) = ModelsOf(h)
  BY DEF KeyOf
<1>4. DOMAIN g = DOMAIN h
  <2>1. DOMAIN ModelsOf(g) = DOMAIN g /\ DOMAIN ModelsOf(h) = DOMAIN h
    BY DEF ModelsOf
  <2> QED BY <1>3, <2>1
<1>5. Len(g) = Len(h)
  <2> HIDE DEF g, h
  <2> QED BY <1>1, <1>2, <1>4
<1>6. g = Among(candidates, S(u)) /\ h = Among(candidates, S(v))
  BY <1>1, <1>2, <1>3 DEF SelectedVisible
<1>7. S(u) \subseteq S(v) \/ S(v) \subseteq S(u)
  BY UsableIsNested
<1>8. Len(Among(candidates, S(u))) = Len(Among(candidates, S(v)))
  BY <1>5, <1>6
<1>9. Among(candidates, S(u)) = Among(candidates, S(v))
  <2>1. ASSUME NEW A, NEW B, A \subseteq B, Len(Among(candidates, A)) = Len(Among(candidates, B))
        PROVE  Among(candidates, A) = Among(candidates, B)
    BY <2>1, AmongNested
  <2> HIDE DEF S
  <2> QED BY <1>7, <1>8, <2>1
<1> QED BY <1>6, <1>9

(* The candidates of a configuration. *)
LEMMA ContentType ==
    ASSUME NEW c \in Configs
    PROVE  Table[c].candidates \in Seq(CandidateType)
BY RouterAssumption DEF ConfigType, CandidateType

(* A group whose models take turns. *)
IsTurn(c, group) ==
    /\ c \in Configs /\ CanMake(c) /\ ~IsSemantic(c)
    /\ \E u \in Users : /\ Usable(u, Table[c].candidates) # {}
                        /\ group = SelectedVisible(u, Table[c].candidates)
    /\ Len(group) # 1

(* A group that takes turns has two models at least, each with a weight of *)
(* one at least.                                                           *)
LEMMA TurnIsWeighted ==
    ASSUME NEW c, NEW group, IsTurn(c, group)
    PROVE  Weighted(group) /\ Len(group) >= 2 /\ group \in Seq(CandidateType)
<1> DEFINE candidates == Table[c].candidates
<1>1. candidates \in Seq(CandidateType) /\ IsValid(candidates)
  BY ContentType DEF IsTurn, CanMake
<1>2. PICK u \in Users : Usable(u, candidates) # {} /\ group = SelectedVisible(u, candidates)
  BY DEF IsTurn
<1> HIDE DEF candidates
<1>3. /\ group \in Seq(CandidateType) /\ Len(group) >= 1
      /\ \A i \in DOMAIN group : group[i] \in Usable(u, candidates)
  BY <1>1, <1>2, SelectedIs
<1>4. \A x \in Range(candidates) : x.weight \in 1..100
  <2>1. \A i \in DOMAIN candidates : candidates[i].weight \in 1..100
    BY <1>1 DEF IsValid
  <2> QED BY <2>1 DEF Range
<1>5. ASSUME NEW i \in DOMAIN group PROVE group[i].weight \in Nat \ {0}
  <2>1. group[i] \in Range(candidates)
    BY <1>3 DEF Usable
  <2>2. group[i].weight \in 1..100
    BY <1>4, <2>1
  <2> QED BY <2>2
<1>6. Len(group) \in Nat /\ DOMAIN group = 1..Len(group)
  BY <1>3
<1>7. IsFiniteSet(DOMAIN group)
  BY <1>6, FS_Interval
<1>8. Len(group) # 1
  BY DEF IsTurn
<1> QED BY <1>3, <1>5, <1>6, <1>7, <1>8 DEF Weighted

(* Two groups of one configuration that take turns never share their       *)
(* weights.                                                                *)
LEMMA TurnKeysDiffer ==
    ASSUME NEW c, NEW g, NEW h, IsTurn(c, g), IsTurn(c, h), KeyOf(g) = KeyOf(h)
    PROVE  g = h
BY KeysDiffer, ContentType DEF IsTurn

(* The groups of a strategy object that have been picked from. *)
Even(c, w, p) ==
    /\ \A g \in DOMAIN p : /\ IsTurn(c, g) /\ KeyOf(g) \in DOMAIN w
                           /\ Balanced(g, w[KeyOf(g)], p[g])
    /\ \A k \in DOMAIN w : \E g \in DOMAIN p : k = KeyOf(g)

(* A strategy object that was just made. *)
LEMMA EmptyIsEven == ASSUME NEW c PROVE Even(c, Empty, Empty)
BY DEF Even, Empty

(* The weights that a pick finds and the picks of the cycle so far. *)
LEMMA BalancedBefore ==
    ASSUME NEW c, NEW o, Even(c, weights[o], picked[o]), NEW group, IsTurn(c, group)
    PROVE  Balanced(group, WeightsOf(o, group),
                    IF group \in DOMAIN picked[o] THEN picked[o][group] ELSE NoWeights(group))
<1> DEFINE k == KeyOf(group)
<1>0. Weighted(group) /\ group \in Seq(CandidateType)
  BY TurnIsWeighted
<1>1. CASE group \in DOMAIN picked[o]
  <2>1. k \in DOMAIN weights[o] /\ Balanced(group, weights[o][k], picked[o][group])
    BY <1>1 DEF Even
  <2>2. weights[o][k] \in [1..Len(group) -> Int] /\ Len(group) \in Nat
    BY <1>0, <2>1 DEF Balanced
  <2>3. Len(weights[o][k]) = Len(group)
    BY <2>2
  <2> QED BY <1>1, <2>1, <2>3 DEF WeightsOf
<1>2. CASE group \notin DOMAIN picked[o]
  <2>1. k \notin DOMAIN weights[o]
    BY <1>2, TurnKeysDiffer DEF Even
  <2> QED BY <1>0, <1>2, <2>1, StartsBalanced DEF WeightsOf
<1> QED BY <1>1, <1>2

(* A pick leaves its group in balance and the other groups alone. *)
LEMMA PickIsEven ==
    ASSUME NEW c, NEW o, Even(c, weights[o], picked[o]), NEW group, IsTurn(c, group)
    PROVE  LET w == WeightsOf(o, group)
           IN  Even(c, Assign(weights[o], KeyOf(group), Charged(group, w)),
                    Assign(picked[o], group, PickedWith(o, group, Heaviest(group, w))))
<1> DEFINE w == WeightsOf(o, group)
           before == IF group \in DOMAIN picked[o] THEN picked[o][group] ELSE NoWeights(group)
           p == IF SumFunction(before) = TotalWeight(group) THEN NoWeights(group) ELSE before
           k == KeyOf(group)
           w2 == Assign(weights[o], k, Charged(group, w))
           p2 == Assign(picked[o], group, PickedWith(o, group, Heaviest(group, w)))
<1>1. Weighted(group) /\ group \in Seq(CandidateType)
  BY TurnIsWeighted
<1>2. Balanced(group, w, before)
  BY BalancedBefore
<1>3. Balanced(group, w, p)
  <2> HIDE DEF w, before
  <2> QED BY <1>1, <1>2, WholeCycle, StartsBalanced
<1>4. PickedWith(o, group, Heaviest(group, w)) = [p EXCEPT ![Heaviest(group, w)] = @ + 1]
  BY DEF PickedWith
<1>5. Balanced(group, Charged(group, w), PickedWith(o, group, Heaviest(group, w)))
  <2> DEFINE q == [p EXCEPT ![Heaviest(group, w)] = @ + 1]
  <2> HIDE DEF w, p
  <2>1. Balanced(group, Charged(group, w), q)
    BY <1>1, <1>3, PickKeepsBalance
  <2> HIDE DEF q
  <2> QED BY <1>4, <2>1 DEF q
<1>6. /\ DOMAIN w2 = DOMAIN weights[o] \union {k} /\ w2[k] = Charged(group, w)
      /\ \A j \in DOMAIN weights[o] : j # k => w2[j] = weights[o][j]
  <2> HIDE DEF w, k
  <2> QED BY DEF Assign
<1>7. /\ DOMAIN p2 = DOMAIN picked[o] \union {group}
      /\ p2[group] = PickedWith(o, group, Heaviest(group, w))
      /\ \A g \in DOMAIN picked[o] : g # group => p2[g] = picked[o][g]
  <2> HIDE DEF w
  <2> QED BY DEF Assign
<1> HIDE DEF w, p, before, w2, p2
<1>8. ASSUME NEW g \in DOMAIN p2
      PROVE  IsTurn(c, g) /\ KeyOf(g) \in DOMAIN w2 /\ Balanced(g, w2[KeyOf(g)], p2[g])
  <2>1. CASE g = group
    BY <1>5, <1>6, <1>7, <2>1
  <2>2. CASE g # group
    <3>1. g \in DOMAIN picked[o] /\ p2[g] = picked[o][g]
      BY <1>7, <1>8, <2>2
    <3>2. IsTurn(c, g) /\ KeyOf(g) \in DOMAIN weights[o] /\ Balanced(g, weights[o][KeyOf(g)], picked[o][g])
      BY <3>1 DEF Even
    <3>3. KeyOf(g) # k
      BY <2>2, <3>2, TurnKeysDiffer
    <3> QED BY <1>6, <3>1, <3>2, <3>3
  <2> QED BY <2>1, <2>2
<1>9. ASSUME NEW j \in DOMAIN w2 PROVE \E g \in DOMAIN p2 : j = KeyOf(g)
  <2>1. j = k \/ \E g \in DOMAIN picked[o] : j = KeyOf(g)
    BY <1>6 DEF Even
  <2> QED BY <1>7, <2>1
<1> QED BY <1>8, <1>9 DEF Even, w2, p2, w

-----------------------------------------------------------------------------
(* The strategy objects.                                                   *)

(* Who has an object, which objects exist, and what is in them. *)
Holding ==
    /\ pc \in [Requests -> States]
    /\ runner \in [Requests -> Objects \union {None}]
    /\ cache \in Objects \union {None}
    /\ config \in [Objects -> Configs \union {None}]
    /\ router \in Configs
    /\ \A r \in Requests : runner[r] # None <=> pc[r] \in {"store", "run"}

InUse(o) == o = cache \/ \E r \in Requests : runner[r] = o

Existing ==
    /\ DOMAIN weights = Objects /\ DOMAIN picked = Objects
    /\ \A o \in Objects :
         /\ config[o] # None <=> InUse(o)
         /\ config[o] = None => weights[o] = Empty /\ picked[o] = Empty
         /\ config[o] # None => CanMake(config[o])
         /\ Even(config[o], weights[o], picked[o])

ObjectInv == Holding /\ Existing

LEMMA InitObjects == Init => ObjectInv
<1> SUFFICES ASSUME Init PROVE ObjectInv
  OBVIOUS
<1>1. Holding
  BY DEF Init, Holding, States
<1>2. ASSUME NEW o \in Objects
      PROVE  /\ config[o] = None /\ weights[o] = Empty /\ picked[o] = Empty /\ ~InUse(o)
  BY RouterAssumption DEF Init, InUse
<1>3. DOMAIN weights = Objects /\ DOMAIN picked = Objects
  BY DEF Init
<1> QED BY <1>1, <1>2, <1>3, EmptyIsEven DEF ObjectInv, Existing

(* Steps that leave the objects and their holders alone. *)
LEMMA OtherStep ==
    ASSUME ObjectInv, UNCHANGED <<cache, objects, runner>>, router' \in Configs,
           pc' \in [Requests -> States],
           \A r \in Requests : pc'[r] \in {"store", "run"} <=> pc[r] \in {"store", "run"}
    PROVE  ObjectInv'
<1>1. Holding'
  BY DEF ObjectInv, Holding, objects
<1>2. \A o : InUse(o)' <=> InUse(o)
  BY DEF InUse
<1>3. Existing'
  <2> USE DEF objects
  <2>1. \A o : Even(config[o], weights[o], picked[o])' <=> Even(config[o], weights[o], picked[o])
    BY DEF Even, IsTurn
  <2> QED BY <1>2, <2>1 DEF ObjectInv, Existing, CanMake, IsSemantic
<1> QED BY <1>1, <1>3 DEF ObjectInv

(* Steps that drop the objects that nobody holds any more. *)
LEMMA KeepStep ==
    ASSUME ObjectInv, Holding', NEW w, NEW p, Keep(w, p),
           \A o \in Objects : Held(o) => InUse(o),
           \A o \in Objects : Held(o) => Even(config[o], w[o], p[o])
    PROVE  ObjectInv'
<1>1. \A o : InUse(o)' <=> Held(o)
  BY DEF InUse, Held
<1>2. DOMAIN weights' = Objects /\ DOMAIN picked' = Objects
  BY DEF Keep
<1>3. ASSUME NEW o \in Objects
      PROVE  /\ config'[o] # None <=> Held(o)
             /\ config'[o] = None => weights'[o] = Empty /\ picked'[o] = Empty
             /\ config'[o] # None => CanMake(config'[o])
             /\ Even(config'[o], weights'[o], picked'[o])
  <2>1. CASE Held(o)
    <3>1. config'[o] = config[o] /\ weights'[o] = w[o] /\ picked'[o] = p[o]
      BY <2>1 DEF Keep
    <3>2. config[o] # None /\ CanMake(config[o])
      BY <2>1 DEF ObjectInv, Existing
    <3> QED BY <2>1, <3>1, <3>2
  <2>2. CASE ~Held(o)
    <3>1. config'[o] = None /\ weights'[o] = Empty /\ picked'[o] = Empty
      BY <2>2 DEF Keep
    <3> QED BY <2>2, <3>1, EmptyIsEven
  <2> QED BY <2>1, <2>2
<1>4. Existing'
  <2>1. \A c : CanMake(c)' <=> CanMake(c)
    BY DEF CanMake, IsSemantic
  <2>2. \A c, v, q : Even(c, v, q)' <=> Even(c, v, q)
    BY DEF Even, IsTurn, CanMake, IsSemantic
  <2> QED BY <1>1, <1>2, <1>3 DEF Existing
<1> QED BY <1>4 DEF ObjectInv

(* A request drops its object, or keeps it. *)
LEMMA ReleaseKeeps ==
    ASSUME ObjectInv, NEW r \in Requests, pc[r] = "run",
           NEW s \in {"idle", "routed"}, NEW w, NEW p, Keep(w, p),
           pc' = [pc EXCEPT ![r] = s], runner' = [runner EXCEPT ![r] = None],
           UNCHANGED <<nacos, cache>>,
           \A o \in Objects : Even(config[o], w[o], p[o])
    PROVE  ObjectInv'
<1>1. Holding'
  <2>1. config' \in [Objects -> Configs \union {None}]
    BY DEF Keep, ObjectInv, Holding
  <2>2. /\ pc' \in [Requests -> States] /\ runner' \in [Requests -> Objects \union {None}]
        /\ cache' \in Objects \union {None} /\ router' \in Configs
    BY DEF ObjectInv, Holding, States, nacos
  <2>3. \A q \in Requests : runner'[q] # None <=> pc'[q] \in {"store", "run"}
    BY DEF ObjectInv, Holding
  <2> QED BY <2>1, <2>2, <2>3 DEF Holding
<1>2. \A o \in Objects : Held(o) => InUse(o)
  BY RouterAssumption DEF Held, InUse, ObjectInv, Holding
<1> QED BY <1>1, <1>2, KeepStep

(* A strategy object is made under a number that is not in use. *)
LEMMA CreateKeeps ==
    ASSUME ObjectInv, NEW r \in Requests, Create(r)
    PROVE  ObjectInv'
<1>0. Holding /\ Existing
  BY DEF ObjectInv
<1>1. runner[r] = None
  BY <1>0 DEF Holding, Create
<1>3. Fresh \in Objects /\ ~InUse(Fresh)
  BY <1>1, FreshObject DEF InUse
<1> DEFINE f == Fresh
<1> HIDE DEF f
<1>4. /\ config' = [config EXCEPT ![f] = router] /\ runner' = [runner EXCEPT ![r] = f]
      /\ pc' = [pc EXCEPT ![r] = "store"] /\ UNCHANGED <<nacos, cache, weights, picked>>
      /\ f \in Objects /\ ~InUse(f) /\ pc[r] = "create" /\ CanMake(router)
  BY <1>3 DEF Create, f
<1>5. Holding'
  BY <1>0, <1>4, RouterAssumption DEF Holding, States, nacos
<1>6. ASSUME NEW o \in Objects
      PROVE  InUse(o)' <=> (o = f \/ InUse(o))
  <2>1. \A q \in Requests : runner'[q] = IF q = r THEN f ELSE runner[q]
    BY <1>0, <1>4 DEF Holding
  <2>2. runner[r] # o
    BY <1>1, RouterAssumption
  <2> QED BY <1>4, <2>1, <2>2 DEF InUse
<1>7. config[f] = None /\ weights[f] = Empty /\ picked[f] = Empty
  BY <1>0, <1>4 DEF Existing
<1>8. config'[f] = router /\ router # None /\ \A o \in Objects : o # f => config'[o] = config[o]
  BY <1>0, <1>4, RouterAssumption DEF Holding
<1>9. ASSUME NEW o \in Objects
      PROVE  /\ config'[o] # None <=> InUse(o)'
             /\ config'[o] = None => weights[o] = Empty /\ picked[o] = Empty
             /\ config'[o] # None => CanMake(config'[o])
             /\ Even(config'[o], weights[o], picked[o])
  <2>1. CASE o = f
    BY <1>4, <1>6, <1>7, <1>8, <2>1, EmptyIsEven
  <2>2. CASE o # f
    BY <1>0, <1>6, <1>8, <2>2 DEF Existing
  <2> QED BY <2>1, <2>2
<1>10. Existing'
  <2>1. \A c : CanMake(c)' <=> CanMake(c)
    BY DEF CanMake, IsSemantic
  <2>2. \A c, v, q : Even(c, v, q)' <=> Even(c, v, q)
    BY DEF Even, IsTurn, CanMake, IsSemantic
  <2>3. DOMAIN weights' = Objects /\ DOMAIN picked' = Objects
    BY <1>0, <1>4 DEF Existing
  <2> QED BY <1>4, <1>9, <2>1, <2>2, <2>3 DEF Existing
<1> QED BY <1>5, <1>10 DEF ObjectInv

(* A user who sees a candidate may use one. *)
LEMMA VisibleAreUsable ==
    ASSUME NEW candidates \in Seq(CandidateType), NEW u, VisibleTo(u, candidates) # <<>>
    PROVE  Usable(u, candidates) # {}
<1> DEFINE visible == VisibleTo(u, candidates)
<1>1. Range(visible) = Range(candidates) \intersect Usable(u, candidates)
  BY AmongRange DEF VisibleTo
<1>2. visible \in Seq(CandidateType \intersect Usable(u, candidates))
  BY AmongIs DEF VisibleTo
<1> HIDE DEF visible
<1>3. visible # <<>>
  BY DEF visible
<1>4. 1 \in DOMAIN visible
  BY <1>2, <1>3
<1> QED BY <1>1, <1>4 DEF Range

(* A run of the priority strategy takes a turn in its group. *)
LEMMA RunKeeps ==
    ASSUME ObjectInv, NEW r \in Requests, NEW u \in Users, RunPriority(r, u)
    PROVE  ObjectInv'
<1> DEFINE o == runner[r]
           content == Table[config[o]]
           visible == VisibleTo(u, content.candidates)
           group == SelectedVisible(u, content.candidates)
           w == WeightsOf(o, group)
           w2 == [weights EXCEPT ![o] = Assign(@, KeyOf(group), Charged(group, w))]
           p2 == [picked EXCEPT ![o] = Assign(@, group, PickedWith(o, group, Heaviest(group, w)))]
<1>0. Holding /\ Existing
  BY DEF ObjectInv
<1>1. o \in Objects /\ config[o] \in Configs /\ CanMake(config[o])
  <2>1. pc[r] = "run"
    BY DEF RunPriority
  <2>2. o \in Objects /\ InUse(o)
    BY <1>0, <2>1 DEF Holding, InUse
  <2> QED BY <1>0, <2>2 DEF Holding, Existing
<1>2. /\ pc[r] = "run" /\ ~IsSemantic(config[o]) /\ visible # <<>>
      /\ \E selected, ordered : Returns(r, u, selected, ordered)
      /\ IF Len(group) = 1 THEN Collect ELSE Pick(o, group)
  <2>1. Visible[config[o]][u] = visible /\ Group[config[o]][u] = group
    BY <1>1 DEF Visible, Group
  <2> HIDE DEF visible, group
  <2> QED BY <2>1 DEF RunPriority
<1>3. /\ pc' = [pc EXCEPT ![r] = "routed"] /\ runner' = [runner EXCEPT ![r] = None]
      /\ UNCHANGED <<nacos, cache>>
  BY <1>2 DEF Returns
<1>4. CASE Len(group) = 1
  <2>1. Keep(weights, picked)
    BY <1>2, <1>4 DEF Collect
  <2>2. \A q \in Objects : Even(config[q], weights[q], picked[q])
    BY <1>0 DEF Existing
  <2> QED BY <1>2, <1>3, <2>1, <2>2, ReleaseKeeps
<1>5. CASE Len(group) # 1
  <2>1. Keep(w2, p2)
    BY <1>2, <1>5 DEF Pick
  <2>2. IsTurn(config[o], group)
    <3>1. Usable(u, content.candidates) # {}
      BY <1>2, <1>1, ContentType, VisibleAreUsable
    <3> QED BY <1>2, <1>1, <1>5, <3>1 DEF IsTurn
  <2>3. Even(config[o], weights[o], picked[o])
    BY <1>0, <1>1 DEF Existing
  <2>4. Even(config[o], w2[o], p2[o])
    <3>1. /\ w2[o] = Assign(weights[o], KeyOf(group), Charged(group, w))
          /\ p2[o] = Assign(picked[o], group, PickedWith(o, group, Heaviest(group, w)))
      <4> HIDE DEF group, w, o
      <4> QED BY <1>0, <1>1 DEF Existing
    <3> HIDE DEF group, o, w2, p2
    <3> QED BY <2>2, <2>3, <3>1, PickIsEven
  <2>5. ASSUME NEW q \in Objects PROVE Even(config[q], w2[q], p2[q])
    <3>1. CASE q = o
      BY <2>4, <3>1
    <3>2. CASE q # o
      <4>1. w2[q] = weights[q] /\ p2[q] = picked[q]
        <5> HIDE DEF group, w, o
        <5> QED BY <1>0, <3>2 DEF Existing
      <4> HIDE DEF w2, p2
      <4> QED BY <1>0, <4>1 DEF Existing
    <3> QED BY <3>1, <3>2
  <2> HIDE DEF w2, p2
  <2> QED BY <1>2, <1>3, <2>1, <2>5, ReleaseKeeps
<1> QED BY <1>4, <1>5

LEMMA StepObjects == ObjectInv /\ [Next]_vars => ObjectInv'
<1> SUFFICES ASSUME ObjectInv, [Next]_vars PROVE ObjectInv'
  OBVIOUS
<1>0. Holding /\ Existing
  BY DEF ObjectInv
<1>a. \A o \in Objects : Even(config[o], weights[o], picked[o])
  BY <1>0 DEF Existing
<1>1. CASE UNCHANGED vars
  BY <1>0, <1>1, OtherStep DEF vars, nacos, Holding
<1>2. ASSUME NEW c \in Configs, AssignRouter(c) PROVE ObjectInv'
  BY <1>0, <1>2, OtherStep DEF AssignRouter, Holding
<1>3. CASE ApplyDefaults
  BY <1>0, <1>3, OtherStep DEF ApplyDefaults, Holding
<1>4. CASE ClearCache
  <2>1. Keep(weights, picked) /\ UNCHANGED <<pc, runner, router>> /\ cache' = None
    BY <1>4 DEF ClearCache, Collect
  <2>2. Holding'
    BY <1>0, <2>1 DEF Holding, Keep
  <2>3. \A o \in Objects : Held(o) => InUse(o)
    BY <2>1, RouterAssumption DEF Held, InUse
  <2> QED BY <1>a, <2>1, <2>2, <2>3, KeepStep
<1>5. ASSUME NEW r \in Requests, Begin(r) \/ CreateFails(r) \/ ReadStrategy(r) \/ ReadTimeout(r) \/ End(r)
      PROVE  ObjectInv'
  <2>1. UNCHANGED <<nacos, cache, objects, runner>>
    BY <1>5 DEF Begin, CreateFails, ReadStrategy, ReadTimeout, End
  <2>2. PICK s \in {"lookup", "idle", "settings", "calling"} : pc' = [pc EXCEPT ![r] = s]
    BY <1>5 DEF Begin, CreateFails, ReadStrategy, ReadTimeout, End
  <2>3. pc[r] \notin {"store", "run"}
    BY <1>5 DEF Begin, CreateFails, ReadStrategy, ReadTimeout, End
  <2> QED BY <1>0, <2>1, <2>2, <2>3, OtherStep DEF Holding, States, nacos
<1>6. ASSUME NEW r \in Requests, Lookup(r) PROVE ObjectInv'
  <2>1. CASE cache = None
    <3>1. UNCHANGED <<nacos, cache, objects, runner>> /\ pc' = [pc EXCEPT ![r] = "create"]
          /\ pc[r] = "lookup"
      BY <1>6, <2>1 DEF Lookup
    <3> QED BY <1>0, <3>1, OtherStep DEF Holding, States, nacos
  <2>2. CASE cache # None
    <3>1. /\ UNCHANGED <<nacos, cache, objects>> /\ pc' = [pc EXCEPT ![r] = "run"]
          /\ pc[r] = "lookup" /\ runner' = [runner EXCEPT ![r] = cache]
      BY <1>6, <2>2 DEF Lookup
    <3>2. Holding'
      BY <1>0, <2>2, <3>1 DEF Holding, States, nacos, objects
    <3>3. \A o \in Objects : InUse(o)' <=> InUse(o)
      BY <1>0, <3>1, RouterAssumption DEF Holding, InUse
    <3>4. Existing'
      <4>1. \A c : CanMake(c)' <=> CanMake(c)
        BY DEF CanMake, IsSemantic
      <4>2. \A c, v, q : Even(c, v, q)' <=> Even(c, v, q)
        BY DEF Even, IsTurn, CanMake, IsSemantic
      <4> QED BY <1>0, <3>1, <3>3, <4>1, <4>2 DEF Existing, objects
    <3> QED BY <3>2, <3>4 DEF ObjectInv
  <2> QED BY <2>1, <2>2
<1>7. ASSUME NEW r \in Requests, Create(r) PROVE ObjectInv'
  BY <1>7, CreateKeeps
<1>8. ASSUME NEW r \in Requests, Store(r) PROVE ObjectInv'
  <2>1. /\ Keep(weights, picked) /\ UNCHANGED <<nacos, runner>> /\ cache' = runner[r]
        /\ pc[r] = "store" /\ pc' = [pc EXCEPT ![r] = "run"]
    BY <1>8 DEF Store, Collect
  <2>2. Holding'
    BY <1>0, <2>1 DEF Holding, Keep, States, nacos
  <2>3. \A o \in Objects : Held(o) => InUse(o)
    BY <2>1 DEF Held, InUse
  <2> QED BY <1>a, <2>1, <2>2, <2>3, KeepStep
<1>9. ASSUME NEW r \in Requests, NEW u \in Users, RunPriority(r, u) PROVE ObjectInv'
  BY <1>9, RunKeeps
<1>10. ASSUME NEW r \in Requests, NEW u \in Users, NoneVisible(r, u) PROVE ObjectInv'
  BY <1>10, <1>a, ReleaseKeeps DEF NoneVisible, Collect
<1>11. ASSUME NEW r \in Requests, RunSemantic(r) PROVE ObjectInv'
  <2>1. pc[r] = "run" /\ Collect /\ \E basis, selected, ordered : Returns(r, basis, selected, ordered)
    BY <1>11 DEF RunSemantic
  <2> QED BY <1>a, <2>1, ReleaseKeeps DEF Returns, Collect
<1> QED BY <1>1, <1>2, <1>3, <1>4, <1>5, <1>6, <1>7, <1>8, <1>9, <1>10, <1>11 DEF Next

(* Who holds the strategy objects, and that the groups of each are in      *)
(* balance, is invariant.                                                  *)
THEOREM ObjectInvariance == Spec => []ObjectInv
BY InitObjects, StepObjects, PTL DEF Spec

(* Whatever the weights, the users and the order of their picks, no model  *)
(* is ever a whole pick ahead of its share, or as far behind as there are  *)
(* other models; and a whole cycle gives each exactly what it weighs.      *)
THEOREM SharesAreFair == Spec => []FairShare
<1>1. ObjectInv => FairShare
  <2> SUFFICES ASSUME ObjectInv, NEW o \in Objects, NEW group \in DOMAIN picked[o],
                      NEW i \in DOMAIN group
               PROVE  LET ahead == TotalWeight(group) * picked[o][group][i]
                                     - SumFunction(picked[o][group]) * group[i].weight
                      IN  /\ ahead < TotalWeight(group)
                          /\ -ahead < TotalWeight(group) * (Len(group) - 1)
                          /\ SumFunction(picked[o][group]) = TotalWeight(group)
                               => picked[o][group][i] = group[i].weight
    BY DEF FairShare
  <2>1. IsTurn(config[o], group) /\ Balanced(group, weights[o][KeyOf(group)], picked[o][group])
    BY DEF ObjectInv, Existing, Even
  <2> QED BY <2>1, TurnIsWeighted, BalancedIsFair
<1> QED BY ObjectInvariance, <1>1, PTL

-----------------------------------------------------------------------------
(* Where the requests are sent.                                            *)

(* The pairs of which the first goes before the second. *)
Preferred(visible) == {p \in Pairs(visible) : GoesBefore(p[1], p[2])}

(* Priority first, then weight: a weak order of the candidates. *)
LEMMA PreferredIsOrder ==
    ASSUME NEW visible \in Seq(CandidateType)
    PROVE  /\ IsWeakOrder(Range(visible), Preferred(visible))
           /\ \A c, d \in Range(visible) : <<c, d>> \in Preferred(visible) <=> GoesBefore(c, d)
<1>1. \A c, d \in Range(visible) : <<c, d>> \in Preferred(visible) <=> GoesBefore(c, d)
  BY DEF Preferred, Pairs
<1>2. \A c \in Range(visible) : c.priority \in Int /\ c.weight \in Int
  <2>1. \A i \in DOMAIN visible : visible[i] \in CandidateType
    OBVIOUS
  <2> QED BY <2>1 DEF Range, CandidateType
<1>3. IsWeakOrder(Range(visible), Preferred(visible))
  BY <1>1, <1>2 DEF IsWeakOrder, GoesBefore
<1> QED BY <1>1, <1>3

(* The list for degradation, place by place: where the entries after the   *)
(* first come from.                                                        *)
LEMMA OrderedIs ==
    ASSUME NEW candidates \in Seq(CandidateType), NEW U \in SUBSET Range(candidates), NEW selected
    PROVE  LET visible == Among(candidates, U)
               others == {i \in PlacesOf(candidates, U) : candidates[i].model # selected}
               ordered == OrderedCandidates(selected, visible)
           IN  /\ Len(ordered) \in Nat \ {0} /\ DOMAIN ordered = 1..Len(ordered)
               /\ Ranked(ordered, selected, candidates, others)
<1> DEFINE visible == Among(candidates, U)
           a1 == Ascending(PlacesOf(candidates, U))
           R == Preferred(visible)
           sorted == StableSort(visible, R)
           a2 == Arranged(DOMAIN visible, StableOrder(visible, R))
           names == ModelsOf(sorted)
           S == Range(names) \ {selected}
           rest == Among(names, S)
           a3 == Ascending(PlacesOf(names, S))
           usable == PlacesOf(candidates, U)
           others == {i \in usable : candidates[i].model # selected}
           D == DOMAIN visible
           kept == PlacesOf(names, S)
           Names == Range(names)
           ordered == OrderedCandidates(selected, visible)
<1>1. /\ visible \in Seq(CandidateType) /\ IsFiniteSet(usable)
      /\ IsFilterOf(visible, candidates, U, a1)
  <2>1. visible \in Seq(CandidateType \intersect U)
    BY AmongIs
  <2>2. visible \in Seq(CandidateType)
    <3> HIDE DEF visible
    <3> QED BY <2>1
  <2> QED BY <2>2, AmongIs
<1> HIDE DEF visible
<1>2. /\ IsWeakOrder(Range(visible), R)
      /\ \A c, d \in Range(visible) : <<c, d>> \in R <=> GoesBefore(c, d)
  BY <1>1, PreferredIsOrder
<1> HIDE DEF R
<1>3. /\ sorted \in Seq(CandidateType) /\ Len(sorted) = Len(visible)
      /\ IsSortOf(sorted, visible, R, a2)
  BY <1>1, <1>2, StableSortIs
<1> HIDE DEF sorted
<1>4. /\ D = 1..Len(visible) /\ Len(visible) \in Nat
      /\ names \in Seq(Names) /\ DOMAIN names = D
      /\ \A k \in D : names[k] = sorted[k].model
  <2>1. D = 1..Len(visible) /\ Len(visible) \in Nat /\ DOMAIN sorted = D
    BY <1>1, <1>3
  <2>2. DOMAIN names = D /\ \A k \in D : names[k] = sorted[k].model
    BY <2>1 DEF ModelsOf
  <2>3. names = [k \in D |-> names[k]]
    BY <2>1 DEF ModelsOf
  <2> HIDE DEF names
  <2>4. \A k \in D : names[k] \in Names
    BY <2>2 DEF Range
  <2>5. names \in [D -> Names]
    BY <2>3, <2>4
  <2> HIDE DEF Names
  <2> QED BY <2>1, <2>2, <2>5
<1> HIDE DEF names, Names
<1>5. /\ rest \in Seq(Names) /\ IsFiniteSet(kept) /\ Len(rest) = Cardinality(kept)
      /\ IsFilterOf(rest, names, S, a3)
  <2>1. rest \in Seq(Names \intersect S)
    BY <1>4, AmongIs
  <2>2. rest \in Seq(Names)
    <3> HIDE DEF rest
    <3> QED BY <2>1
  <2> QED BY <1>4, <2>2, AmongIs
<1>6. \A x \in D : x \in kept <=> names[x] # selected
  BY <1>4 DEF PlacesOf, Range
<1> HIDE DEF S, a1, a2, a3, rest, kept, usable
<1>7. ordered = <<selected>> \o rest
  BY DEF OrderedCandidates, rest, S, names, sorted, R, Preferred
<1>8. \A x \in D : a1[x] \in usable /\ visible[x] = candidates[a1[x]]
  BY <1>1 DEF IsFilterOf, usable
<1>9. ASSUME NEW x \in D
      PROVE  a2[x] \in D /\ a1[a2[x]] \in usable /\ names[x] = candidates[a1[a2[x]]].model
  <2>1. a2[x] \in D /\ sorted[x] = visible[a2[x]]
    BY <1>3 DEF IsSortOf
  <2> QED BY <1>4, <1>8, <2>1
<1>10. ASSUME NEW x \in D, NEW y \in D, x < y
       PROVE  LET i == a1[a2[x]]
                  j == a1[a2[y]]
              IN  /\ i # j /\ ~GoesBefore(candidates[j], candidates[i])
                  /\ GoesBefore(candidates[i], candidates[j]) \/ i < j
  <2> DEFINE c == visible[a2[x]]
             d == visible[a2[y]]
  <2>1. a2[x] \in D /\ a2[y] \in D /\ c \in Range(visible) /\ d \in Range(visible)
    BY <1>9 DEF Range
  <2>2. \/ <<c, d>> \in R
        \/ <<d, c>> \notin R /\ a2[x] < a2[y]
    BY <1>3, <1>10 DEF IsSortOf
  <2>3. c = candidates[a1[a2[x]]] /\ d = candidates[a1[a2[y]]]
    BY <1>8, <2>1
  <2>4. c.priority \in Int /\ d.priority \in Int /\ c.weight \in Int /\ d.weight \in Int
    <3>1. c \in CandidateType /\ d \in CandidateType
      BY <1>1, <2>1
    <3> QED BY <3>1 DEF CandidateType
  <2>5. CASE <<c, d>> \in R
    <3>1. GoesBefore(c, d)
      BY <1>2, <2>1, <2>5
    <3>2. ~GoesBefore(d, c)
      BY <2>4, <3>1 DEF GoesBefore
    <3>3. c # d
      BY <3>1, <3>2
    <3> QED BY <2>3, <3>1, <3>2, <3>3
  <2>6. CASE <<d, c>> \notin R /\ a2[x] < a2[y]
    <3>1. ~GoesBefore(d, c)
      BY <1>2, <2>1, <2>6
    <3>2. a1[a2[x]] < a1[a2[y]]
      BY <1>1, <2>1, <2>6 DEF IsFilterOf
    <3>3. a1[a2[x]] \in Int /\ a1[a2[y]] \in Int
      BY <1>9 DEF usable, PlacesOf
    <3> QED BY <2>3, <3>1, <3>2, <3>3
  <2> QED BY <2>2, <2>5, <2>6
<1>11. \A x \in kept : x \in D
  BY <1>4 DEF kept, PlacesOf
<1>12. ASSUME NEW i \in others PROVE \E x \in kept : a1[a2[x]] = i
  <2>1. PICK y \in D : a1[y] = i
    BY <1>1 DEF IsFilterOf, usable
  <2>2. PICK x \in D : a2[x] = y
    BY <1>3 DEF IsSortOf
  <2> QED BY <1>6, <1>9, <2>1, <2>2
<1>13. Cardinality(kept) = Cardinality(others)
  <2> DEFINE f == [x \in kept |-> a1[a2[x]]]
  <2>1. \A x \in kept : f[x] \in others
    BY <1>6, <1>9, <1>11
  <2>2. ASSUME NEW x \in kept, NEW y \in kept, f[x] = f[y] PROVE x = y
    <3>1. x \in Int /\ y \in Int /\ x \in D /\ y \in D
      BY <1>4, <1>11
    <3>2. ~(x < y) /\ ~(y < x)
      BY <1>10, <2>2, <3>1
    <3> QED BY <3>1, <3>2
  <2>3. f \in Injection(kept, others) /\ f \in Surjection(kept, others)
    <3>1. f \in [kept -> others]
      BY <2>1
    <3>2. \A i \in others : \E x \in kept : f[x] = i
      BY <1>12
    <3> HIDE DEF f, others
    <3> QED BY <2>2, <3>1, <3>2 DEF Injection, IsInjective, Surjection
  <2> HIDE DEF f, others
  <2>4. IsFiniteSet(others) /\ (Cardinality(others) = Cardinality(kept) <=> f \in Injection(kept, others))
    BY <1>5, <2>3, FS_Surjection
  <2> QED BY <2>3, <2>4
<1>14. /\ Len(rest) \in Nat /\ DOMAIN rest = 1..Len(rest)
       /\ \A k \in 1..Len(rest) : /\ a3[k] \in kept /\ rest[k] = names[a3[k]]
                                  /\ a1[a2[a3[k]]] \in others
                                  /\ rest[k] = candidates[a1[a2[a3[k]]]].model
       /\ \A x \in kept : \E k \in 1..Len(rest) : a3[k] = x
       /\ \A k, l \in 1..Len(rest) : k < l => a3[k] < a3[l]
  <2>1. Len(rest) \in Nat /\ DOMAIN rest = 1..Len(rest)
    BY <1>5
  <2>2. /\ \A k \in 1..Len(rest) : a3[k] \in kept /\ rest[k] = names[a3[k]]
        /\ \A x \in kept : \E k \in 1..Len(rest) : a3[k] = x
        /\ \A k, l \in 1..Len(rest) : k < l => a3[k] < a3[l]
    BY <1>5, <2>1 DEF IsFilterOf, kept
  <2> QED BY <1>6, <1>9, <1>11, <2>1, <2>2
<1>15. /\ Len(ordered) = Len(rest) + 1 /\ DOMAIN ordered = 1..Len(ordered) /\ ordered[1] = selected
       /\ \A k \in 2..Len(ordered) : k - 1 \in 1..Len(rest) /\ ordered[k] = rest[k - 1]
       /\ \A k \in 1..Len(rest) : k + 1 \in 2..Len(ordered) /\ ordered[k + 1] = rest[k]
  <2> DEFINE T == Names \union {selected}
  <2>1. rest \in Seq(T) /\ <<selected>> \in Seq(T)
    BY <1>5
  <2> HIDE DEF T, ordered
  <2> QED BY <1>7, <1>14, <2>1
<1>16. ASSUME NEW i \in others PROVE \E k \in 2..Len(ordered) : ordered[k] = candidates[i].model
  <2>1. PICK x \in kept : a1[a2[x]] = i
    BY <1>12
  <2>2. PICK k \in 1..Len(rest) : a3[k] = x
    BY <1>14
  <2>3. rest[k] = candidates[i].model
    BY <1>14, <2>1, <2>2
  <2> HIDE DEF ordered
  <2> QED BY <1>15, <2>3
<1>17. ASSUME NEW k \in 2..Len(ordered), NEW l \in 2..Len(ordered), k < l
       PROVE  \E i, j \in others :
                /\ ordered[k] = candidates[i].model /\ ordered[l] = candidates[j].model
                /\ ~GoesBefore(candidates[j], candidates[i])
                /\ GoesBefore(candidates[i], candidates[j]) \/ i < j
  <2> DEFINE x == a3[k - 1]
             y == a3[l - 1]
  <2>1. k - 1 \in 1..Len(rest) /\ l - 1 \in 1..Len(rest) /\ k - 1 < l - 1
    BY <1>15, <1>17
  <2>2. x < y /\ x \in D /\ y \in D /\ a1[a2[x]] \in others /\ a1[a2[y]] \in others
    BY <1>11, <1>14, <2>1
  <2>3. ordered[k] = candidates[a1[a2[x]]].model /\ ordered[l] = candidates[a1[a2[y]]].model
    BY <1>14, <1>15, <2>1
  <2> HIDE DEF x, y, ordered, others
  <2> QED BY <1>10, <2>2, <2>3
<1> HIDE DEF ordered, others
<1>18. Len(ordered) \in Nat \ {0} /\ Len(ordered) = Cardinality(others) + 1
  BY <1>5, <1>13, <1>14, <1>15
<1>19. Ranked(ordered, selected, candidates, others)
  BY <1>15, <1>16, <1>17, <1>18 DEF Ranked
<1> QED BY <1>15, <1>18, <1>19 DEF ordered, visible, others, usable

(* Filtering by visibility keeps the places that the user may use. *)
LEMMA UsableAt ==
    ASSUME NEW candidates \in Seq(CandidateType), IsValid(candidates), NEW u
    PROVE  PlacesOf(candidates, Usable(u, candidates)) = UsablePlaces(u, candidates)
<1>1. ASSUME NEW i \in DOMAIN candidates
      PROVE  candidates[i] \in Range(candidates) /\ candidates[i].minVipLevel \in Nat
  <2>1. candidates[i].minVipLevel \in Int /\ candidates[i].minVipLevel >= 0
    <3>1. candidates[i] \in CandidateType
      OBVIOUS
    <3> QED BY <3>1 DEF CandidateType, IsValid
  <2> QED BY <2>1 DEF Range
<1>2. ASSUME NEW i \in DOMAIN candidates
      PROVE  IsVisible(candidates[i], u) <=>
               (candidates[i].minVipLevel > 0 =>
                  u.vip >= candidates[i].minVipLevel /\ ~u.expired)
  BY <1>1 DEF IsVisible
<1> QED BY <1>1, <1>2 DEF PlacesOf, Usable, UsablePlaces

(* What a run of the priority strategy returns. *)
LEMMA RunIsSound ==
    ASSUME NEW candidates \in Seq(CandidateType), IsValid(candidates), NEW u \in Users,
           Usable(u, candidates) # {}, NEW h \in DOMAIN SelectedVisible(u, candidates),
           NEW fallback
    PROVE  LET visible == VisibleTo(u, candidates)
               selected == SelectedVisible(u, candidates)[h].model
           IN  SoundFor(u, candidates, selected,
                        AppendVisibleFallback(OrderedCandidates(selected, visible), visible, fallback))
<1> DEFINE visible == VisibleTo(u, candidates)
           group == SelectedVisible(u, candidates)
           selected == group[h].model
           ordered == OrderedCandidates(selected, visible)
           U == Usable(u, candidates)
           usable == PlacesOf(candidates, U)
           others == {i \in usable : candidates[i].model # selected}
<1>1. U \in SUBSET Range(candidates)
  BY DEF Usable
<1>2. /\ group[h] \in U
      /\ \A c \in U : group[h].priority <= c.priority
  BY SelectedIs
<1>3. \E i \in usable : /\ candidates[i].model = selected
                        /\ \A j \in usable : candidates[i].priority <= candidates[j].priority
  <2> HIDE DEF U, group
  <2>1. PICK i \in DOMAIN candidates : candidates[i] = group[h]
    BY <1>1, <1>2 DEF Range
  <2> QED BY <1>2, <2>1 DEF PlacesOf
<1>4. /\ Len(ordered) \in Nat \ {0} /\ DOMAIN ordered = 1..Len(ordered)
      /\ Ranked(ordered, selected, candidates, others)
  <2>1. visible = Among(candidates, U)
    BY DEF VisibleTo
  <2> HIDE DEF U, selected, visible
  <2> QED BY <1>1, <2>1, OrderedIs
<1>5. AppendVisibleFallback(ordered, visible, fallback) = ordered
  <2>1. Range(ModelsOf(visible)) \subseteq Range(ordered)
    <3>1. ASSUME NEW c \in U PROVE c.model \in Range(ordered)
      <4>1. PICK i \in usable : candidates[i] = c
        BY <1>1 DEF Range, PlacesOf
      <4>2. CASE c.model = selected
        <5>1. 1 \in DOMAIN ordered
          BY <1>4
        <5> QED BY <1>4, <4>2, <5>1 DEF Range, Ranked
      <4>3. CASE c.model # selected
        <5>1. i \in others
          BY <4>1, <4>3
        <5>2. PICK k \in 2..Len(ordered) : ordered[k] = c.model
          <6> HIDE DEF others, ordered
          <6> QED BY <1>4, <4>1, <5>1 DEF Ranked
        <5>3. k \in DOMAIN ordered
          BY <1>4
        <5> HIDE DEF ordered
        <5> QED BY <5>2, <5>3 DEF Range
      <4> QED BY <4>2, <4>3
    <3>2. Range(visible) \subseteq U
      BY AmongRange DEF VisibleTo
    <3> HIDE DEF visible, U, ordered
    <3> QED BY <3>1, <3>2 DEF Range, ModelsOf
  <2> HIDE DEF visible, ordered
  <2> QED BY <2>1 DEF AppendVisibleFallback
<1>6. usable = UsablePlaces(u, candidates)
  BY UsableAt
<1>7. SoundFor(u, candidates, selected, ordered)
  <2> HIDE DEF usable, ordered, selected
  <2> QED BY <1>3, <1>4, <1>6 DEF SoundFor
<1> QED BY <1>5, <1>7

SoundRoute(x) ==
    x.by # None /\ ~IsSemantic(x.by) =>
      SoundFor(x.basis, Table[x.by].candidates, x.selected, x.ordered)

RoutesInv == DOMAIN route = Requests /\ \A r \in Requests : SoundRoute(route[r])

LEMMA InitRoutes == Init => RoutesInv
BY DEF Init, RoutesInv, SoundRoute, NoRoute

(* A run of the priority strategy: its user sees a candidate, and what the *)
(* round robin picks is in the group.                                      *)
LEMMA RunRoutes ==
    ASSUME ObjectInv, RoutesInv, NEW r \in Requests, NEW u \in Users, RunPriority(r, u)
    PROVE  RoutesInv'
<1> DEFINE o == runner[r]
           content == Table[config[o]]
           candidates == content.candidates
           visible == VisibleTo(u, candidates)
           group == SelectedVisible(u, candidates)
           h == IF Len(group) = 1 THEN 1 ELSE Heaviest(group, WeightsOf(o, group))
           selected == group[h].model
           ordered == AppendVisibleFallback(
                        OrderedCandidates(selected, visible), visible, content.fallback)
           x == [by |-> config[o], basis |-> u, selected |-> selected, ordered |-> ordered]
<1>0. Holding /\ Existing
  BY DEF ObjectInv
<1>1. pc[r] = "run" /\ ~IsSemantic(config[o])
  BY DEF RunPriority
<1>2. o \in Objects /\ config[o] \in Configs /\ CanMake(config[o])
  <2>1. o \in Objects /\ InUse(o)
    BY <1>0, <1>1 DEF Holding, InUse
  <2> QED BY <1>0, <2>1 DEF Holding, Existing
<1>3. Visible[config[o]][u] = visible /\ Group[config[o]][u] = group
  BY <1>2 DEF Visible, Group
<1>4. visible # <<>>
  <2> HIDE DEF visible
  <2> QED BY <1>3 DEF RunPriority
<1>5. candidates \in Seq(CandidateType) /\ IsValid(candidates) /\ Usable(u, candidates) # {}
  BY <1>1, <1>2, <1>4, ContentType, VisibleAreUsable DEF CanMake
<1>6. h \in DOMAIN group
  <2>1. CASE Len(group) = 1
    <3>1. group \in Seq(CandidateType)
      BY <1>5, SelectedIs
    <3> HIDE DEF group
    <3> QED BY <2>1, <3>1
  <2>2. CASE Len(group) # 1
    <3>1. IsTurn(config[o], group)
      BY <1>1, <1>2, <1>5, <2>2 DEF IsTurn
    <3>2. Weighted(group) /\ Even(config[o], weights[o], picked[o])
      BY <1>0, <1>2, <3>1, TurnIsWeighted DEF Existing
    <3> HIDE DEF group, o
    <3>3. \E p : Balanced(group, WeightsOf(o, group), p)
      BY <3>1, <3>2, BalancedBefore
    <3> QED BY <2>2, <3>2, <3>3, HeaviestIs DEF Balanced
  <2> QED BY <2>1, <2>2
<1>7. route' = [route EXCEPT ![r] = x]
  <2>1. group \in Seq(CandidateType)
    BY <1>5, SelectedIs
  <2>2. h = IF Len(group) = 1 THEN 1 ELSE Heaviest(group, WeightsOf(o, group))
    OBVIOUS
  <2>3. selected = IF Len(group) = 1 THEN group[1].model
                   ELSE group[Heaviest(group, WeightsOf(o, group))].model
    BY <2>2
  <2>4. selected \in Range(ModelsOf(group))
    <3> HIDE DEF group, h
    <3> QED BY <1>6 DEF ModelsOf, Range
  <2>5. ListFrom[config[o]][u][selected] = ordered
    <3> HIDE DEF group, selected
    <3> QED BY <1>2, <1>3, <2>4 DEF ListFrom, ordered, content
  <2> HIDE DEF group, selected, ordered, h
  <2>6. Returns(r, u, selected, ordered)
    BY <1>3, <2>3, <2>5 DEF RunPriority
  <2> QED BY <2>6 DEF Returns
<1>8. SoundRoute(x)
  <2>1. SoundFor(u, candidates, selected, ordered)
    <3> HIDE DEF candidates, h
    <3> QED BY <1>5, <1>6, RunIsSound
  <2> HIDE DEF candidates, selected, ordered
  <2>2. /\ x.by = config[o] /\ x.basis = u /\ x.selected = selected /\ x.ordered = ordered
        /\ Table[x.by].candidates = candidates
    BY DEF candidates
  <2> HIDE DEF x
  <2> QED BY <2>1, <2>2 DEF SoundRoute
<1> HIDE DEF x
<1> QED BY <1>7, <1>8 DEF RoutesInv, SoundRoute, IsSemantic

LEMMA StepRoutes == ObjectInv /\ RoutesInv /\ [Next]_vars => RoutesInv'
<1> SUFFICES ASSUME ObjectInv, RoutesInv, [Next]_vars PROVE RoutesInv'
  OBVIOUS
<1>a. ASSUME UNCHANGED route PROVE RoutesInv'
  BY <1>a DEF RoutesInv, SoundRoute, IsSemantic
<1>1. CASE UNCHANGED vars
  BY <1>1, <1>a DEF vars
<1>2. ASSUME NEW c \in Configs, AssignRouter(c) PROVE RoutesInv'
  BY <1>2, <1>a DEF AssignRouter
<1>3. CASE ApplyDefaults \/ ClearCache
  BY <1>3, <1>a DEF ApplyDefaults, ClearCache
<1>4. ASSUME NEW r \in Requests,
             \/ Begin(r) \/ Lookup(r) \/ Create(r) \/ CreateFails(r) \/ Store(r)
             \/ ReadTimeout(r) \/ End(r)
      PROVE  RoutesInv'
  BY <1>4, <1>a DEF Begin, Lookup, Create, CreateFails, Store, ReadTimeout, End
<1>5. ASSUME NEW r \in Requests, NEW u \in Users, RunPriority(r, u) PROVE RoutesInv'
  BY <1>5, RunRoutes
<1>6. ASSUME NEW r \in Requests, NEW u \in Users, NoneVisible(r, u) PROVE RoutesInv'
  BY <1>6, <1>a DEF NoneVisible
<1>7. ASSUME NEW r \in Requests, RunSemantic(r) PROVE RoutesInv'
  <2>1. IsSemantic(config[runner[r]])
    BY <1>7 DEF RunSemantic
  <2>2. PICK b, s, l : Returns(r, b, s, l)
    BY <1>7 DEF RunSemantic
  <2> DEFINE x == [by |-> config[runner[r]], basis |-> b, selected |-> s, ordered |-> l]
  <2>3. route' = [route EXCEPT ![r] = x]
    BY <2>2 DEF Returns
  <2>4. SoundRoute(x)
    BY <2>1 DEF SoundRoute
  <2> HIDE DEF x
  <2> QED BY <2>3, <2>4 DEF RoutesInv, SoundRoute, IsSemantic
<1>8. ASSUME NEW r \in Requests, ReadStrategy(r) PROVE RoutesInv'
  <2>1. route' = [route EXCEPT ![r] = NoRoute] /\ NoRoute.by = None
    BY <1>8 DEF ReadStrategy, NoRoute
  <2> QED BY <2>1 DEF RoutesInv, SoundRoute, IsSemantic
<1> QED BY <1>1, <1>2, <1>3, <1>4, <1>5, <1>6, <1>7, <1>8 DEF Next

(* With the priority strategy every request is sent to the models that its *)
(* user may use, to all of them and to no other, the best first, whatever  *)
(* the configuration and whatever changes while the request is routed.     *)
THEOREM RoutesAreSound == Spec => []RouteIsSound
<1>1. RoutesInv => RouteIsSound
  BY DEF RoutesInv, RouteIsSound, SoundRoute
<1> QED BY InitRoutes, StepRoutes, ObjectInvariance, <1>1, PTL DEF Spec

-----------------------------------------------------------------------------
(* The shape of the state.                                                 *)

Routed ==
    /\ overlapped \in BOOLEAN
    /\ DOMAIN route = Requests
    /\ \A r \in Requests : route[r].by \in IF pc[r] = "routed" THEN Configs ELSE {None}

LEMMA InitRouted == Init => Routed
<1> SUFFICES ASSUME Init PROVE Routed
  OBVIOUS
<1>1. NoRoute.by = None
  BY DEF NoRoute
<1>2. ASSUME NEW r \in Requests PROVE pc[r] # "routed" /\ route[r] = NoRoute
  BY DEF Init
<1>3. overlapped \in BOOLEAN /\ DOMAIN route = Requests
  BY DEF Init
<1> QED BY <1>1, <1>2, <1>3 DEF Routed

(* A request that runs a strategy has one that was made from a             *)
(* configuration.                                                          *)
LEMMA RunnerIsMade ==
    ASSUME ObjectInv, NEW r \in Requests, pc[r] \in {"store", "run"}
    PROVE  runner[r] \in Objects /\ config[runner[r]] \in Configs
<1>1. runner[r] \in Objects /\ InUse(runner[r])
  BY DEF ObjectInv, Holding, InUse
<1> QED BY <1>1 DEF ObjectInv, Holding, Existing

LEMMA StepRouted == ObjectInv /\ Routed /\ [Next]_vars => Routed'
<1> SUFFICES ASSUME ObjectInv, Routed, [Next]_vars PROVE Routed'
  OBVIOUS
<1>0. Holding
  BY DEF ObjectInv
<1>1. CASE UNCHANGED vars
  BY <1>1 DEF Routed, vars
<1>2. ASSUME NEW c \in Configs, AssignRouter(c) PROVE Routed'
  BY <1>2 DEF AssignRouter, Routed
<1>3. CASE ApplyDefaults
  BY <1>3 DEF ApplyDefaults, Routed
<1>4. CASE ClearCache
  BY <1>4 DEF ClearCache, Routed, BeingMadeFromOld
<1>5. ASSUME NEW r \in Requests, UNCHANGED <<overlapped, route>>, pc[r] # "routed",
             \E s \in States \ {"routed"} : pc' = [pc EXCEPT ![r] = s]
      PROVE  Routed'
  BY <1>0, <1>5 DEF Routed, Holding
<1>6. ASSUME NEW r \in Requests,
             \/ Begin(r) \/ Create(r) \/ CreateFails(r) \/ Store(r)
             \/ ReadTimeout(r) \/ End(r)
      PROVE  Routed'
  BY <1>5, <1>6 DEF Begin, Create, CreateFails, Store, ReadTimeout, End, States, objects
<1>7. ASSUME NEW r \in Requests, Lookup(r) PROVE Routed'
  BY <1>5, <1>7 DEF Lookup, States
<1>8. ASSUME NEW r \in Requests, NEW u \in Users, NoneVisible(r, u) PROVE Routed'
  BY <1>5, <1>8 DEF NoneVisible, States
<1>9. ASSUME NEW r \in Requests, pc[r] = "run", NEW b, NEW s, NEW l, Returns(r, b, s, l)
      PROVE  Routed'
  <2> DEFINE x == [by |-> config[runner[r]], basis |-> b, selected |-> s, ordered |-> l]
  <2>1. x.by \in Configs
    BY <1>9, RunnerIsMade
  <2>2. /\ route' = [route EXCEPT ![r] = x] /\ pc' = [pc EXCEPT ![r] = "routed"]
        /\ UNCHANGED overlapped
    BY <1>9 DEF Returns
  <2> HIDE DEF x
  <2> QED BY <1>0, <2>1, <2>2 DEF Routed, Holding
<1>10. ASSUME NEW r \in Requests, NEW u \in Users, RunPriority(r, u) PROVE Routed'
  BY <1>9, <1>10 DEF RunPriority
<1>11. ASSUME NEW r \in Requests, RunSemantic(r) PROVE Routed'
  BY <1>9, <1>11 DEF RunSemantic
<1>12. ASSUME NEW r \in Requests, ReadStrategy(r) PROVE Routed'
  <2>1. /\ route' = [route EXCEPT ![r] = NoRoute] /\ pc' = [pc EXCEPT ![r] = "settings"]
        /\ NoRoute.by = None /\ UNCHANGED overlapped
    BY <1>12 DEF ReadStrategy, NoRoute, objects
  <2> QED BY <1>0, <2>1 DEF Routed, Holding
<1> QED BY <1>1, <1>2, <1>3, <1>4, <1>6, <1>7, <1>8, <1>10, <1>11, <1>12 DEF Next

(* The weights of a group have its length: its key says which it is. *)
LEMMA WeightsType ==
    ASSUME ObjectInv, NEW o \in Objects, NEW k \in DOMAIN weights[o]
    PROVE  weights[o][k] \in [1..Len(k[2]) -> Int]
<1>1. Even(config[o], weights[o], picked[o])
  BY DEF ObjectInv, Existing
<1>2. PICK g \in DOMAIN picked[o] : k = KeyOf(g)
  BY <1>1 DEF Even
<1>3. IsTurn(config[o], g) /\ Balanced(g, weights[o][k], picked[o][g])
  BY <1>1, <1>2 DEF Even
<1>4. Weighted(g)
  BY <1>3, TurnIsWeighted
<1>5. k[2] = ModelsOf(g)
  BY <1>2 DEF KeyOf
<1>6. Len(ModelsOf(g)) = Len(g)
  <2>1. DOMAIN ModelsOf(g) = 1..Len(g) /\ Len(g) \in Nat
    BY <1>4 DEF ModelsOf, Weighted
  <2> QED BY <2>1
<1> QED BY <1>3, <1>4, <1>5, <1>6 DEF Balanced, Weighted

(* The state keeps its shape: a request has a strategy just when it runs   *)
(* or caches one, a route until it has chosen where it reads its settings, *)
(* and the objects that exist are those that someone holds.                *)
THEOREM TypeIsCorrect == Spec => []TypeOK
<1>1. ObjectInv /\ CacheInv /\ DefaultsInv /\ Routed => TypeOK
  <2> SUFFICES ASSUME ObjectInv, CacheInv, DefaultsInv, Routed PROVE TypeOK
    OBVIOUS
  <2>1. \A o \in Objects : \A k \in DOMAIN weights[o] : weights[o][k] \in [1..Len(k[2]) -> Int]
    BY WeightsType
  <2>2. ASSUME NEW o \in Objects PROVE o \in {cache} \union Range(runner) <=> config[o] # None
    <3>1. DOMAIN runner = Requests
      BY DEF ObjectInv, Holding
    <3>2. config[o] # None <=> InUse(o)
      BY DEF ObjectInv, Existing
    <3> QED BY <3>1, <3>2 DEF InUse, Range
  <2>3. \A r \in Requests : runner[r] # None <=> pc[r] \in {"store", "run"}
    BY DEF ObjectInv, Holding
  <2>4. CacheType
    BY DEF CacheInv
  <2>5. \A r \in Requests : section[r].of \in IF pc[r] = "settings" THEN Configs ELSE {None}
    BY DEF DefaultsInv, SectionChosen, IsChosen
  <2>6. Complete
    BY DEF DefaultsInv
  <2> QED BY <2>1, <2>2, <2>3, <2>4, <2>5, <2>6 DEF TypeOK, CacheType, Complete, Routed, States
<1>2. Spec => []CacheInv
  BY InitCache, StepCache, PTL DEF Spec
<1>3. Spec => []DefaultsInv
  BY InitDefaults, StepDefaults, PTL DEF Spec
<1>4. Spec => []Routed
  BY InitRouted, StepRouted, ObjectInvariance, PTL DEF Spec
<1> QED BY <1>1, <1>2, <1>3, <1>4, ObjectInvariance, PTL

-----------------------------------------------------------------------------
(* The semantic strategy.                                                  *)

(* A position is a number. *)
LEMMA PositionType ==
    ASSUME NEW order, IsFiniteSet(DOMAIN order), DOMAIN order \subseteq Int, NEW name
    PROVE  Position(name, order) \in Int
<1> DEFINE at == {i \in DOMAIN order : order[i] = name}
<1>1. at \in SUBSET Int /\ IsFiniteSet(at)
  BY FS_Subset
<1> HIDE DEF at
<1>2. at # {} => Max(at) \in at
  BY <1>1, MaxIs
<1> QED BY <1>1, <1>2 DEF Position, at

LEMMA PositionInList ==
    ASSUME NEW T, NEW order \in Seq(T), NEW name
    PROVE  Position(name, order) \in Int
<1>1. DOMAIN order = 1..Len(order) /\ Len(order) \in Nat
  OBVIOUS
<1>2. IsFiniteSet(1..Len(order))
  BY <1>1, FS_Interval
<1> QED BY <1>1, <1>2, PositionType

(* Of a name that is in the list several times the first place is kept. *)
LEMMA DedupIs ==
    ASSUME NEW T, NEW names \in Seq(T)
    PROVE  /\ Dedup(names) \in Seq(T)
           /\ \E a \in [DOMAIN Dedup(names) -> DOMAIN names] :
                /\ \A k \in DOMAIN Dedup(names) :
                     /\ Dedup(names)[k] = names[a[k]]
                     /\ \A j \in DOMAIN names : names[j] = names[a[k]] => a[k] <= j
                /\ \A k, l \in DOMAIN Dedup(names) : k < l => a[k] < a[l]
                /\ \A i \in DOMAIN names : \E k \in DOMAIN Dedup(names) : names[a[k]] = names[i]
<1> DEFINE I == {i \in DOMAIN names : \A j \in 1..(i - 1) : names[j] # names[i]}
           a == Ascending(I)
           n == Cardinality(I)
           ded == Dedup(names)
<1>1. DOMAIN names = 1..Len(names) /\ Len(names) \in Nat /\ I \in SUBSET (1..Len(names))
  OBVIOUS
<1>2. IsFiniteSet(1..Len(names))
  BY <1>1, FS_Interval
<1>3. I \in SUBSET Int /\ IsFiniteSet(I) /\ n \in Nat
  <2>1. I \in SUBSET Int
    BY <1>1
  <2> HIDE DEF I
  <2> QED BY <1>1, <1>2, <2>1, FS_Subset, FS_CardinalityType
<1>4. \A i \in I, j \in DOMAIN names : names[j] = names[i] => i <= j
  BY <1>1
<1>5. ASSUME NEW i \in DOMAIN names PROVE \E k \in I : names[k] = names[i]
  <2> DEFINE at == {j \in DOMAIN names : names[j] = names[i]}
  <2>1. at \in SUBSET Int /\ IsFiniteSet(at) /\ at # {}
    BY <1>1, <1>2, FS_Subset
  <2>2. PICK k \in at : \A j \in at : k <= j
    <3> HIDE DEF at
    <3> QED BY <2>1, MinIs
  <2>3. \A j \in 1..(k - 1) : j \in DOMAIN names /\ ~(k <= j)
    BY <1>1
  <2>4. k \in I
    BY <2>2, <2>3
  <2> QED BY <2>4
<1> HIDE DEF I
<1>6. /\ a \in [1..n -> I] /\ \A i \in I : \E k \in 1..n : a[k] = i
      /\ \A k, l \in 1..n : k < l => a[k] < a[l]
  BY <1>3, AscendingIs
<1>7. ded = [k \in 1..n |-> names[a[k]]]
  <2>1. DOMAIN a = 1..n
    BY <1>6
  <2> QED BY <2>1 DEF Dedup, EntriesAt, I
<1> HIDE DEF a, n, ded
<1>8. \A i \in I : i \in DOMAIN names /\ names[i] \in T
  BY <1>1
<1>9. DOMAIN ded = 1..n /\ ded \in Seq(T) /\ a \in [1..n -> DOMAIN names]
  <2>1. ded \in [1..n -> T]
    BY <1>6, <1>7, <1>8
  <2>2. DOMAIN ded = 1..n /\ ded \in Seq(T)
    BY <1>3, <2>1
  <2> QED BY <1>6, <1>8, <2>2
<1>10. \A k \in 1..n : /\ a[k] \in I /\ ded[k] = names[a[k]]
                       /\ \A j \in DOMAIN names : names[j] = names[a[k]] => a[k] <= j
  BY <1>4, <1>6, <1>7
<1>11. \A i \in DOMAIN names : \E k \in 1..n : names[a[k]] = names[i]
  BY <1>5, <1>6
<1>12. /\ a \in [DOMAIN ded -> DOMAIN names]
       /\ \A k \in DOMAIN ded :
            /\ ded[k] = names[a[k]]
            /\ \A j \in DOMAIN names : names[j] = names[a[k]] => a[k] <= j
       /\ \A k, l \in DOMAIN ded : k < l => a[k] < a[l]
       /\ \A i \in DOMAIN names : \E k \in DOMAIN ded : names[a[k]] = names[i]
  BY <1>6, <1>9, <1>10, <1>11
<1> QED BY <1>9, <1>12 DEF ded

(* A candidate with its scores, and what the analyzer may answer. *)
ScoredType == [model : STRING, enabled : BOOLEAN, scores : [Labels -> Int]]

AnyLabel == Labels \union {NoLabel}

(* The score of a candidate is a number, for no label too, and so are its  *)
(* places in the tie-break list and in the alphabet.                       *)
LEMMA ScoredIs ==
    ASSUME NEW candidates \in Seq(ScoredType), NEW label \in AnyLabel, NEW tie \in Seq(STRING),
           NEW c \in Range(candidates)
    PROVE  /\ c.model \in STRING /\ Scores(c, label) \in Int
           /\ Position(c.model, tie) \in Int /\ Position(c.model, Alphabet) \in Int
<1>1. PICK i \in DOMAIN candidates : c = candidates[i]
  BY DEF Range
<1>2. c \in ScoredType
  BY <1>1
<1>3. c.model \in STRING /\ Scores(c, label) \in Int
  BY <1>2 DEF ScoredType, Scores, AnyLabel
<1>4. Position(c.model, tie) \in Int /\ Position(c.model, Alphabet) \in Int
  BY PositionInList, RouterAssumption
<1> QED BY <1>3, <1>4

(* The pairs of which the first outranks the second. *)
Ranks(label, routing, candidates) ==
    {p \in Pairs(candidates) : Outranks(label, routing, p[1], p[2])}

(* Score, then the tie-break list: a weak order of the candidates. *)
LEMMA RanksIsOrder ==
    ASSUME NEW candidates \in Seq(ScoredType), NEW label \in AnyLabel, NEW routing,
           routing.tieBreakOrder \in Seq(STRING)
    PROVE  /\ IsWeakOrder(Range(candidates), Ranks(label, routing, candidates))
           /\ \A c, d \in Range(candidates) :
                <<c, d>> \in Ranks(label, routing, candidates) <=> Outranks(label, routing, c, d)
<1> DEFINE D == Range(candidates)
           R == Ranks(label, routing, candidates)
           tie == routing.tieBreakOrder
           byName == label = NoLabel /\ tie = <<>>
           f == [c \in D |-> -Scores(c, label)]
           g == [c \in D |-> Position(c.model, tie)]
           h == [c \in D |-> IF byName THEN Position(c.model, Alphabet) ELSE 0]
<1>1. \A c, d \in D : <<c, d>> \in R <=> Outranks(label, routing, c, d)
  BY DEF Ranks, Pairs
<1>2. \A c \in D : /\ Scores(c, label) \in Int
                   /\ Position(c.model, tie) \in Int /\ Position(c.model, Alphabet) \in Int
  BY ScoredIs
<1>3. tie = <<>> => \A c \in D : Position(c.model, tie) = 0
  BY DEF Position
<1> HIDE DEF tie, D, R
<1>4. ASSUME NEW c \in D, NEW d \in D
      PROVE  Outranks(label, routing, c, d) <=>
               \/ f[c] < f[d]
               \/ f[c] = f[d] /\ g[c] < g[d]
               \/ f[c] = f[d] /\ g[c] = g[d] /\ h[c] < h[d]
  <2>1. CASE byName
    BY <1>2, <1>3, <2>1 DEF Outranks, BreaksTie, IsNamedBefore, tie
  <2>2. CASE ~byName
    BY <1>2, <2>2 DEF Outranks, BreaksTie, IsNamedBefore, tie
  <2> QED BY <2>1, <2>2
<1>5. f \in [D -> Int] /\ g \in [D -> Int] /\ h \in [D -> Int]
  BY <1>2
<1> HIDE DEF f, g, h
<1>6. \A c, d \in D : <<c, d>> \in R <=> SmallerBy(f, g, h, c, d)
  BY <1>1, <1>4 DEF SmallerBy
<1>7. IsWeakOrder(D, R)
  BY <1>5, <1>6, OrderByNumbers
<1> QED BY <1>1, <1>7 DEF D, R

(* The pairs of winners of which the first wins the tie. *)
Ties(routing, winners) == {p \in Pairs(winners) : WinsTie(routing, p[1], p[2])}

(* The tie of the winners is decided by a weak order too. *)
LEMMA TiesIsOrder ==
    ASSUME NEW winners \in Seq(ScoredType), NEW routing, routing.tieBreakOrder \in Seq(STRING)
    PROVE  /\ IsWeakOrder(Range(winners), Ties(routing, winners))
           /\ \A c, d \in Range(winners) :
                <<c, d>> \in Ties(routing, winners) <=> WinsTie(routing, c, d)
<1> DEFINE D == Range(winners)
           R == Ties(routing, winners)
           tie == routing.tieBreakOrder
           f == [c \in D |-> IF tie # <<>> THEN Position(c.model, tie)
                             ELSE Position(c.model, Alphabet)]
           g == [c \in D |-> 0]
<1>1. \A c, d \in D : <<c, d>> \in R <=> WinsTie(routing, c, d)
  BY DEF Ties, Pairs
<1>2. \A c \in D : Position(c.model, tie) \in Int /\ Position(c.model, Alphabet) \in Int
  BY PositionInList, RouterAssumption
<1> HIDE DEF D, R
<1>3. \A c, d \in D : WinsTie(routing, c, d) <=> f[c] < f[d]
  BY DEF WinsTie, BreaksTie, IsNamedBefore
<1>4. f \in [D -> Int] /\ g \in [D -> Int] /\ \A c, d \in D : g[c] = g[d] /\ ~(g[c] < g[d])
  BY <1>2
<1> HIDE DEF f, g
<1>5. \A c, d \in D : <<c, d>> \in R <=> SmallerBy(f, g, g, c, d)
  BY <1>1, <1>3, <1>4 DEF SmallerBy
<1>6. IsWeakOrder(D, R)
  BY <1>4, <1>5, OrderByNumbers
<1> QED BY <1>1, <1>6 DEF D, R

(* A number of a set that no other exceeds is its largest. *)
LEMMA MaxOf ==
    ASSUME NEW V \in SUBSET Int, NEW s \in V, \A y \in V : y <= s
    PROVE  Max(V) = s
<1> DEFINE m == CHOOSE x \in V : \A y \in V : x >= y
<1>1. s \in Int /\ V \subseteq Int
  OBVIOUS
<1>2. \A y \in V : s >= y
  BY <1>1
<1>3. m \in V /\ \A y \in V : m >= y
  BY <1>2
<1>4. Max(V) = m
  BY DEF Max
<1> HIDE DEF m
<1>5. m \in Int /\ m >= s /\ s >= m
  BY <1>1, <1>2, <1>3
<1> QED BY <1>1, <1>4, <1>5

(* What the list is before the fallback: every model of the candidates     *)
(* once, by the scores; and the model that is first in it.                 *)
LEMMA RankedIs ==
    ASSUME NEW candidates \in Seq(ScoredType), NEW label \in AnyLabel, NEW routing,
           routing.tieBreakOrder \in Seq(STRING)
    PROVE  LET names == Dedup(ModelsOf(StableSort(candidates, Ranks(label, routing, candidates))))
               C == Range(candidates)
           IN  /\ names \in Seq(STRING) /\ IsInjective(names)
               /\ Range(names) = {c.model : c \in C}
               /\ \A i, j \in DOMAIN names : i < j =>
                    LET s == Score(names[i], C, label)
                        t == Score(names[j], C, label)
                    IN  \/ s > t
                        \/ /\ s = t
                           /\ Position(names[i], routing.tieBreakOrder)
                                <= Position(names[j], routing.tieBreakOrder)
               /\ \A c \in C : /\ Score(c.model, C, label) \in Int
                                /\ Scores(c, label) <= Score(c.model, C, label)
               /\ candidates # <<>> =>
                    \E p \in DOMAIN candidates :
                      /\ names # <<>> /\ names[1] = candidates[p].model
                      /\ Score(names[1], C, label) = Scores(candidates[p], label)
                      /\ \A j \in DOMAIN candidates : j # p =>
                           \/ Outranks(label, routing, candidates[p], candidates[j])
                           \/ /\ ~Outranks(label, routing, candidates[j], candidates[p])
                              /\ p < j
<1> DEFINE R == Ranks(label, routing, candidates)
           sorted == StableSort(candidates, R)
           models == ModelsOf(sorted)
           names == Dedup(models)
           C == Range(candidates)
           D == DOMAIN candidates
           tie == routing.tieBreakOrder
           b == Arranged(D, StableOrder(candidates, R))
<1>1. /\ IsWeakOrder(C, R)
      /\ \A c, d \in C : <<c, d>> \in R <=> Outranks(label, routing, c, d)
  BY RanksIsOrder
<1> HIDE DEF R
<1>2. /\ sorted \in Seq(ScoredType) /\ Len(sorted) = Len(candidates)
      /\ IsSortOf(sorted, candidates, R, b)
  BY <1>1, StableSortIs
<1>3. D = 1..Len(candidates) /\ Len(candidates) \in Nat
  OBVIOUS
<1> HIDE DEF sorted, b
<1>4. DOMAIN sorted = D
  BY <1>2, <1>3
<1>5. /\ \A k \in D : sorted[k] \in C
      /\ \A c \in C : \E k \in D : sorted[k] = c
  <2>1. \A k \in D : b[k] \in D /\ sorted[k] = candidates[b[k]]
    BY <1>2 DEF IsSortOf
  <2>2. \A i \in D : \E k \in D : b[k] = i
    BY <1>2 DEF IsSortOf
  <2>3. \A i \in D : candidates[i] \in C
    BY DEF Range
  <2>4. \A c \in C : \E i \in D : candidates[i] = c
    BY DEF Range
  <2> HIDE DEF D, C
  <2> QED BY <2>1, <2>2, <2>3, <2>4
<1>6. \A c \in C : /\ c.model \in STRING /\ Scores(c, label) \in Int
                   /\ Position(c.model, tie) \in Int
  BY ScoredIs
<1>7. ASSUME NEW x \in D, NEW y \in D, x < y
      PROVE  \/ Scores(sorted[x], label) > Scores(sorted[y], label)
             \/ /\ Scores(sorted[x], label) = Scores(sorted[y], label)
                /\ Position(sorted[x].model, tie) <= Position(sorted[y].model, tie)
  <2> DEFINE c == sorted[x]
             d == sorted[y]
  <2>1. c \in C /\ d \in C
    BY <1>5
  <2>2. <<c, d>> \in R \/ <<d, c>> \notin R
    BY <1>2, <1>7 DEF IsSortOf
  <2> HIDE DEF c, d, C
  <2>3. <<d, c>> \notin R
    BY <1>1, <2>1, <2>2 DEF IsWeakOrder
  <2>4. ~Outranks(label, routing, d, c)
    BY <1>1, <2>1, <2>3
  <2>5. /\ Scores(c, label) \in Int /\ Scores(d, label) \in Int
        /\ Position(c.model, tie) \in Int /\ Position(d.model, tie) \in Int
    BY <1>6, <2>1
  <2>6. /\ ~(Scores(d, label) > Scores(c, label))
        /\ Scores(d, label) = Scores(c, label) =>
             ~(Position(d.model, tie) < Position(c.model, tie))
    BY <2>4 DEF Outranks, BreaksTie
  <2> QED BY <2>5, <2>6 DEF c, d
<1>8. models \in Seq(STRING) /\ DOMAIN models = D /\ \A k \in D : models[k] = sorted[k].model
  <2>1. DOMAIN models = D /\ \A k \in D : models[k] = sorted[k].model
    BY <1>4 DEF ModelsOf
  <2>2. models = [k \in D |-> sorted[k].model]
    BY <1>4 DEF ModelsOf
  <2> HIDE DEF C
  <2>3. \A k \in D : sorted[k].model \in STRING
    BY <1>5, <1>6
  <2>4. models \in [1..Len(candidates) -> STRING]
    BY <1>3, <2>2, <2>3
  <2> HIDE DEF models, D
  <2> QED BY <1>3, <2>1, <2>4
<1> HIDE DEF models
<1>9. names \in Seq(STRING)
  BY <1>8, DedupIs
<1>10. PICK a \in [DOMAIN names -> DOMAIN models] :
         /\ \A k \in DOMAIN names :
              /\ names[k] = models[a[k]]
              /\ \A j \in DOMAIN models : models[j] = models[a[k]] => a[k] <= j
         /\ \A k, l \in DOMAIN names : k < l => a[k] < a[l]
         /\ \A i \in DOMAIN models : \E k \in DOMAIN names : models[a[k]] = models[i]
  BY <1>8, DedupIs
<1> HIDE DEF names, C, D, tie
<1>11. DOMAIN names = 1..Len(names) /\ Len(names) \in Nat
  BY <1>9
<1>12. \A k \in DOMAIN names : a[k] \in D /\ a[k] \in Int /\ names[k] = sorted[a[k]].model
  BY <1>3, <1>8, <1>10 DEF D
<1>13. IsInjective(names)
  <2> SUFFICES ASSUME NEW k \in DOMAIN names, NEW l \in DOMAIN names, names[k] = names[l], k < l
               PROVE  FALSE
    <3>1. \A k, l \in DOMAIN names : k = l \/ k < l \/ l < k
      BY <1>11
    <3> QED BY <3>1 DEF IsInjective
  <2>1. a[k] < a[l] /\ a[l] <= a[k]
    BY <1>8, <1>10, <1>12
  <2> QED BY <1>12, <2>1
<1>14. Range(names) = {c.model : c \in C}
  <2>1. ASSUME NEW k \in DOMAIN names PROVE \E c \in C : names[k] = c.model
    BY <1>5, <1>12
  <2>2. ASSUME NEW c \in C PROVE \E k \in DOMAIN names : names[k] = c.model
    <3>1. PICK i \in D : sorted[i] = c
      BY <1>5
    <3>2. models[i] = c.model
      BY <1>8, <3>1
    <3> QED BY <1>8, <1>10, <3>2
  <2> QED BY <2>1, <2>2 DEF Range
<1>15. ASSUME NEW k \in DOMAIN names
       PROVE  /\ Score(names[k], C, label) = Scores(sorted[a[k]], label)
              /\ \A c \in C : c.model = names[k] => Scores(c, label) <= Scores(sorted[a[k]], label)
  <2> DEFINE x == a[k]
             s == Scores(sorted[x], label)
             V == {Scores(c, label) : c \in {d \in C : d.model = names[k]}}
  <2>1. x \in D /\ sorted[x] \in C /\ sorted[x].model = names[k]
    BY <1>5, <1>12
  <2>2. ASSUME NEW c \in C, c.model = names[k] PROVE Scores(c, label) <= s
    <3>1. PICK j \in D : sorted[j] = c
      BY <1>5
    <3>2. x <= j
      BY <1>8, <1>10, <2>1, <2>2, <3>1
    <3>3. Scores(c, label) \in Int /\ s \in Int /\ x \in Int /\ j \in Int
      BY <1>3, <1>6, <2>1 DEF D
    <3>4. CASE x = j
      BY <3>1, <3>3, <3>4
    <3>5. CASE x < j
      <4>1. s > Scores(c, label) \/ s = Scores(c, label)
        BY <1>7, <2>1, <3>1, <3>5
      <4> HIDE DEF s
      <4> QED BY <3>3, <4>1
    <3> QED BY <3>2, <3>3, <3>4, <3>5
  <2>3. s \in V /\ V \in SUBSET Int /\ \A y \in V : y <= s
    BY <1>6, <2>1, <2>2
  <2>4. Max(V) = s
    <3> HIDE DEF V, s
    <3> QED BY <2>3, MaxOf
  <2> QED BY <2>2, <2>4 DEF Score
<1>16. ASSUME NEW i \in DOMAIN names, NEW j \in DOMAIN names, i < j
       PROVE  LET s == Score(names[i], C, label)
                  t == Score(names[j], C, label)
              IN  \/ s > t
                  \/ s = t /\ Position(names[i], tie) <= Position(names[j], tie)
  <2>1. a[i] \in D /\ a[j] \in D /\ a[i] < a[j]
    BY <1>10, <1>12, <1>16
  <2> QED BY <1>7, <1>12, <1>15, <2>1
<1>17. \A c \in C : /\ Score(c.model, C, label) \in Int
                    /\ Scores(c, label) <= Score(c.model, C, label)
  <2> SUFFICES ASSUME NEW c \in C
               PROVE  /\ Score(c.model, C, label) \in Int
                      /\ Scores(c, label) <= Score(c.model, C, label)
    OBVIOUS
  <2>1. PICK k \in DOMAIN names : names[k] = c.model
    BY <1>14 DEF Range
  <2>2. Scores(sorted[a[k]], label) \in Int
    BY <1>5, <1>6, <1>12
  <2> QED BY <1>15, <2>1, <2>2
<1>18. ASSUME candidates # <<>>
       PROVE  \E p \in D :
                /\ names # <<>> /\ names[1] = candidates[p].model
                /\ Score(names[1], C, label) = Scores(candidates[p], label)
                /\ \A j \in D : j # p =>
                     \/ Outranks(label, routing, candidates[p], candidates[j])
                     \/ /\ ~Outranks(label, routing, candidates[j], candidates[p])
                        /\ p < j
  <2>1. PICK p \in D :
          /\ sorted[1] = candidates[p]
          /\ \A j \in D : j # p =>
               \/ <<candidates[p], candidates[j]>> \in R
               \/ <<candidates[j], candidates[p]>> \notin R /\ p < j
    BY <1>1, <1>18, FirstOfSort DEF sorted, D, C
  <2>2. 1 \in D
    BY <1>3, <1>18 DEF D
  <2>3. PICK k \in DOMAIN names : models[a[k]] = models[1]
    BY <1>8, <1>10, <2>2
  <2>4. a[k] <= 1 /\ 1 <= a[k]
    <3>1. a[k] <= 1
      BY <1>8, <1>10, <2>2, <2>3
    <3>2. 1 <= a[k]
      BY <1>3, <1>12 DEF D
    <3> QED BY <3>1, <3>2
  <2>5. a[k] = 1
    BY <1>12, <2>4
  <2>6. k = 1
    <3>1. 1 \in DOMAIN names
      BY <1>11
    <3>2. 1 < k => a[1] < a[k] /\ 1 <= a[1]
      BY <1>3, <1>10, <1>12, <3>1 DEF D
    <3> QED BY <1>11, <1>12, <2>5, <3>1, <3>2
  <2>7. names # <<>> /\ names[1] = candidates[p].model
    <3>1. names # <<>>
      BY <1>11, <2>3
    <3> QED BY <1>12, <2>1, <2>5, <2>6, <3>1
  <2>8. Score(names[1], C, label) = Scores(candidates[p], label)
    BY <1>15, <2>1, <2>5, <2>6
  <2>9. \A j \in D : candidates[j] \in C
    BY DEF C, D, Range
  <2>10. \A j \in D : j # p =>
           \/ Outranks(label, routing, candidates[p], candidates[j])
           \/ /\ ~Outranks(label, routing, candidates[j], candidates[p])
              /\ p < j
    BY <1>1, <2>1, <2>9
  <2> QED BY <2>7, <2>8, <2>10
<1> QED BY <1>9, <1>13, <1>14, <1>16, <1>17, <1>18 DEF names, models, sorted, R, C, D, tie

(* The fallback is added at the end, unless it is in the list already. *)
LEMMA WithFallbackIs ==
    ASSUME NEW names \in Seq(STRING), IsInjective(names), NEW routing,
           routing.fallbackModelName \in STRING \union {NoModel}
    PROVE  LET ordered == WithFallback(names, routing)
               fallback == {routing.fallbackModelName} \ {NoModel}
           IN  /\ IsInjective(ordered)
               /\ Range(ordered) = Range(names) \union fallback
               /\ \A m \in fallback \ Range(names) : Last(ordered) = m
               /\ \A i \in DOMAIN names : i \in DOMAIN ordered /\ ordered[i] = names[i]
               /\ \A i \in DOMAIN ordered : ordered[i] \in Range(names) => i \in DOMAIN names
               /\ names = <<>> => ordered = <<>> \/ ordered[1] = routing.fallbackModelName
<1> DEFINE ordered == WithFallback(names, routing)
           m == routing.fallbackModelName
           fallback == {m} \ {NoModel}
           n == Len(names)
<1>1. n \in Nat /\ DOMAIN names = 1..n
  OBVIOUS
<1>2. CASE m \in Range(names) \union {NoModel}
  <2>1. ordered = names
    BY <1>2 DEF WithFallback
  <2>2. fallback \subseteq Range(names)
    BY <1>2
  <2>3. \A i \in DOMAIN names : names[i] \in Range(names)
    BY DEF Range
  <2> HIDE DEF ordered, fallback
  <2>4. Range(ordered) = Range(names) \union fallback
    BY <2>1, <2>2
  <2> QED BY <2>1, <2>2, <2>4 DEF ordered, fallback, m
<1>3. CASE m \notin Range(names) \union {NoModel}
  <2>1. ordered = Append(names, m) /\ m \in STRING
    BY <1>3 DEF WithFallback
  <2> HIDE DEF m, ordered
  <2>2. /\ Len(ordered) = n + 1 /\ DOMAIN ordered = 1..(n + 1)
        /\ ordered[n + 1] = m /\ \A i \in 1..n : ordered[i] = names[i]
    BY <1>1, <2>1
  <2>3. \A i \in 1..n : names[i] \in Range(names) /\ names[i] # m
    BY <1>1, <1>3 DEF Range
  <2>4. \A i \in 1..(n + 1) : i \in 1..n \/ i = n + 1
    BY <1>1
  <2>5. 1..n \subseteq 1..(n + 1) /\ n + 1 \in 1..(n + 1) /\ n + 1 \notin 1..n
    BY <1>1
  <2> HIDE DEF n
  <2>6. IsInjective(ordered)
    <3> SUFFICES ASSUME NEW a \in DOMAIN ordered, NEW b \in DOMAIN ordered,
                        ordered[a] = ordered[b]
                 PROVE  a = b
      BY DEF IsInjective
    <3>1. CASE a \in 1..n /\ b \in 1..n
      BY <1>1, <2>2, <3>1 DEF IsInjective
    <3>2. CASE a = n + 1 \/ b = n + 1
      BY <2>2, <2>3, <2>4, <3>2
    <3> QED BY <2>2, <2>4, <3>1, <3>2
  <2>7. Range(ordered) = Range(names) \union fallback
    <3>1. fallback = {m}
      BY <1>3
    <3>2. Range(ordered) = Range(names) \union {m}
      BY <1>1, <2>2, <2>4, <2>5 DEF Range
    <3> QED BY <3>1, <3>2
  <2>8. Last(ordered) = m
    BY <2>2 DEF Last
  <2>9. \A i \in DOMAIN ordered : ordered[i] \in Range(names) => i \in DOMAIN names
    BY <1>1, <1>3, <2>2, <2>4
  <2>10. names = <<>> => ordered[1] = m
    BY <2>2, <1>1 DEF n
  <2> QED BY <1>1, <2>2, <2>5, <2>6, <2>7, <2>8, <2>9, <2>10 DEF m, ordered
<1> QED BY <1>2, <1>3

(* What the rules let pass: of the enabled candidates all those of the     *)
(* models that are in the list.                                            *)
LEMMA OutcomeIs ==
    ASSUME NEW candidates \in Seq(ScoredType), NEW routing,
           NEW outcome \in ApplyRuleEngine(FilterEnabled(candidates), routing)
    PROVE  /\ outcome.candidates \in Seq(ScoredType)
           /\ Range(outcome.candidates) =
                {c \in Range(candidates) :
                   c.enabled /\ c.model \in Range(ModelsOf(outcome.candidates))}
           /\ Answers(outcome) \subseteq AnyLabel
<1> DEFINE E == FilterEnabled(candidates)
           out == outcome.candidates
<1>1. E \in Seq(ScoredType) /\ Range(E) = {c \in Range(candidates) : c.enabled}
  <2> DEFINE S == {c \in Range(candidates) : c.enabled}
  <2>1. /\ Among(candidates, S) \in Seq(ScoredType \intersect S)
        /\ Range(Among(candidates, S)) = Range(candidates) \intersect S
    BY AmongIs, AmongRange
  <2>2. E = Among(candidates, S)
    BY DEF FilterEnabled
  <2> HIDE DEF E, S
  <2>3. E \in Seq(ScoredType)
    BY <2>1, <2>2
  <2> QED BY <2>1, <2>2, <2>3 DEF S
<1> HIDE DEF E
<1>2. Range(ModelsOf(out)) = {c.model : c \in Range(out)}
  BY DEF Range, ModelsOf
<1>3. Answers(outcome) \subseteq AnyLabel
  BY DEF Answers, AnyLabel
<1>4. CASE out = E
  BY <1>1, <1>2, <1>3, <1>4
<1>5. CASE out # E
  <2>1. outcome \in Qualified(E)
    BY <1>5 DEF ApplyRuleEngine, E
  <2> DEFINE S == Range(ModelsOf(E))
  <2>2. PICK names \in SetToAllKPermutations(S) \ {<<>>} :
          out = StableSort(Passed(E, names), ByPlace(names, Passed(E, names)))
    BY <2>1 DEF Qualified
  <2> HIDE DEF S
  <2>3. PICK s \in SUBSET S : names \in SetToSeqs(s)
    BY <2>2 DEF SetToAllKPermutations
  <2>4. names \in [1..Cardinality(s) -> s]
    BY <2>3 DEF SetToSeqs
  <2> DEFINE P == Passed(E, names)
             W == {c \in Range(E) : c.model \in Range(names)}
             R == ByPlace(names, P)
  <2>5. IsFiniteSet(s)
    <3>1. S = {E[i].model : i \in DOMAIN E}
      BY DEF S, ModelsOf, Range
    <3> DEFINE F == [i \in DOMAIN E |-> E[i].model]
    <3>2. DOMAIN E = 1..Len(E) /\ Len(E) \in Nat
      BY <1>1
    <3>3. IsFiniteSet(DOMAIN E)
      BY <3>2, FS_Interval
    <3>4. F \in Surjection(DOMAIN E, S)
      BY <3>1 DEF Surjection
    <3>5. IsFiniteSet(S)
      <4> HIDE DEF F
      <4> QED BY <3>3, <3>4, FS_Surjection
    <3> QED BY <3>5, FS_Subset
  <2>6. P \in Seq(ScoredType) /\ Range(P) = W
    <3>1. /\ Among(E, W) \in Seq(ScoredType \intersect W)
          /\ Range(Among(E, W)) = Range(E) \intersect W
      BY <1>1, AmongIs, AmongRange
    <3>2. P = Among(E, W)
      BY DEF Passed
    <3> HIDE DEF P, W
    <3>3. P \in Seq(ScoredType)
      BY <3>1, <3>2
    <3> QED BY <3>1, <3>2, <3>3 DEF W
  <2> HIDE DEF P, W
  <2>7. \A c \in Range(P) : Position(c.model, names) \in Int
    <3>1. Cardinality(s) \in Nat
      BY <2>5, FS_CardinalityType
    <3> DEFINE n == Cardinality(s)
    <3>2. DOMAIN names = 1..n
      BY <2>4
    <3> HIDE DEF n
    <3>3. IsFiniteSet(DOMAIN names) /\ DOMAIN names \subseteq Int
      BY <3>1, <3>2, FS_Interval DEF n
    <3> QED BY <3>3, PositionType
  <2>8. IsWeakOrder(Range(P), R)
    <3> DEFINE D == Range(P)
               f == [c \in D |-> Position(c.model, names)]
               g == [c \in D |-> 0]
    <3>1. f \in [D -> Int] /\ g \in [D -> Int]
      BY <2>7
    <3>2. \A c, d \in D : <<c, d>> \in R <=> Position(c.model, names) < Position(d.model, names)
      BY DEF ByPlace, Pairs
    <3>3. \A c, d \in D : <<c, d>> \in R <=> SmallerBy(f, g, g, c, d)
      <4>1. \A c \in D : f[c] = Position(c.model, names) /\ g[c] = 0
        OBVIOUS
      <4> HIDE DEF f, g, D, R
      <4>2. \A c, d \in D : SmallerBy(f, g, g, c, d)
                              <=> Position(c.model, names) < Position(d.model, names)
        BY <4>1 DEF SmallerBy
      <4> QED BY <3>2, <4>2
    <3> HIDE DEF f, g, D, R
    <3>4. IsWeakOrder(D, R)
      BY <3>1, <3>3, OrderByNumbers
    <3> QED BY <3>4 DEF D
  <2> HIDE DEF R
  <2>9. out \in Seq(ScoredType) /\ Range(out) = Range(P)
    <3> DEFINE b == Arranged(DOMAIN P, StableOrder(P, R))
               t == StableSort(P, R)
    <3>1. t \in Seq(ScoredType) /\ Len(t) = Len(P) /\ IsSortOf(t, P, R, b)
      BY <2>6, <2>8, StableSortIs
    <3>2. out = t
      BY <2>2 DEF P, R
    <3> HIDE DEF b, t
    <3>3. DOMAIN t = DOMAIN P
      BY <2>6, <3>1
    <3>4. \A k \in DOMAIN P : b[k] \in DOMAIN P /\ t[k] = P[b[k]]
      BY <3>1 DEF IsSortOf
    <3>5. \A i \in DOMAIN P : \E k \in DOMAIN P : b[k] = i
      BY <3>1 DEF IsSortOf
    <3>6. Range(t) = Range(P)
      BY <3>3, <3>4, <3>5 DEF Range
    <3> QED BY <3>1, <3>2, <3>6
  <2> HIDE DEF out
  <2>10. Range(out) = {c \in Range(candidates) : c.enabled /\ c.model \in Range(names)}
    BY <1>1, <2>6, <2>9 DEF W
  <2>11. Range(out) = {c \in Range(candidates) :
                         c.enabled /\ c.model \in Range(ModelsOf(out))}
    BY <1>2, <2>10
  <2> QED BY <1>3, <2>9, <2>11 DEF out
<1> QED BY <1>4, <1>5

(* What a configuration says to the strategy. *)
RoutingOf(routing) ==
    /\ routing.candidates \in Seq(ScoredType)
    /\ routing.minScore \in Int
    /\ routing.tieBreakOrder \in Seq(STRING)
    /\ routing.fallbackModelName \in STRING \union {NoModel}

(* The best score is that of a candidate, or there is none above -1. *)
LEMMA BestIs ==
    ASSUME NEW candidates \in Seq(ScoredType), NEW label \in AnyLabel
    PROVE  /\ BestScore(label, candidates) \in Int
           /\ \A c \in Range(candidates) : Scores(c, label) <= BestScore(label, candidates)
           /\ BestScore(label, candidates) >= 0 =>
                \E c \in Range(candidates) : Scores(c, label) = BestScore(label, candidates)
<1> DEFINE C == Range(candidates)
           V == {-1} \union {Scores(c, label) : c \in C}
           D == DOMAIN candidates
           F == [i \in D |-> Scores(candidates[i], label)]
           U == {Scores(c, label) : c \in C}
<1>1. \A c \in C : Scores(c, label) \in Int
  <2>1. <<>> \in Seq(STRING)
    OBVIOUS
  <2> QED BY <2>1, ScoredIs
<1>2. C = {candidates[i] : i \in D}
  BY DEF Range
<1>3. IsFiniteSet(U)
  <2>1. D = 1..Len(candidates) /\ Len(candidates) \in Nat
    OBVIOUS
  <2>2. IsFiniteSet(D)
    BY <2>1, FS_Interval
  <2>3. F \in Surjection(D, U)
    <3>1. U = {Scores(candidates[i], label) : i \in D}
      BY <1>2
    <3> HIDE DEF U, C, D
    <3> QED BY <3>1 DEF Surjection
  <2> HIDE DEF F, U, D
  <2> QED BY <2>2, <2>3, FS_Surjection
<1>4. V = U \union {-1} /\ V \in SUBSET Int
  BY <1>1
<1>5. IsFiniteSet(V) /\ V # {}
  <2> HIDE DEF U, V
  <2> QED BY <1>3, <1>4, FS_AddElement
<1>6. Max(V) \in V /\ \A y \in V : Max(V) >= y
  <2> HIDE DEF V
  <2> QED BY <1>4, <1>5, MaxIs
<1>7. BestScore(label, candidates) = Max(V)
  BY DEF BestScore
<1> DEFINE best == Max(V)
<1>8. best \in Int
  BY <1>4, <1>6
<1>9. \A c \in C : best >= Scores(c, label)
  BY <1>6
<1>10. best = -1 \/ \E c \in C : Scores(c, label) = best
  BY <1>6
<1>11. BestScore(label, candidates) = best
  BY <1>7
<1> HIDE DEF best
<1>12. best >= 0 => best # -1
  BY <1>8
<1>13. \A c \in C : Scores(c, label) <= best
  BY <1>1, <1>8, <1>9
<1> QED BY <1>8, <1>10, <1>11, <1>12, <1>13

(* The model that the client is told of, among those with the best score:  *)
(* the one that is also called first, or there is no tie-break list.       *)
LEMMA WinnerIs ==
    ASSUME NEW routing, RoutingOf(routing), NEW label \in AnyLabel,
           NEW candidates \in Seq(ScoredType),
           BestScore(label, candidates) >= 0,
           BestScore(label, candidates) >= routing.minScore,
           NEW p \in DOMAIN candidates,
           \A j \in DOMAIN candidates : j # p =>
             \/ Outranks(label, routing, candidates[p], candidates[j])
             \/ /\ ~Outranks(label, routing, candidates[j], candidates[p])
                /\ p < j
    PROVE  \E q \in DOMAIN candidates :
             /\ SelectByLabel(label, candidates, routing) = candidates[q].model
             /\ Scores(candidates[p], label) = BestScore(label, candidates)
             /\ Scores(candidates[q], label) = BestScore(label, candidates)
             /\ routing.tieBreakOrder # <<>> => q = p
<1> DEFINE best == BestScore(label, candidates)
           D == DOMAIN candidates
           C == Range(candidates)
           W == {c \in C : Scores(c, label) = best}
           winners == Winners(label, candidates)
           R == Ties(routing, winners)
           tie == routing.tieBreakOrder
           a == Ascending(PlacesOf(candidates, W))
<1>1. /\ best \in Int /\ best >= 0 /\ best >= routing.minScore /\ routing.minScore \in Int
      /\ \A c \in C : Scores(c, label) <= best
      /\ \E c \in C : Scores(c, label) = best
  BY BestIs DEF RoutingOf
<1>2. \A i \in D : /\ candidates[i] \in C /\ Scores(candidates[i], label) \in Int
                   /\ Position(candidates[i].model, tie) \in Int
  <2>1. \A i \in D : candidates[i] \in C
    BY DEF Range
  <2>2. tie \in Seq(STRING)
    BY DEF RoutingOf
  <2> HIDE DEF C, D, tie
  <2>3. \A c \in C : Scores(c, label) \in Int /\ Position(c.model, tie) \in Int
    BY <2>2, ScoredIs DEF C
  <2> QED BY <2>1, <2>3
<1>3. D \subseteq Int
  OBVIOUS
<1>4. /\ winners = Among(candidates, W)
      /\ winners \in Seq(ScoredType)
      /\ IsFilterOf(winners, candidates, W, a)
      /\ Range(winners) = W
  <2>1. /\ Among(candidates, W) \in Seq(ScoredType \intersect W)
        /\ IsFilterOf(Among(candidates, W), candidates, W, a)
        /\ Range(Among(candidates, W)) = C \intersect W
    BY AmongIs, AmongRange
  <2>2. winners = Among(candidates, W)
    BY DEF Winners
  <2> HIDE DEF winners, a, W
  <2>3. winners \in Seq(ScoredType)
    BY <2>1, <2>2
  <2> QED BY <2>1, <2>2, <2>3 DEF W
<1>5. /\ IsWeakOrder(Range(winners), R)
      /\ \A c, d \in Range(winners) : <<c, d>> \in R <=> WinsTie(routing, c, d)
  <2> HIDE DEF winners
  <2> QED BY <1>4, TiesIsOrder DEF RoutingOf
<1>6. SelectByLabel(label, candidates, routing) = StableSort(winners, R)[1].model
  <2>1. ~(best < 0 \/ best < routing.minScore)
    BY <1>1
  <2> QED BY <2>1 DEF SelectByLabel, Ties
<1>7. Scores(candidates[p], label) = best
  <2>1. PICK c \in C : Scores(c, label) = best
    BY <1>1
  <2>2. PICK j \in D : candidates[j] = c
    BY DEF Range
  <2>3. CASE j = p
    BY <2>1, <2>2, <2>3
  <2>4. CASE j # p
    <3>1. ~(Scores(candidates[j], label) > Scores(candidates[p], label))
      <4> DEFINE s == Scores(candidates[j], label)
                 t == Scores(candidates[p], label)
      <4>1. \/ Outranks(label, routing, candidates[p], candidates[j])
            \/ ~Outranks(label, routing, candidates[j], candidates[p])
        BY <2>4
      <4>2. t > s \/ t = s \/ ~(s > t)
        BY <4>1 DEF Outranks
      <4>3. s \in Int /\ t \in Int
        BY <1>2
      <4> HIDE DEF s, t
      <4> QED BY <4>2, <4>3 DEF s, t
    <3>2. Scores(candidates[p], label) <= best
      BY <1>1, <1>2
    <3> HIDE DEF best
    <3> QED BY <1>1, <1>2, <2>1, <2>2, <3>1, <3>2
  <2> QED BY <2>3, <2>4
<1> HIDE DEF R, a, winners, W, tie
<1>8. /\ DOMAIN winners = 1..Len(winners) /\ Len(winners) \in Nat
      /\ \A k \in DOMAIN winners :
           a[k] \in D /\ a[k] \in Int /\ winners[k] = candidates[a[k]]
      /\ \A k \in DOMAIN winners : Scores(winners[k], label) = best
      /\ \A k, l \in DOMAIN winners : k < l => a[k] < a[l]
      /\ \A i \in D : Scores(candidates[i], label) = best => \E k \in DOMAIN winners : a[k] = i
  <2>1. DOMAIN winners = 1..Len(winners) /\ Len(winners) \in Nat
    BY <1>4
  <2>2. /\ a \in [DOMAIN winners -> PlacesOf(candidates, W)]
        /\ \A k \in DOMAIN winners : winners[k] = candidates[a[k]]
        /\ \A k, l \in DOMAIN winners : k < l => a[k] < a[l]
        /\ \A i \in PlacesOf(candidates, W) : \E k \in DOMAIN winners : a[k] = i
    BY <1>4 DEF IsFilterOf
  <2>3. \A i : i \in PlacesOf(candidates, W) <=> i \in D /\ Scores(candidates[i], label) = best
    BY <1>2 DEF PlacesOf, W
  <2> HIDE DEF D, best
  <2>4. \A k \in DOMAIN winners : a[k] \in PlacesOf(candidates, W)
    BY <2>2
  <2>5. \A k \in DOMAIN winners :
          /\ a[k] \in D /\ a[k] \in Int /\ winners[k] = candidates[a[k]]
          /\ Scores(winners[k], label) = best
    BY <1>3, <2>2, <2>3, <2>4
  <2>6. \A i \in D : Scores(candidates[i], label) = best => \E k \in DOMAIN winners : a[k] = i
    BY <2>2, <2>3
  <2> QED BY <2>1, <2>2, <2>5, <2>6
<1>9. PICK k \in DOMAIN winners : a[k] = p
  BY <1>7, <1>8
<1>10. winners # <<>>
  BY <1>8, <1>9
<1>11. PICK i \in DOMAIN winners :
         /\ StableSort(winners, R)[1] = winners[i]
         /\ \A j \in DOMAIN winners : j # i =>
              \/ <<winners[i], winners[j]>> \in R
              \/ <<winners[j], winners[i]>> \notin R /\ i < j
  BY <1>4, <1>5, <1>10, FirstOfSort
<1>12. ASSUME tie # <<>>, i # k PROVE FALSE
  <2> DEFINE x == Position(winners[i].model, tie)
             y == Position(winners[k].model, tie)
  <2>1. winners[i] \in Range(winners) /\ winners[k] \in Range(winners)
    BY DEF Range
  <2>2. \/ WinsTie(routing, winners[i], winners[k])
        \/ ~WinsTie(routing, winners[k], winners[i]) /\ i < k
    BY <1>5, <1>11, <1>12, <2>1
  <2>3. x < y \/ (~(y < x) /\ i < k)
    BY <1>12, <2>2 DEF WinsTie, BreaksTie, tie
  <2>4. x \in Int /\ y \in Int
    BY <1>2, <1>8
  <2>5. i \in Int /\ k \in Int
    BY <1>8
  <2>6. a[i] # p
    BY <1>8, <1>9, <1>12, <2>5
  <2>7. \/ Outranks(label, routing, winners[k], winners[i])
        \/ ~Outranks(label, routing, winners[i], winners[k]) /\ a[k] < a[i]
    BY <1>8, <1>9, <2>6
  <2>8. y < x \/ (~(x < y) /\ a[k] < a[i])
    <3>1. /\ Scores(winners[i], label) = best /\ Scores(winners[k], label) = best
          /\ ~(best > best)
      BY <1>1, <1>8
    <3> HIDE DEF best
    <3> QED BY <1>12, <2>7, <3>1 DEF Outranks, BreaksTie, tie
  <2>9. a[k] < a[i] => k < i
    BY <1>8, <2>5
  <2> HIDE DEF x, y
  <2> QED BY <2>3, <2>4, <2>5, <2>8, <2>9
<1>13. /\ a[i] \in D /\ StableSort(winners, R)[1] = candidates[a[i]]
       /\ Scores(candidates[a[i]], label) = best
  BY <1>8, <1>11
<1> QED BY <1>6, <1>7, <1>9, <1>12, <1>13 DEF tie

(* One run of the semantic strategy, for any outcome of its rules and any  *)
(* answer of the analyzer.                                                 *)
LEMMA SemanticRunIsSound ==
    ASSUME NEW routing, RoutingOf(routing),
           NEW outcome \in ApplyRuleEngine(FilterEnabled(routing.candidates), routing),
           NEW label \in Answers(outcome)
    PROVE  SoundByScores(routing,
             [label |-> label, passed |-> Range(ModelsOf(outcome.candidates))],
             SelectedModel(label, outcome.candidates, routing),
             OrderCandidatesByLabel(label, outcome.candidates, routing))
<1> DEFINE candidates == outcome.candidates
           basis == [label |-> label, passed |-> Range(ModelsOf(candidates))]
           selected == SelectedModel(label, candidates, routing)
           ordered == OrderCandidatesByLabel(label, candidates, routing)
           names == Dedup(ModelsOf(StableSort(candidates, Ranks(label, routing, candidates))))
           tie == routing.tieBreakOrder
           C == Range(candidates)
           passed == {c \in Range(routing.candidates) : c.enabled /\ c.model \in basis.passed}
           models == {c.model : c \in passed}
           fallback == {routing.fallbackModelName} \ {NoModel}
<1>1. /\ candidates \in Seq(ScoredType) /\ passed = C /\ label \in AnyLabel
      /\ tie \in Seq(STRING)
  <2>1. routing.candidates \in Seq(ScoredType)
    BY DEF RoutingOf
  <2>2. /\ outcome.candidates \in Seq(ScoredType)
        /\ Range(outcome.candidates) =
             {c \in Range(routing.candidates) :
                c.enabled /\ c.model \in Range(ModelsOf(outcome.candidates))}
        /\ Answers(outcome) \subseteq AnyLabel
    BY <2>1, OutcomeIs
  <2> QED BY <2>2 DEF RoutingOf
<1>2. ordered = WithFallback(names, routing)
  BY DEF OrderCandidatesByLabel, Ranks
<1>3. basis.label = label
  OBVIOUS
<1> HIDE DEF candidates, basis, selected, ordered, passed
<1>4. /\ names \in Seq(STRING) /\ IsInjective(names)
      /\ Range(names) = {c.model : c \in C}
      /\ \A i, j \in DOMAIN names : i < j =>
           LET s == Score(names[i], C, label)
               t == Score(names[j], C, label)
           IN  \/ s > t
               \/ s = t /\ Position(names[i], tie) <= Position(names[j], tie)
      /\ \A c \in C : /\ Score(c.model, C, label) \in Int
                      /\ Scores(c, label) <= Score(c.model, C, label)
      /\ candidates # <<>> =>
           \E p \in DOMAIN candidates :
             /\ names # <<>> /\ names[1] = candidates[p].model
             /\ Score(names[1], C, label) = Scores(candidates[p], label)
             /\ \A j \in DOMAIN candidates : j # p =>
                  \/ Outranks(label, routing, candidates[p], candidates[j])
                  \/ /\ ~Outranks(label, routing, candidates[j], candidates[p])
                     /\ p < j
  BY <1>1, RankedIs
<1> HIDE DEF names
<1>5. /\ IsInjective(ordered)
      /\ Range(ordered) = Range(names) \union fallback
      /\ \A m \in fallback \ Range(names) : Last(ordered) = m
      /\ \A i \in DOMAIN names : i \in DOMAIN ordered /\ ordered[i] = names[i]
      /\ \A i \in DOMAIN ordered : ordered[i] \in Range(names) => i \in DOMAIN names
      /\ names = <<>> => ordered = <<>> \/ ordered[1] = routing.fallbackModelName
  BY <1>2, <1>4, WithFallbackIs DEF RoutingOf
<1>6. Range(names) = models
  BY <1>1, <1>4
<1> HIDE DEF models, fallback, C
<1>7. /\ IsInjective(ordered) /\ Range(ordered) = models \union fallback
      /\ \A m \in fallback \ models : Last(ordered) = m
  BY <1>5, <1>6
<1>8. FollowsScores(ordered, passed, label, tie)
  <2> SUFFICES ASSUME NEW i \in DOMAIN ordered, NEW j \in DOMAIN ordered, i < j,
                      {ordered[i], ordered[j]} \subseteq {c.model : c \in passed}
               PROVE  LET s == Score(ordered[i], passed, label)
                          t == Score(ordered[j], passed, label)
                      IN  \/ s > t
                          \/ /\ s = t
                             /\ {ordered[i], ordered[j]} \subseteq Range(tie) =>
                                  Position(ordered[i], tie) <= Position(ordered[j], tie)
    BY DEF FollowsScores
  <2>1. ordered[i] \in Range(names) /\ ordered[j] \in Range(names)
    BY <1>6 DEF models
  <2>2. /\ i \in DOMAIN names /\ j \in DOMAIN names
        /\ ordered[i] = names[i] /\ ordered[j] = names[j]
    BY <1>5, <2>1
  <2> QED BY <1>1, <1>4, <2>2
<1>9. ASSUME ordered # <<>>, ordered[1] # selected
      PROVE  MayDiffer(ordered, passed, label, routing)
  <2> DEFINE best == BestScore(label, candidates)
  <2>1. CASE label = NoLabel
    BY <2>1 DEF MayDiffer
  <2>2. ASSUME label # NoLabel, best < 0 \/ best < routing.minScore
        PROVE  MayDiffer(ordered, passed, label, routing)
    <3>1. \A c \in C : Scores(c, label) <= best /\ Scores(c, label) \in Int
      BY <1>1, BestIs, ScoredIs DEF C
    <3>2. best \in Int /\ routing.minScore \in Int
      BY <1>1, BestIs DEF RoutingOf
    <3> HIDE DEF best
    <3>3. \A c \in C : Scores(c, label) < routing.minScore \/ Scores(c, label) < 0
      BY <2>2, <3>1, <3>2
    <3> QED BY <1>1, <3>3 DEF MayDiffer
  <2>3. ASSUME label # NoLabel, ~(best < 0 \/ best < routing.minScore)
        PROVE  MayDiffer(ordered, passed, label, routing)
    <3>1. /\ best >= 0 /\ best >= routing.minScore /\ best \in Int
          /\ \E c \in C : Scores(c, label) = best
      <4>1. /\ best \in Int /\ routing.minScore \in Int
            /\ best >= 0 => \E c \in C : Scores(c, label) = best
        BY <1>1, BestIs DEF RoutingOf, C
      <4> HIDE DEF best
      <4> QED BY <2>3, <4>1
    <3>2. candidates # <<>>
      <4> SUFFICES ASSUME candidates = <<>> PROVE FALSE
        OBVIOUS
      <4>1. C = {}
        BY DEF C, Range
      <4> QED BY <3>1, <4>1
    <3>3. PICK p \in DOMAIN candidates :
            /\ names # <<>> /\ names[1] = candidates[p].model
            /\ Score(names[1], C, label) = Scores(candidates[p], label)
            /\ \A j \in DOMAIN candidates : j # p =>
                 \/ Outranks(label, routing, candidates[p], candidates[j])
                 \/ /\ ~Outranks(label, routing, candidates[j], candidates[p])
                    /\ p < j
      BY <1>4, <3>2
    <3>4. PICK q \in DOMAIN candidates :
            /\ SelectByLabel(label, candidates, routing) = candidates[q].model
            /\ Scores(candidates[p], label) = best
            /\ Scores(candidates[q], label) = best
            /\ tie # <<>> => q = p
      BY <1>1, <3>1, <3>3, WinnerIs
    <3>5. 1 \in DOMAIN names /\ 1 \in DOMAIN ordered /\ ordered[1] = names[1]
      <4>1. 1 \in DOMAIN names
        BY <1>4, <3>3
      <4> QED BY <1>5, <4>1
    <3>6. selected = candidates[q].model
      BY <2>3, <3>4 DEF selected, SelectedModel
    <3>7. tie = <<>>
      BY <1>9, <3>3, <3>4, <3>5, <3>6
    <3> DEFINE c == candidates[q]
    <3>8. c \in C /\ c.model # ordered[1]
      BY <1>9, <3>6 DEF C, Range
    <3>9. Score(c.model, C, label) = Score(ordered[1], C, label)
      <4>1. PICK j \in DOMAIN names : names[j] = c.model
        BY <1>4, <3>8 DEF Range
      <4>2. j \in Int /\ 1 < j
        BY <1>4, <3>5, <3>8, <4>1
      <4> DEFINE s == Score(names[1], C, label)
                 t == Score(names[j], C, label)
      <4>3. s > t \/ s = t
        BY <1>4, <3>5, <4>2
      <4>4. t \in Int /\ best <= t
        BY <1>4, <3>4, <3>8, <4>1
      <4>5. s = best
        BY <3>3, <3>4
      <4> HIDE DEF s, t, best
      <4>6. s = t
        BY <3>1, <4>3, <4>4, <4>5
      <4> QED BY <3>5, <4>1, <4>6 DEF s, t
    <3> HIDE DEF c
    <3> QED BY <1>1, <3>7, <3>8, <3>9 DEF MayDiffer
  <2> QED BY <2>1, <2>2, <2>3
<1> QED BY <1>3, <1>7, <1>8, <1>9 DEF SoundByScores, models, fallback, passed, selected, ordered, basis, candidates, tie

(* A route by labels is sound, whatever the state around it is. *)
SoundLabelled(x) ==
    x.by # None /\ IsSemantic(x.by) =>
        SoundByScores(Table[x.by].routing, x.basis, x.selected, x.ordered)

SemanticInv == DOMAIN route = Requests /\ \A r \in Requests : SoundLabelled(route[r])

(* The routing of every configuration has the fields that the lemmas need. *)
LEMMA RoutingType == ASSUME NEW c \in Configs PROVE RoutingOf(Table[c].routing)
<1>1. Table[c] \in ConfigType
  BY RouterAssumption
<1>2. Table[c].routing \in
        [candidates : Seq([model : STRING, enabled : BOOLEAN, scores : [Labels -> Int]]),
         minScore : Int, tieBreakOrder : Seq(STRING),
         fallbackModelName : STRING \union {NoModel}, ruled : BOOLEAN]
  BY <1>1 DEF ConfigType
<1> QED BY <1>2 DEF RoutingOf, ScoredType

LEMMA InitSemantic == Init => SemanticInv
BY DEF Init, SemanticInv, SoundLabelled, NoRoute

(* A run of the semantic strategy makes a sound route. *)
LEMMA RunLabels ==
    ASSUME ObjectInv, SemanticInv, NEW r \in Requests, RunSemantic(r)
    PROVE  SemanticInv'
<1> DEFINE c == config[runner[r]]
           routing == Table[c].routing
<1>1. pc[r] = "run"
  BY DEF RunSemantic
<1>2. c \in Configs
  BY <1>1, RunnerIsMade
<1>3. PICK run \in Labelled[c] : Returns(r, run.basis, run.selected, run.ordered)
  BY DEF RunSemantic
<1> HIDE DEF c
<1>4. PICK outcome \in ApplyRuleEngine(FilterEnabled(routing.candidates), routing) :
        \E label \in Answers(outcome) : run =
          [basis    |-> [label |-> label, passed |-> Range(ModelsOf(outcome.candidates))],
           selected |-> SelectedModel(label, outcome.candidates, routing),
           ordered  |-> OrderCandidatesByLabel(label, outcome.candidates, routing)]
  BY <1>2, <1>3 DEF Labelled
<1>4a. PICK label \in Answers(outcome) :
        run = [basis    |-> [label |-> label, passed |-> Range(ModelsOf(outcome.candidates))],
               selected |-> SelectedModel(label, outcome.candidates, routing),
               ordered  |-> OrderCandidatesByLabel(label, outcome.candidates, routing)]
  BY <1>4
<1>5. RoutingOf(routing)
  BY <1>2, RoutingType
<1> DEFINE x == [by |-> c, basis |-> run.basis, selected |-> run.selected,
                 ordered |-> run.ordered]
<1>6. SoundByScores(routing, run.basis, run.selected, run.ordered)
  <2> HIDE DEF routing
  <2>1. SoundByScores(routing,
          [label |-> label, passed |-> Range(ModelsOf(outcome.candidates))],
          SelectedModel(label, outcome.candidates, routing),
          OrderCandidatesByLabel(label, outcome.candidates, routing))
    BY <1>5, SemanticRunIsSound
  <2> QED BY <1>4a, <2>1
<1>7. route' = [route EXCEPT ![r] = x]
  BY <1>3 DEF Returns, c
<1>8. SoundLabelled(x)
  BY <1>6 DEF SoundLabelled
<1> HIDE DEF x
<1> QED BY <1>7, <1>8 DEF SemanticInv, SoundLabelled, IsSemantic

LEMMA StepSemantic == ObjectInv /\ SemanticInv /\ [Next]_vars => SemanticInv'
<1> SUFFICES ASSUME ObjectInv, SemanticInv, [Next]_vars PROVE SemanticInv'
  OBVIOUS
<1>0. ASSUME UNCHANGED route PROVE SemanticInv'
  BY <1>0 DEF SemanticInv, SoundLabelled, IsSemantic
<1>1. CASE UNCHANGED vars
  BY <1>1, <1>0 DEF vars
<1>2. ASSUME NEW c \in Configs, AssignRouter(c) PROVE SemanticInv'
  BY <1>2, <1>0 DEF AssignRouter
<1>3. CASE ApplyDefaults \/ ClearCache
  BY <1>3, <1>0 DEF ApplyDefaults, ClearCache
<1>4. ASSUME NEW r \in Requests,
             \/ Begin(r) \/ Lookup(r) \/ Create(r) \/ CreateFails(r) \/ Store(r)
             \/ ReadTimeout(r) \/ End(r)
      PROVE  SemanticInv'
  BY <1>4, <1>0 DEF Begin, Lookup, Create, CreateFails, Store, ReadTimeout, End
<1>5. ASSUME NEW r \in Requests, NEW u \in Users, RunPriority(r, u) PROVE SemanticInv'
  <2>1. ~IsSemantic(config[runner[r]])
    BY <1>5 DEF RunPriority
  <2>2. PICK b, s, l : Returns(r, b, s, l)
    BY <1>5 DEF RunPriority
  <2> DEFINE x == [by |-> config[runner[r]], basis |-> b, selected |-> s, ordered |-> l]
  <2>3. route' = [route EXCEPT ![r] = x]
    BY <2>2 DEF Returns
  <2>4. SoundLabelled(x)
    BY <2>1 DEF SoundLabelled
  <2> HIDE DEF x
  <2> QED BY <2>3, <2>4 DEF SemanticInv, SoundLabelled, IsSemantic
<1>6. ASSUME NEW r \in Requests, NEW u \in Users, NoneVisible(r, u) PROVE SemanticInv'
  BY <1>6, <1>0 DEF NoneVisible
<1>7. ASSUME NEW r \in Requests, RunSemantic(r) PROVE SemanticInv'
  BY <1>7, RunLabels
<1>8. ASSUME NEW r \in Requests, ReadStrategy(r) PROVE SemanticInv'
  <2>1. route' = [route EXCEPT ![r] = NoRoute] /\ NoRoute.by = None
    BY <1>8 DEF ReadStrategy, NoRoute
  <2> QED BY <2>1 DEF SemanticInv, SoundLabelled, IsSemantic
<1> QED BY <1>1, <1>2, <1>3, <1>4, <1>5, <1>6, <1>7, <1>8 DEF Next

(* With the semantic strategy every request gets, whatever the rules let   *)
(* pass and whatever the analyzer answers, the candidates that passed,     *)
(* once each and by score and tie, and after them the fallback; and the    *)
(* model that the client is told of is the one that is called first, but   *)
(* in the three cases that the property names.                             *)
THEOREM SemanticRoutesAreSound == Spec => []SemanticRouteIsSound
<1>1. SemanticInv => SemanticRouteIsSound
  BY DEF SemanticInv, SemanticRouteIsSound, SoundLabelled
<1> QED BY InitSemantic, StepSemantic, ObjectInvariance, <1>1, PTL DEF Spec
==============================================================================
