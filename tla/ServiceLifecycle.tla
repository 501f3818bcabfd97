--------------------------- MODULE ServiceLifecycle ---------------------------
(***************************************************************************)
(* The life of a chat-rag process: the initialisers, the configurations    *)
(* that Nacos publishes and replaces, the requests that read them, and the *)
(* shutdown.  internal/bootstrap/service_context.go and                    *)
(* nacos_config_manager.go, internal/config/config_watcher.go and          *)
(* nacos_loader.go, main.go.                                               *)
(*                                                                         *)
(* Updates run in callbacks of the Nacos SDK and hold svc.mu only while    *)
(* they assign: callbacks of one configuration that run at the same time   *)
(* can overtake each other, and an older content be assigned after a newer *)
(* one.  Requests read the fields of the service context without the lock, *)
(* at several moments of their life.  The SDK is external: it is taken to  *)
(* call back with what differs from the content it gave out last, to skip  *)
(* contents that were replaced before it looked, and not to wait for its   *)
(* earlier callbacks to return.                                            *)
(***************************************************************************)
EXTENDS Integers, Sequences

CONSTANTS
    Configs,   \* the configurations loaded, a set of data ids
    Contents,  \* Contents[d]: what is published as d
    Broken,    \* contents that are no YAML of the configuration's type
    Keyless,   \* voucher activities without a signing key
    Disabled,  \* voucher activities that are switched off
    StorageType, \* log.storageType
    Requests,    \* bound
    MaxChanges,  \* bound: contents replaced in Nacos
    None

Tools == "tools_prompt"
Activities == "voucher_activity"

(* getNacosConfigMetadata *)
DataIds == <<"agent_rules", Tools, "precise_context", "model_router", Activities>>

ASSUME LifecycleAssumption ==
    /\ {Tools, Activities} \subseteq Configs /\ Configs \subseteq {DataIds[i] : i \in DOMAIN DataIds}
    /\ \A d \in Configs : None \notin Contents[d]
    /\ Keyless \union Disabled \subseteq Contents[Activities]

VARIABLES
    server,     \* server[d]: what Nacos publishes
    seen,       \* seen[d]: what the SDK has given out last
    changes,    \* contents replaced so far
    phase,      \* what the main goroutine does
    step,       \* the initialiser, or the step of a shutdown, that it comes to
    open,       \* what has been started and not stopped
    timedOut,   \* Stop returned before its last step
    listening,  \* the configurations with a listener
    calls,      \* callbacks that have parsed a content and have still to assign it
    overtaken,  \* history: the configurations of which a newer content was
                \* assigned before an older one
    held,       \* held[d]: the configuration in svc.Config
    executor,   \* the configuration that svc.ToolExecutor was made from
    key,        \* the activities whose key svc.VoucherService signs with
    signer,     \* an update is between its two assignments, with svc.mu locked
    pc,         \* pc[r]: what the request r reads next
    saw,        \* saw[r]: what it has read
    overlapped  \* history: overlapped[d], the requests that an update of d came amidst

nacos == <<server, changes>>
process == <<phase, step, open, timedOut>>
callbacks == <<seen, listening, calls, overtaken>>
service == <<held, executor, key, signer>>
requests == <<pc, saw, overlapped>>
vars == <<nacos, process, callbacks, service, requests>>

Components == {"storage", "logger", "redis", "nacos"}

Initializers ==
    <<"token counter", "metrics", "storage", "logger", "redis", "nacos",
      "voucher", "tool executor", "router strategy", "watching">>
CleanupWithoutRedis == <<"storage", "logger", "nacos">>
CleanupSteps == <<"storage", "logger", "redis", "nacos">>
ShutdownSteps == <<"logger", "storage", "nacos", "redis">>

Reads == {"enabled", "activity", "key", "detects", "switch", "describes", "obeys"}

Nothing == [x \in Reads |-> None]

Init ==
    /\ server \in [Configs -> UNION {Contents[d] : d \in Configs}]
    /\ \A d \in Configs : server[d] \in Contents[d]
    /\ changes = 0
    /\ phase = "starting" /\ step = 1 /\ open = {} /\ timedOut = FALSE
    /\ seen = [d \in Configs |-> None]
    /\ listening = {} /\ calls = {} /\ overtaken = {}
    /\ held = [d \in Configs |-> None]
    /\ executor = None /\ key = None /\ signer = FALSE
    /\ pc = [r \in Requests |-> "idle"]
    /\ saw = [r \in Requests |-> Nothing]
    /\ overlapped = [d \in {Tools, Activities} |-> {}]

Parses(content) == content \notin Broken

Serving == phase \in {"serving", "stopping", "stopped"}
Ended == phase \in {"panicked", "crashed", "exited"}

-----------------------------------------------------------------------------
(* Start.  Any error ends in cleanupOnError and a panic, but for one:      *)
(* InitializeNacosConfig itself panics when it cannot load.                *)

At(initializer) == phase = "starting" /\ Initializers[step] = initializer

Succeeds == step' = step + 1 /\ UNCHANGED <<phase, timedOut>>

Fails ==
    /\ phase' = "cleanup" /\ step' = 1
    /\ UNCHANGED <<open, timedOut, callbacks, service>>

Opens(components) ==
    /\ Succeeds
    /\ open' = open \union components
    /\ UNCHANGED <<callbacks, service>>

InitializeStateless ==
    /\ At("token counter") \/ At("metrics") \/ At("router strategy")
    /\ \/ Succeeds /\ UNCHANGED <<open, callbacks, service>>
       \/ At("token counter") /\ Fails

(* An unknown type, or S3 out of reach, is an error. *)
InitializeStorage ==
    /\ At("storage")
    /\ Opens(IF StorageType = "none" THEN {} ELSE {"storage"}) \/ Fails

InitializeLoggerService == At("logger") /\ Opens({"logger"})

(* A connection that fails is made again by the first command. *)
InitializeRedisClient == At("redis") /\ Opens({"redis"})

NewNacosConfigManager ==
    /\ At("nacos") /\ "nacos" \notin open
    /\ \/ /\ open' = open \union {"nacos"}
          /\ UNCHANGED <<phase, step, timedOut, callbacks, service>>
       \/ Fails

Missing == {d \in Configs : held[d] = None}

IsNext(d) ==
    \E i \in DOMAIN DataIds : DataIds[i] = d /\ \A j \in 1..(i - 1) : DataIds[j] \notin Missing

(* LoadConfig of each configuration in turn.  The results are assigned     *)
(* together at the end; nothing reads them before.                         *)
LoadConfig(d) ==
    /\ At("nacos") /\ "nacos" \in open
    /\ d \in Missing /\ IsNext(d)
    /\ \/ /\ Parses(server[d])
          /\ held' = [held EXCEPT ![d] = server[d]]
          /\ seen' = [seen EXCEPT ![d] = server[d]]
          /\ step' = IF Missing = {d} THEN step + 1 ELSE step
          /\ UNCHANGED <<phase, open, timedOut, listening, calls, overtaken, executor, key, signer>>
       \/ /\ phase' = "crashed"
          /\ UNCHANGED <<step, open, timedOut, callbacks, service>>

InitializeVoucherService ==
    /\ At("voucher")
    /\ IF held[Activities] \in Keyless
       THEN Fails
       ELSE /\ Succeeds
            /\ key' = held[Activities]
            /\ UNCHANGED <<open, callbacks, held, executor, signer>>

InitializeToolExecutor ==
    /\ At("tool executor") /\ Succeeds
    /\ executor' = held[Tools]
    /\ UNCHANGED <<open, callbacks, held, key, signer>>

(* StartWatching listens for one configuration after the other, in the     *)
(* order of a Go map.                                                      *)
ListenConfig(d) ==
    /\ At("watching") /\ d \notin listening
    /\ \/ /\ listening' = listening \union {d}
          /\ phase' = IF listening' = Configs THEN "serving" ELSE phase
          /\ UNCHANGED <<step, open, timedOut, seen, calls, overtaken, service>>
       \/ Fails

Initialize ==
    /\ \/ InitializeStateless \/ InitializeStorage \/ InitializeLoggerService
       \/ InitializeRedisClient \/ NewNacosConfigManager
       \/ InitializeVoucherService \/ InitializeToolExecutor
       \/ \E d \in Configs : LoadConfig(d) \/ ListenConfig(d)
    /\ UNCHANGED <<nacos, requests>>

-----------------------------------------------------------------------------
(* The end.                                                                *)

CleanupOnError ==
    /\ phase = "cleanup"
    /\ open' = open \ {CleanupSteps[step]}
    /\ IF step < Len(CleanupSteps)
       THEN step' = step + 1 /\ UNCHANGED phase
       ELSE phase' = "panicked" /\ UNCHANGED step
    /\ UNCHANGED <<timedOut, nacos, callbacks, service, requests>>

(* ListenAndServe fails and its goroutine panics. *)
ServerCrash ==
    /\ phase = "serving"
    /\ phase' = "crashed"
    /\ UNCHANGED <<step, open, timedOut, nacos, callbacks, service, requests>>

(* main.go: a signal *)
Signal ==
    /\ phase = "serving"
    /\ phase' = "stopping" /\ step' = 1
    /\ UNCHANGED <<open, timedOut, nacos, callbacks, service, requests>>

(* The thirty seconds are looked at before each step, and none are over    *)
(* before the first.  Close of the Nacos loader leaves the listeners.      *)
ShutdownStep ==
    /\ phase = "stopping"
    /\ open' = open \ {ShutdownSteps[step]}
    /\ IF step < Len(ShutdownSteps)
       THEN step' = step + 1 /\ UNCHANGED phase
       ELSE phase' = "stopped" /\ UNCHANGED step
    /\ UNCHANGED <<timedOut, nacos, callbacks, service, requests>>

ShutdownTimeout ==
    /\ phase = "stopping" /\ step > 1
    /\ phase' = "stopped" /\ timedOut' = TRUE
    /\ UNCHANGED <<step, open, nacos, callbacks, service, requests>>

(* server.Shutdown returns, its requests done or its time over. *)
Exit ==
    /\ phase = "stopped"
    /\ phase' = "exited"
    /\ UNCHANGED <<step, open, timedOut, nacos, callbacks, service, requests>>

-----------------------------------------------------------------------------
(* Updates.                                                                *)

Publish(d) ==
    /\ changes < MaxChanges /\ ~Ended
    /\ changes' = changes + 1
    /\ \E content \in Contents[d] \ {server[d]} : server' = [server EXCEPT ![d] = content]
    /\ UNCHANGED <<process, callbacks, service, requests>>

Pending(d) == {c \in calls : c.of = d}

(* The handler's own copy, configPtr, is only asked for its type. *)
CallsBack(d) == calls' = calls \union {[of |-> d, with |-> server[d], at |-> changes]}

OnChangeWhenServing(d) ==
    /\ d \in listening /\ ~Ended
    /\ server[d] # seen[d]
    /\ seen' = [seen EXCEPT ![d] = server[d]]
    /\ IF Parses(server[d]) /\ Serving THEN CallsBack(d) ELSE UNCHANGED calls
    /\ UNCHANGED <<nacos, process, listening, overtaken, service, requests>>

(* The SDK calls back; OnChange leaves everything as it is when the        *)
(* content does not parse.                                                 *)
OnChange(d) ==
    /\ d \in listening /\ ~Ended
    /\ server[d] # seen[d]
    /\ seen' = [seen EXCEPT ![d] = server[d]]
    /\ IF Parses(server[d]) THEN CallsBack(d) ELSE UNCHANGED calls
    /\ UNCHANGED <<nacos, process, listening, overtaken, service, requests>>

(* The requests that have read of d and may read of it again *)
Amidst(d) ==
    {r \in Requests : pc[r] \in IF d = Tools THEN {"copy", "executor", "stream"}
                                            ELSE {"match", "sign"}}

Overlaps(d) == overlapped' = [overlapped EXCEPT ![d] = @ \union Amidst(d)]

(* The callback c gets svc.mu, and assigns its own content. *)
UpdateFunc(c) ==
    /\ ~signer /\ ~Ended
    /\ calls' = calls \ {c}
    /\ overtaken' = IF \E older \in Pending(c.of) : older.at < c.at
                    THEN overtaken \union {c.of} ELSE overtaken
    /\ UNCHANGED <<nacos, process, seen, listening, pc, saw>>

(* updateRulesConfig, updatePreciseContextConfig and updateRouterConfig *)
UpdateConfig(d) ==
    /\ d \notin {Tools, Activities}
    /\ \E c \in Pending(d) : UpdateFunc(c) /\ held' = [held EXCEPT ![d] = c.with]
    /\ UNCHANGED <<executor, key, signer, overlapped>>

(* svc.Config.Tools stays as it was loaded. *)
UpdateToolExecutor ==
    /\ \E c \in Pending(Tools) : UpdateFunc(c) /\ executor' = c.with
    /\ Overlaps(Tools)
    /\ UNCHANGED <<held, key, signer>>

UpdateVoucherActivityConfig ==
    /\ \E c \in Pending(Activities) : UpdateFunc(c) /\ held' = [held EXCEPT ![Activities] = c.with]
    /\ signer' = TRUE
    /\ Overlaps(Activities)
    /\ UNCHANGED <<executor, key>>

ReplaceVoucherServiceOnce ==
    /\ signer /\ ~Ended
    /\ key' = IF key # None THEN key ELSE held[Activities]
    /\ signer' = FALSE
    /\ Overlaps(Activities)
    /\ UNCHANGED <<nacos, process, callbacks, held, executor, pc, saw>>

ReplaceVoucherServiceAnyway ==
    /\ signer /\ ~Ended
    /\ key' = held[Activities]
    /\ signer' = FALSE
    /\ Overlaps(Activities)
    /\ UNCHANGED <<nacos, process, callbacks, held, executor, pc, saw>>

(* The error of initializeVoucherService is dropped. *)
ReplaceVoucherService ==
    /\ signer /\ ~Ended
    /\ key' = IF held[Activities] \in Keyless THEN key ELSE held[Activities]
    /\ signer' = FALSE
    /\ Overlaps(Activities)
    /\ UNCHANGED <<nacos, process, callbacks, held, executor, pc, saw>>

-----------------------------------------------------------------------------
(* What requests read, each field at its own moment.  What a message that  *)
(* goes on to the model has read of the activities is dropped.             *)

ReadField(r, from, what, content, to) ==
    /\ Serving /\ pc[r] = from
    /\ saw' = [saw EXCEPT ![r] = IF to = "chat" THEN Nothing ELSE [@ EXCEPT ![what] = content]]
    /\ pc' = [pc EXCEPT ![r] = to]
    /\ UNCHANGED <<nacos, process, callbacks, service>>

(* VoucherActivityMiddleware: the activities are read again after the      *)
(* switch.  A message that matches none goes on to the model, and one that *)
(* matches may be answered without a voucher.                              *)
CheckEnabled(r) ==
    /\ ReadField(r, "idle", "enabled", held[Activities],
                 IF held[Activities] \in Disabled THEN "chat" ELSE "match")
    /\ overlapped' = IF signer THEN [overlapped EXCEPT ![Activities] = @ \union {r}]
                              ELSE overlapped

MatchActivity(r) ==
    /\ \E to \in {"sign", "done", "chat"} : ReadField(r, "match", "activity", held[Activities], to)
    /\ UNCHANGED overlapped

GenerateVoucher(r) ==
    /\ ReadField(r, "sign", "key", key, "done")
    /\ UNCHANGED overlapped

(* The executor that will detect and run tools in the answer *)
NewChatCompletionLogic(r) ==
    /\ ReadField(r, "chat", "detects", executor, "copy")
    /\ UNCHANGED overlapped

(* The processor copies svc.Config and then svc.ToolExecutor, whose tools  *)
(* the prompt will describe.                                               *)
CopyConfig(r) ==
    /\ ReadField(r, "copy", "switch", held[Tools], "executor")
    /\ UNCHANGED overlapped

CopyToolExecutor(r) ==
    /\ ReadField(r, "executor", "describes", executor, "stream")
    /\ UNCHANGED overlapped

(* DisableTools, read with each chunk; the model keeps the last reading. *)
HandleStreamChunk(r) ==
    /\ ReadField(r, "stream", "obeys", held[Tools], "done")
    /\ UNCHANGED overlapped

Request(r) ==
    \/ CheckEnabled(r) \/ MatchActivity(r) \/ GenerateVoucher(r)
    \/ NewChatCompletionLogic(r) \/ CopyConfig(r) \/ CopyToolExecutor(r) \/ HandleStreamChunk(r)

-----------------------------------------------------------------------------
Update ==
    \/ \E d \in Configs : OnChange(d) \/ UpdateConfig(d)
    \/ UpdateToolExecutor \/ UpdateVoucherActivityConfig \/ ReplaceVoucherService

Next ==
    \/ Initialize
    \/ CleanupOnError
    \/ ServerCrash \/ Signal \/ ShutdownStep \/ ShutdownTimeout \/ Exit
    \/ \E d \in Configs : Publish(d)
    \/ Update
    \/ \E r \in Requests : Request(r)

(* Neither the main goroutine nor a callback waits for anything but        *)
(* svc.mu, which is held for two assignments; the SDK goes on polling.     *)
Fairness ==
    /\ WF_vars(Initialize)
    /\ \A d \in Configs : WF_vars(OnChange(d)) /\ WF_vars(UpdateConfig(d))
    /\ WF_vars(UpdateToolExecutor)
    /\ WF_vars(UpdateVoucherActivityConfig)
    /\ WF_vars(ReplaceVoucherService)

Spec == Init /\ [][Next]_vars /\ Fairness

-----------------------------------------------------------------------------
Versions == (UNION {Contents[d] : d \in Configs}) \union {None}

TypeOK ==
    /\ {seen, held} \subseteq [Configs -> Versions]
    /\ \A d \in Configs : held[d] \in (Contents[d] \ Broken) \union {None}
    /\ {executor, key} \subseteq Versions
    /\ key \notin Keyless
    /\ open \subseteq Components
    /\ overtaken \subseteq listening /\ listening \subseteq Configs
    /\ \A c \in calls : c.of \in listening /\ c.with \in Contents[c.of] \ Broken
    /\ signer \in BOOLEAN
    /\ saw \in [Requests -> [Reads -> Versions]]
    /\ overlapped \in [{Tools, Activities} -> SUBSET Requests]

(* A request may come to work with two configurations: the prompt          *)
(* describes the tools of one and the answer is searched for those of      *)
(* another, an activity that is switched off is redeemed, or a voucher is  *)
(* signed with the key of other activities.  It only does when an update   *)
(* overlapped it, or when the activities came without a key of their own.  *)
MixExplained ==
    /\ \A r \in Requests \ overlapped[Tools] :
        saw[r]["describes"] # None => saw[r]["describes"] = saw[r]["detects"]
    /\ \A r \in Requests \ overlapped[Activities] :
        /\ saw[r]["activity"] # None => saw[r]["activity"] = saw[r]["enabled"]
        /\ saw[r]["key"] # None => \/ saw[r]["key"] = saw[r]["activity"]
                                   \/ saw[r]["activity"] \in Keyless

(* A process that serves has everything it needs.  One that gives up at    *)
(* its start has stopped what it had started, and one that was told to     *)
(* stop has stopped everything, unless the thirty seconds were over; only  *)
(* the panics of the load from Nacos and of the HTTP server stop nothing.  *)
(* The storage is closed under the logger only before there are requests   *)
(* to log.                                                                 *)
WholeOrNothing ==
    /\ phase = "serving" =>
        /\ {"logger", "redis", "nacos"} \subseteq open
        /\ listening = Configs
        /\ None \notin {held[d] : d \in Configs} \union {executor, key}
    /\ phase = "panicked" => open = {}
    /\ phase \in {"stopped", "exited"} => open = {} \/ timedOut
    /\ Serving /\ StorageType # "none" /\ "logger" \in open => "storage" \in open

(* Of the tools configuration only the executor follows; what requests     *)
(* read of it in svc.Config stays as it was loaded (ToolSwitchIsObeyed).   *)
InForce(d) ==
    CASE d = Tools -> executor = server[d]
      [] d = Activities -> held[d] = server[d] /\ (key = held[d] \/ held[d] \in Keyless)
      [] OTHER -> held[d] = server[d]

(* What Nacos publishes comes into force without a restart, the executor   *)
(* standing for the tools configuration, whatever was published before: a  *)
(* content that does not parse, one replaced during the load, before there *)
(* was a listener or while a callback ran.  The exception is a             *)
(* configuration of which a newer content was assigned before an older     *)
(* one, which nothing in the handler prevents and nothing makes good until *)
(* Nacos publishes again.  As changes come to an end, the service is in    *)
(* step with Nacos again and again.                                        *)
Converges ==
    []<>(phase = "serving" =>
            \A d \in Configs \ overtaken : Parses(server[d]) => InForce(d))

(* DisableTools is a "global switch" (internal/config/config.go:61) and    *)
(* tools_prompt one of the configurations that are updated as they change: *)
(* a chat that no update overlapped obeys the switch of the configuration  *)
(* that its tools come from.                                               *)
ToolSwitchIsObeyed ==
    \A r \in Requests \ overlapped[Tools] :
        saw[r]["obeys"] # None => saw[r]["obeys"] = saw[r]["detects"]
=============================================================================
