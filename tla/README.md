# chat-rag in TLA+

chat-rag is a Go gateway between AI coding clients and LLM services: it takes
an OpenAI-style chat completion, processes the prompt, picks a model when the
request says `auto`, calls the model with retries and switches, passes the
answer on, and logs it. This directory holds TLA+ modules of its concurrent and
failure-handling parts, TLC configurations that check them on small instances,
and proofs that TLAPS checks for every value of the constants. `PROJECT.json`
lists runs, theorems, hazards and the source lines that each definition models.

Paths below are relative to `src/`.

## The system

| Component | State it keeps | Operations | Who it talks to |
|---|---|---|---|
| Idle timer, `internal/timeout/idle.go` | budget of the request; per attempt a runtime timer, generation, reason, flags | NewIdleTimer, Reset, SetFirstTokenReceived, Stop, IsTimedOut, Reason; a watch goroutine | called by the LLM client and the completion logic; cancels the attempt's context |
| Streaming completion, `internal/logic/chat.go` | attempt counters, streamCommitted, window, degradation trace | ChatCompletionStream and what it calls | LLM client, idle timer, client connection, tools |
| Non-streaming completion, `internal/logic/chat.go` | attempt counters, trace | ChatCompletion, callModelWithRetry, callWithDegradation | the same |
| LLM client, `internal/client/llm.go` | chunk statistics | a streaming and a plain call, error naming | upstream HTTP |
| Auto routing, `internal/router/` | round-robin weights per group and set of visible models; cached strategy | Run; selection, ordering, fallback; rules and scores | configuration, LLM (analyzer), Redis (dynamic metrics) |
| Request log, `internal/service/log_record.go` | log channel, sampler counters | LogAsync, logWriter, Start, Stop | completion logic, metrics, storage, department API |
| Service context, `internal/bootstrap/`, with Nacos, `internal/config/` | configuration, services, strategy cache, listeners | initialisers, Nacos load and updates, Stop | everything |
| Voucher activity, `internal/api/middleware/voucher_activity.go` | a Redis hash per activity | redemption, query | Redis |
| Prompt flow, `internal/promptflow/` | none across requests, but each request brings its conversation again | processors in a chain | tokenizer, tools |
| Tools, forward proxy, storage, metrics, tokenizer | none that matters across requests | calls | HTTP services |

The hard behaviours are these. A request's goroutine, the watch goroutines of
its attempts, the runtime timer and the client's connection interleave freely,
and a cancelled context has several possible causes that the code tells apart
afterwards. Attempts share a budget that a slow attempt can use up. Once a
token has gone out, nothing may be retried. The logger is a bounded queue with
an inline overflow path, and it is shut down while requests still end. The
configuration changes under running requests, which read it at several
moments. Redemption is check-then-act on Redis. A message that is the last of
a conversation in one turn is an older one in the next and passes through
other processors.

What makes each correct: one reply comes from one attempt; retries and switches
are bounded, ordered, and happen for the errors they should; a timeout is
reported as one and is charged once, to the attempt it belongs to; a silent
upstream cannot hold a request, nor an attempt leak a goroutine; each log is
counted at most once and none that was accepted before the stop is lost; the round robin gives each
model its share, and nobody a model that is not theirs; a user gets one
voucher; the model sees what the client said; the service follows Nacos, and
starts and stops as a whole.

## Modules

| Module | Models | Runs |
|---|---|---|
| `IdleGuard` | what the idle timer promises: one budget, a row of attempts, a charge and its verdict in one step | as the property `ImplementsGuard` |
| `IdleTimer` | `idle.go` with its locks, generations and watch goroutine | `idle_timer`, `idle_stale_expiry` |
| `RetryPolicy` | the two error predicates and the errors the LLM client makes | through `StreamRetry` |
| `StreamRetry` | a request, streamed or plain, from the list of models to the end of the reply, on top of `IdleGuard` | `stream_retry`, `stream_fallback` |
| `Lists` | filtering and stable sorting of lists | through `AutoRouter` |
| `Candidates` | what the two routing strategies share | through `AutoRouter` |
| `PriorityStrategy` | the pure part of `strategies/priority`: visibility, groups, weighted picks, the ordered list, the fallback | through `AutoRouter` |
| `SemanticStrategy` | the pure part of `strategies/semantic`: what the rules may leave, the scores, ties and fallback | through `AutoRouter` |
| `AutoRouter`, `MCAutoRouter` | requests that are routed by a cached strategy while Nacos changes the configuration | `auto_router` |
| `LogService` | the request log, the error sampler and the order of the shutdown | `log_service`, `log_graceful_shutdown` |
| `Voucher`, `MCVoucher` | redemption and query over Redis commands that may fail, with crashes, expiry and changes of the activity | `voucher` |
| `PromptFlow`, `MCPromptFlow` | from the messages to the prompt, through every processor, over the turns of a conversation | `prompt_flow`, `prompt_first_message` |
| `ServiceLifecycle`, `MCServiceLifecycle` | initialisers, clean-up, Nacos load and watch, updates under requests, shutdown | `service_lifecycle`, `tools_switch` |
| `IdleTimerProofs`, `StreamRetryProofs`, `LogServiceProofs`, `AutoRouterProofs`, `VoucherProofs`, `PromptFlowProofs`, `ServiceLifecycleProofs` | theorems about these modules | (TLAPS) |
| `ListsProofs` | lemmas about `Lists`, sums and finite sets that the others cite | (TLAPS) |

`StreamRetry` composes with `IdleTimer` by way of `IdleGuard`: its calls take
the guard's steps (`Open`, `Progress`, `LogIdle`, `Abort`, `Close`), and
`IdleTimer` is shown, by TLC and by proof, to take no others. `AutoRouter`
composes the two strategies with the cache and the update of the configuration.
`LogService` models the shutdown as the logger and the requests see it,
`ServiceLifecycle` as the order of all components.

### IdleTimer

One action is what one goroutine does under `it.mu`. `handleTimeout` reads the
first-token flag under a second mutex, so it is two steps (`ChargeTimeout`,
`CancelTimeout`) between which no step that needs `it.mu` is enabled
(`MuHeld`). The receive from `timer.C` and the capture of the generation are
two steps too (`WatchReceive`, `WatchCapture`), as in `watch`. Time is abstract:
an armed timer may fire at any moment. `go.mod` asks for Go 1.24, whose timers
leave no old value in the channel after Stop or Reset; the drains in `Reset`
and `Stop` are therefore not modelled.

History: `firedIn`, the generation at which the watcher took an expiry.

### StreamRetry

`pc` is where the goroutine of the request stands; `mode` is chosen in the
initial state (automatic or one model; raw, windowed or plain; and whether an
LLM client can be made at all, which depends on the endpoint and the headers
and so is the same for every model). The lines of a reply are choices: a raw
line with or without data, and in windowed mode a line without content,
`[DONE]`, and a token that is blank or not and may complete a tool's name. The
window of six chunks is not kept; that a token may still wait in it is not
visible to the properties. A plain call returns its answer as a whole. The idle
timer's expiry is an action of its own at any moment of a call. Errors are the
records of `RetryPolicy`; a refusing upstream gives any of `Statuses` with a
plain body, one in the gateway's quota format, or one that speaks of the
context length.

The streaming and the plain loops are two pieces of code that take the same
steps in the same order; where one definition stands for both, `map` names one
of them. Where they differ the mode is a conjunct: a plain request has no tool
round and commits to nothing, and its errors are sent by the handler, which in
two cases adds to one that was sent already (see Observations).

History: `tokensFrom`, `late`, `starved`.

### AutoRouter

Requests read `Config.Router` without `svc.mu`, and the cached strategy has a
lock of its own, so a step is one read of the pointer, one access of the cache,
or one `Run`. `updateRouterConfig` is three steps: the pointer is assigned, then
`ApplyRouterDefaults` completes what it points to, then the cache is cleared.
A request takes its strategy from the cache or makes one and stores it
(`Lookup`, `Create`, `Store`), runs it, and reads the configuration again for
the timeouts of its calls: first the strategy (`ReadStrategy`), then a setting
of the section that the strategy names (`ReadTimeout`), each through the pointer
of that moment. The four settings are read one after the other in the same way,
and the model reads one of them.

A strategy object is a number with the configuration it was made from and the
weights of its groups; `Keep` drops the objects that nobody holds, so that
their numbers can be used again. The key of the weights is the group and the
set of its members that the user sees, as in `buildVisibleSetKey`. A user is a VIP
level and whether it has expired; a request without an identity is one of level
0. `RunPriority` is the whole of `Run`, `Pick` the part of it under the mutex of
a group. In `RunSemantic` the rules may pass any of the enabled candidates, in
any order, and the analyzer may give any label or none (its prompt and its up
to four tries come to that); from there the selected model and the list for
degradation are computed as in the code, apart from each other. Requests are
taken to have messages.

The `fallback` of a configuration never changes a list of the priority
strategy: a fallback that the user sees is in the list already, one that the
user does not see is left out. `RouteIsSound` says so from the outside.

What a user sees, its groups, and what a semantic run can return depend on the
configuration alone. They are the functions `Visible`, `Group`, `ListFrom` and
`Labelled`, so that TLC works each out once.

History: `picked`, `overlapped`, and of a route `by`, the configuration it was
made from, and `basis`: the user, or the label and the models that passed. The
route itself is judged from these two by `SoundFor` and `SoundByScores`, which
say what a route must be and not how it is computed.

### LogService

`LogDirectToStorage` is one action because `ls.mu` is held for all of it; the
write may fail. `LogAsync` is its select: into the channel, or inline when it
is full, or a panic when it is closed. `main` goes from the signal through
`Stop` (close stopChan, close logChan, wait) to the end of `server.Shutdown`.
Storage, Nacos and Redis are closed in between and hold no state of a log. A
log's error and its user are one value, as in the sampler's key. Nothing is
assumed of when requests end.

### Voucher

A step is one Redis command, the match of the message, or one read of a query,
since nothing else is shared, and requests may come to several processes. Any
command may fail; the code logs that and goes on as if nobody had redeemed.
`SetHashField` is two commands, the record and the expiry of the whole hash.
`Crash` ends a request between any two commands, `Drop` is Redis expiring the
hash, `Publish` replaces the activity while requests go on with the content
that they have matched. A voucher is the number of its request: its text is
unique by the time stamp. `Tick` assumes that no request lasts as long as the
grace of fifteen days.

`OneVoucherEach` and `QuotaHolds` are as strong as the code allows: requests
that overlap get past both checks (see Observations), so the properties are
about the vouchers given out before a request came, and name what else breaks
them: a failed call, or an activity whose end was moved.

History: `earlier`, `failed`, `between`.

### PromptFlow

`Arrange` is the split into system message, older messages and the last one of
the user; then there is one action per processor of the chain that the mode
chooses, and `Check` is the refusal of empty messages in `processRequest`.
`NextTurn` appends what a client sends next, and the whole conversation goes
through again. A text is the sequence of its sections: headings and the words
that processors put in or take out; a content has one of the forms that JSON
and the processors give it, because the code's branches are on the form. The
rules of the task are a Go map, so they apply in any order. That a tool's
description, capability or rule cannot be had does not occur: the names come
from the same executor. The compressors that no chain uses are left out.
A rule has one key in the model and a map of keys in the code, and a heading
that ends the system message may or may not have its line end: see Observations
for what comes of either.

What a client may send (`ClientMessage`, `PromptAssumption`): contents as JSON
gives them, in any number of messages numbered by their places, so that a
property can say which message one in the prompt comes from. A word that a
processor inserts (`Inserted`) stands for its insertion and not for what a
client may have written alike, so a client's system message has none of them.
`Words` is what the sections are; TLC is given strings, the proofs need none.

History: `sent`, the prompt of the turn before.

### ServiceLifecycle

The main goroutine runs the initialisers in order (`Initialize`, each may
fail), serves, and stops in order (`ShutdownStep`, unless the thirty seconds
are over). `CleanupOnError` is the way out of a failed start. The load from
Nacos is one step for each configuration, and so is the start of its listener.
A callback of the SDK is `OnChange`, which parses a content, and an update,
which assigns it under `svc.mu`. Between the two the callback is one of `calls`
with its own content; several of one configuration may be on their way and
assign in any order. The update of the activities is two assignments under one
lock, `UpdateVoucherActivityConfig` and `ReplaceVoucherService`. A request reads the service context without the lock,
at each moment at which the code does: `CheckEnabled`, `MatchActivity`,
`GenerateVoucher` in the middleware, then `NewChatCompletionLogic`,
`CopyConfig`, `CopyToolExecutor` and `HandleStreamChunk`.

The SDK of Nacos is external. It is taken to call back with what differs from
the content that it gave out last (the answer to `GetConfig` is where a listener
starts). It may skip contents that were replaced before it looked, and it need
not wait for a callback to return before the next one. The copy of `svc.Config` is read as one step: its
fields are pointers to different configurations.

`Converges` is about what an update reaches: of `tools_prompt` that is the
executor alone, and `svc.Config.Tools` never follows (finding 5). It leaves out
a configuration of which a newer content was assigned before an older one.

History: `overlapped`, `overtaken`.

## Runs

| Run | Question | Bounds |
|---|---|---|
| `idle_timer` | Is the timer the guard, does it charge silence once and the right attempt, does its goroutine end? | 2 attempts (a watcher that outlives its attempt meets the next one), 2 lines each (a stale expiry needs one Reset; two make the generation pass it), idle period 2 of a budget of 3 (per-idle and total verdicts both occur, and the clamp) |
| `idle_stale_expiry` | Is an expiry ignored after a Reset? No: see Findings | 1 attempt |
| `stream_retry` | Is a reply of one attempt, in bounds, traced and ended? | 2 models with 2 attempts each, one tool round, 2 lines per call, budget of two idle periods, trace limit 8 (reached by the longest runs), statuses 401 and 503 (one of each class of the policy); streamed and plain |
| `stream_fallback` | Is the last model called when the others have failed? No: see Findings | as above; budget of one idle period, as by default |
| `log_service` | Is every log counted at most once, and none lost that was accepted before the stop? | 3 logs, channel of 1 (full, drained and overtaken), 2 windows, one log per window |
| `log_graceful_shutdown` | Do requests in progress survive the shutdown? No: see Findings | 2 logs |
| `auto_router` | Is every user given the models it may use, each its share; does the list for degradation agree with the selected model; what can an update do to requests and to the cache? | 2 requests at a time without end (one makes a strategy while the other runs or stores one), updates without end between configurations: a shared group with a tie, a member's model and one above all users, a group for members only, no strategy name, the router off, and a semantic one with rules, a duplicate, equal scores and scores below `minScore`, for 2 labels; 2 users: a member and an expired one, who sees what a user without an identity sees |
| `voucher` | What does it take for a second voucher, or one above the quota, and when may a query contradict itself? | 3 requests (two that overlap and one after or before them), 2 users, an activity for one user on one day and for two on the next two, grace 1, 3 days (the records outlive the first activity and not the second); queries only while no call has failed |
| `prompt_flow` | What of a conversation can be lost, what is refused, does the model see the same beginning in each turn, is the system message kept? | 3 turns (a message is the last, an older one, and far back), about 136 combinations of mode and configuration, openings with and without system message, lists, images and environments, 6 continuations |
| `prompt_first_message` | Are all messages of the user kept? No: see Findings | the same |
| `service_lifecycle` | What can a request mix, is anything left running, does the service follow Nacos? | 1 request (requests only read), 2 changes in Nacos (a broken content and a good one; two callbacks at once, in either order; an update amidst another), the configurations of rules, tools and activities: `agent_rules` stands for `precise_context`, which is treated alike, and the router is `AutoRouter`'s |
| `tools_switch` | Does a chat obey the switch of the configuration its tools come from? No: see Findings | the same |

Requests of `AutoRouter` and users of `Voucher` are interchangeable and their
runs use that symmetry; they have no liveness property. `CHECK_DEADLOCK FALSE`
is set in the other runs, and for vouchers, because requests end, attempts and
turns are bounded and the process exits.

### Fairness

`IdleTimer`: a watch goroutine that can run does, an armed timer fires, and
`cancel()` follows `Stop()` in the same deferred function. `StreamRetry`: the
request's goroutine runs, a cancelled context wakes it from the network, and
the timer of a silent call fires. `LogService`: the writer and the main
goroutine run, and a write to the storage returns. `ServiceLifecycle`: the
initialisers run, the SDK goes on polling, and callbacks run on, since nothing
holds `svc.mu` for longer than two assignments. No run assumes that an upstream
answers, that a client leaves, that a request ends or that a signal comes.

## Findings

1. `internal/timeout/idle.go:139`. The generation counter is meant to detect
   stale expiries, but it is captured after the receive from `timer.C`. A Reset
   in between goes unnoticed: the old expiry charges the budget that the Reset
   restored, and cancels an attempt that has just received a line. Run
   `idle_stale_expiry`. What still holds is `OneExpiryPerArming`.
2. `internal/timeout/idle.go:102`. By default `totalIdleTimeoutMs` equals
   `idleTimeoutMs`, so one idle timeout uses up the budget that all attempts
   share. The next model's context is then cancelled when it is made; the call
   ends in `context.Canceled`, which looks like a client that left; degradation
   stops and the client gets neither an answer nor an error. Run
   `stream_fallback`; `EndExplained` in `stream_retry` states how a request can
   end and why.
3. `main.go:71`. The service context is stopped before the HTTP server. A
   request that ends in between sends its log on a closed channel and panics in
   a deferred call. Run `log_graceful_shutdown`.
4. `internal/utils/msg_util.go:117`. Without a system message position 0 is
   taken for it, and the older messages are taken from the one after: the
   first message of the user never reaches the model. Run
   `prompt_first_message`; `ConversationKept` says what is never lost.
5. `internal/bootstrap/nacos_config_manager.go:190`. An update of
   `tools_prompt` makes a new `svc.ToolExecutor` but leaves `svc.Config.Tools`,
   which `DisableTools` and `DisabledAgents` are read from, as it was loaded at
   the start. Run `tools_switch`.

## Observations

What the models show of the code without a line of its docs that says
otherwise, or at a place where the project keeps the exact condition as a
property that holds.

- `internal/logic/chat.go:1158`. A request that finds no cached strategy makes
  one and stores it later. If an update comes in between, the old strategy is
  cached after the update has cleared the cache, and stays until the next
  update, although `service_context.go:514` says that it is made anew.
  `StaleOnlyIfOverlapped`, checked and proved, says that this is the only way.
- `internal/config/loader.go:140`. Defaults are given to strategies that are
  named; no name means the semantic strategy (`factory.go:14`), whose timeouts
  then are zero. `ZeroTimeoutExplained` gives all causes of such a timeout.
- `internal/logic/chat.go:314`. `getRetryConfig` reads `Config.Router` once for
  the strategy and again for every setting. When an update from one strategy to
  the other comes in between, the settings are those of a section that nobody
  completed: a timeout of zero too, and the fourth cause in
  `ZeroTimeoutExplained`.
- `internal/config/config_watcher.go:72`. The handler calls `onChange` outside
  its lock, so that of two callbacks of one configuration that run at once the
  older content may be assigned last. Nothing makes it good until Nacos
  publishes again. `Converges` excuses such a configuration by name.
- `internal/promptflow/processor/xml_tool_adapter.go:235`. A system message
  whose last line is the `# Tools` heading, without a line end, makes the
  insertion slice beyond the text: the handler panics and the request fails,
  also when the configuration does not let the system message be modified
  (`InsertionPanics`).
- `internal/promptflow/processor/task_content_processor.go:105`. The keys of one
  rule come to `strings.NewReplacer` in the order of a Go map. Where one key
  begins another, the text of the task differs from request to request. The
  model has one key for each rule, so `PrefixStable` says nothing of it.
- `internal/logic/chat.go:406`. With the default budget of one idle period a
  timeout is never retried (`README.md:252` names timeouts as retryable).
  `TimeoutsAreRetried` gives the budget that is needed: a period for every
  attempt but the last, and one retry interval (`BudgetForRetries`).
- `internal/logic/chat.go:1016`. An empty answer is a failed attempt in raw mode
  and a successful one in windowed mode, which the client is told is an error.
- Two errors are sent for one failure when a streamed request for one model
  cannot make its client, and when a plain request for one model has too long
  a context (an SSE error, then JSON).
- `README.md:424` says that the semantic strategy falls back to
  `fallbackModelName` on errors or low scores. The client is told so, but the
  calls follow the list for degradation, in which the fallback is last.
  `SemanticRouteIsSound` says when list and selection disagree. Ties without
  `tieBreakOrder` are broken by name for the selection and by the order of the
  configuration for the list, although the comment at `semantic.go:203` has the
  list go by name too; a model that `tieBreakOrder` leaves out sorts like its
  first.
- `etc/chat-api.yaml:194` promises one voucher each. Requests of one user that
  overlap get one each, and together they exceed the quota. The query of an
  activity that nobody has redeemed is an error.
- A message that is nothing but environment details is accepted as the last one
  and emptied once it is older; from then on the conversation is refused
  (`RefusedExplained`).
- Rules for the task of one agent apply in random order; `PrefixStable` needs
  rules that do not feed each other. Images of the first message are lost when
  a rule rewrites it. A system message that is not the first message drops what
  precedes it. What follows the last message of the user or a tool is dropped,
  unless the request continues it.
- The panic of the load from Nacos (`nacos_config_manager.go:78`) and that of
  the HTTP server stop nothing that had been started, although
  `service_context.go:81` cleans up before its own. `WholeOrNothing` names both.
- Activities without a signing key come into force with the key of earlier
  ones (`MixExplained`).

## Proofs

`IdleTimerProofs` proves, for any number of attempts, any budget and any idle
period, from `IdleAssumption` alone:

- `TypeCorrect`: `Spec => []TypeOK`;
- `Invariance`: `Spec => []IInv`;
- `VerdictAgrees`: `Spec => []VerdictMatchesBudget`;
- `ChargesAreLive`: `Spec => OnlyLiveAttemptIsCharged`;
- `SilenceIsChargedOnce`: `Spec => []OneExpiryPerArming`;
- `Refinement`: `Spec => ImplementsGuard`.

The properties are not inductive by themselves. `IInv` adds where a watcher can
be when its attempt is over (it may have taken an expiry, but is not inside
`handleTimeout`), that attempts after the current one are untouched, that the
mutex is held only for a current, running attempt, and how reason and budget
agree from the charge on, before the verdict is visible. `OneExpiryPerArming` needs only that an
expiry is of a generation which the timer has had. The refinement has one
lemma per kind of step: those that the guard does not see (`HiddenSteps`), and
those that are its `Open`, `Progress`, `Close`, and `LogIdle` or `Abort`.

`AutoRouterProofs` proves, for any finite set of requests, any users and any
table of configurations, from `RouterAssumption` alone:

- `StaleIsExplained`: `Spec => []StaleOnlyIfOverlapped`;
- `ZeroTimeoutIsExplained`: `Spec => ZeroTimeoutExplained`;
- `TypeIsCorrect`: `Spec => []TypeOK`;
- `SharesAreFair`: `Spec => []FairShare`;
- `RoutesAreSound`: `Spec => []RouteIsSound`;
- `SemanticRoutesAreSound`: `Spec => []SemanticRouteIsSound`.

The invariant of the first, `CacheInv`, says what holds in the middle of an
update, when the cache may disagree with the configuration, and that an object
that a request stores differs from the cached one. That needs a number which
nobody holds whenever a strategy is made (`FreshObject`, a pigeonhole argument
on cardinalities). `DefaultsInv` of the second ties the timeouts to the state
of the update, and the section that a request goes on to read to the
configuration that it took the strategy from.

The other four rest on `ObjectInv`: who holds an object (`Holding`), that one
has a configuration just while it is held and is empty otherwise (`Existing`),
and that its weights and picks belong together (`Even`). `Even` is what makes
the round robin fair: for every set of visible models that has been picked from,
the weights add up to zero, none is as low as the negated total weight, and
each is the number of picks times the model's weight less the total times the
picks of the model (`Balanced`). `FairShare` follows by arithmetic
(`BalancedIsFair`). That a pick keeps the balance of its group and touches no
other needs that different sets of models have different keys (`KeysDiffer`),
and that of weights which add up to zero, each raised by its model's own, the
heaviest is above zero, so the total can be taken off it (`HeaviestIs`,
`PickKeepsBalance`).

A route is sound because one run makes it so, from any weights that a pick may
find (`RunIsSound`), or for any outcome of the rules and any label
(`SemanticRunIsSound`); the rest of the proofs is that no other step, an update
of the configuration least of all, touches the route (`RoutesInv`,
`SemanticInv`). For the semantic strategy three things are established apart
from each other and then compared: what the list is, before the fallback
(`RankedIs`) and with it (`WithFallbackIs`); and what the best score and the
winner of the tie are (`BestIs`, `WinnerIs`), which the code computes without
the list.

`ListsProofs` holds what these proofs say about data. The provers cannot use a
recursive operator or an induction principle, so `Lists` filters and sorts by
arranging the places of a list: the entry that goes k-th is the one that has
k - 1 before it. `ArrangedIs` shows, for every finite set and strict total
order, that this is a bijection that follows the order; `AmongIs` and
`StableSortIs` follow from it. The sums of the weights are those of the
community modules. `FiniteInduction` gets induction on finite sets from the
smallest element of a set of sets, without an operator as a parameter; `Exists`
and `Unique` show that the function which defines a sum is there and is the
only one; `SumStep`, `SumAtLeast` and `SumOneChanged` are what the proofs cite.
Induction on numbers is done alike (`UpToInduction`); a recursive function that
applies one entry of a list after the other is the walk whose each place
follows from the one before (`WalkExists`). For filtered lists, only one way
of counting a set up is ascending (`AscendingUnique`), so lists that agree in
the entries a filter passes are the same once filtered (`AmongSame`): with
another entry put in (`AmongInserted`) or with entries left out (`AmongSub`,
`FilteredSub`).

`StreamRetryProofs` proves, for any number of models, retries, tool rounds and
lines, any budget and any statuses, from `StreamAssumption` alone:

- `TypeCorrect`: `Spec => []TypeOK`;
- `OneAttempt`: `Spec => []TokensFromOneAttempt`;
- `OneIsLate`: `Spec => []OneLateAttempt`;
- `EndIsExplained`: `Spec => []EndExplained`: every end is an answer with the
  tokens of the last attempt, the event of an empty answer, the error of the
  last attempt (the history variable `errorOf` says whose `lastErr` is), told
  once or, in the two cases of `SentTwice`, twice, or a silence with its cause;
- `AttemptsAreInOrder`: `Spec => []AttemptsInOrder`;
- `TraceIsTrue`: `Spec => []TraceTellsOutcomes`;
- `TimeoutsRetried`: `Spec => []TimeoutsAreRetried`.

All rest on `Invariance`. Its `IInv` says, beyond the types, that a call is open
exactly while the request is in it (`Guarded`); how many calls the models,
retries and tool rounds so far can have taken, so that there is room for the
next one (`Counted`: without it a request could stop for want of a number,
which is an artefact of the model); that an attempt which has sent something or
used a tool is committed and the last one (`Committed`); that none follows the
attempt that was started too late (`LateOnce`); and why a context may be done,
whose error a failed request carries, where the substance of a reply comes from,
and what has been told before the end (`Explained`).

The last three need more, on top of `IInv`. `TInv`, for the first two, is about
the trace: the starts in it follow each other as the loops do and none is ahead
of the attempt made last (`Ordered`); a full trace is marked as truncated, and
one that is not tells the outcome of every attempt but the one in progress
(`Told`). `BInv`, for `TimeoutsRetried`, is about the budget: while the first
model has its turn and nothing was committed to, each attempt has taken one idle
period of it at most (`HasBudget`).

`LogServiceProofs` proves, for any logs and errors, any capacity, sample and
number of windows, from `LogAssumption` alone:

- `TypeCorrect`: `Spec => []TypeOK`;
- `CountedOnce`: `Spec => []RecordedOnce`;
- `SampleIsExact`: `Spec => []SampledExactly`;
- `StopDrains`: `Spec => []DrainComplete`.

A log is in one place: with its request, once in the channel, in the writer's
hand, or recorded (`Placed`). The writer ends only after `Stop` began and with
nothing left that was in the channel before it (`Drained`). The counters of the
sampler are those of the window it saw last, and no later window has been
offered a log (`Sampled`).

`VoucherProofs` proves, for any finite set of requests, any users and contents,
any time and grace, from `VoucherAssumption` alone:

- `TypeCorrect`: `Spec => []TypeOK`;
- `OneVoucherEachHolds`: `Spec => []OneVoucherEach`;
- `QuotaIsKept`: `Spec => []QuotaHolds`;
- `QueryIsExplained`: `Spec => []QueryExplained`.

The record of a request whose calls did not fail is missing only when an
activity that a voucher was issued under has been over for longer than the grace
(`Remembered`), because no time to live ends before that (`Kept`). A request
that finds none at such a time has matched an activity with a later end
(`Timely`), which is what the properties call prolonged. `Looked` and `Counted`
keep what the two reads of a request have established until its answer; the
second compares cardinalities, of the users who had vouchers and of the records.

`PromptFlowProofs` proves, for conversations of any length and number of turns,
contents of any parts and texts, any sessions with finitely many rules, from
`PromptAssumption` alone:

- `TypeIsCorrect`: `Spec => []TypeOK`;
- `RefusalsAreExplained`: `Spec => []RefusedExplained`;
- `ConversationIsKept`: `Spec => []ConversationKept`;
- `SystemIsKept`: `Spec => []SystemKept`;
- `PrefixesAreStable`: `Spec => []PrefixStable`.

Three invariants carry them. `PInv` has the types, that the conversation is the
client's and numbered (`Conversation`), and what each message in the processors'
hands still shares with the one it comes from (`Kept`): its number and role, its
images unless it is the first and a rule applied, and why it may be empty. The
first three theorems follow from it and from what the prompt is put together
from (`PromptIs`).

`SInv` says of the system message, at each stage, how often every inserted word
is in it (`Told`) and that without them it is the client's text (`Own`), or
that it is the client's message itself. The words of a tool are inserted at
three markers one after the other; that one insertion does not take the
next one's marker away is `InsertedWord` and `InsertAfterIs`.

`UInv` says exactly what is said after the system message: the k-th message of
the prompt is a function of the conversation, the mode and the rules (`SaidAt`),
and the prompt of the turn before was the one of a beginning of this
conversation (`SentIs`). That takes two facts. Rules that are apart do the same
in any order: every word of the first text is replaced by the one rule for it or
by none (`Settled`), which is shown along the walk of the rules
(`RewrittenSettles`). And a message is filtered by what comes before it only
(`FilteringPrefix`), so that an older message stays as it is when the
conversation goes on; the one that was the last and is an older one now loses
environments and nothing else, before the rules and after them
(`LastThenOlder`, `SettledLike`). Both need that the filter keeps the first
environment of the older messages: were it the last, every turn could take one
out of what the model has seen, and the first text of the task, which the rules
rewrite, could be another one.

`ServiceLifecycleProofs` proves, for any number of requests and changes and any
contents, from `LifecycleAssumption` alone:

- `TypeCorrect`: `Spec => []TypeOK`;
- `MixesAreExplained`: `Spec => []MixExplained`;
- `WholeOrNothingHolds`: `Spec => []WholeOrNothing`.

The first two rest on `Inv`: the types; that the key in force is the one of the
activities in force, but for an update between its two assignments or
activities without a key (`KeyInForce`); what is empty as long as nothing is
served (`NotYetServing`); and, for each place at which a request may be, how
what it has read relates to what is in force, unless an update overlapped it
(`ChatReads`, `RedemptionReads`). The third adds `Progress` and `InPlace`: what
is running at each step of the start and of the shutdown.

Liveness (`WatcherEnds`, `QuietAttemptEnds`, `RequestEnds`, `EarlyIsRecorded`,
`StopReturns`, `Converges`) is checked by TLC only, because `ENABLED` is out of
the prover's reach. Every other property of a passing run is proved; what the
violating runs refute cannot be, and TLC shows the behaviour.

## Not modelled

The table of components in `PROJECT.json` says why for each. Storage, metrics,
tokenizer, forward proxy, tools and HTTP handlers keep no state that two
requests, or two steps of one, could disagree on. Within the modelled parts,
contents and wording are left out: tokens, headers, log lines, the analyzer's
prompt and what it is shown of the conversation (`extractInputs` takes the
newest message of the assistant for the current one when the last message of
the user has no tags, `README.md:421`), the parsing and the defaults of the
start configuration's file. The dynamic metrics
in Redis are facts that the rules look at, whose outcome is open.

## Plan

What could come next, in this order:

1. `StreamWindow`: the six-chunk window with tool detection, refined to the
   choices that `StreamRetry` makes, with the lines that overtake it; the
   goroutine of the chunk statistics.
2. The candidates' routes and the retries as one specification, `AutoRouter`
   and `StreamRetry` composed, with what both prove of their halves.
3. Lists of two activities for one keyword, and the time stamp of the code.
