# mm-gateway in TLA+

mm-gateway is a gateway in front of image, video, music and speech providers. A
client asks for a generation; the gateway picks a model and a provider account,
submits the task, watches it until it is finished, and accounts for its cost
against the budget of the client's API key. Plugins change requests, responses,
routes and providers while it runs, and a proxy passes other traffic through to the
providers. This directory holds TLA+ models of these parts, the TLC configurations
that check them and proofs about them.

Paths below are relative to `mm_gateway/` in the repository.

## The system

| Part | State it keeps | Operations | Hard behaviour | Module |
| --- | --- | --- | --- | --- |
| Cost ledger (`billing.py`) | holds, the index from task tokens to holds, spent per key and period, spent per client scope | hold, bind, release, settle, check, reservation | concurrent creates of one key; periods that end while a task runs | `CostLedger` |
| Creates (`services.py`, `auto_mode.py`) | none: locals of the request | create, execute_plan, sync wait | fallback after failures; cancellation; an accepted task whose create fails | `Generation` |
| Task supervisor (`tasks/supervisor.py`) | one entry per accepted task: snapshot, monitor, error count, terminal callback | start, the monitor loop, aclose | repeated poll errors; answers that are terminal at once; shutdown | `Generation` |
| Task store (`tasks/store.py`) | records, the record and the lock of each idempotency scope | put, get, idempotency_guard | concurrent retries; a holder that fails or is cancelled | `Generation`, `IdempotentCreate` |
| Create handlers (`server/routes/*.py`, `server/mcp.py`) | none | guard, lookup, create, record | the order of the four | `Generation` |
| Routing plan (`auto_mode.py`, `router.py`, `registry.py`) | a plan per request | resolve_policy, plan_route, execute_plan, estimate_route | what was admissible when planned may not be when attempted | `Routing` |
| Selection scores (`observability/selection.py`) | outcomes per backend, account and model; cooldowns | observe, score, is_rate_limited | moved by every attempt of every request | `Routing` |
| Limits and prices (`models/`, `router.py`) | a catalogue | fitting a request, estimating its cost | three descriptions of a model in three places | `ModelLimits`, `MediaRequests` |
| Provider adapters (`providers/`) | records of synchronous results | create and poll per vendor | status vocabularies, retries, results that must be kept | `AdapterReplies`, `ProviderTasks`, `MediaRequests` |
| Plugin store (`plugins/store.py`, `remote.py`) | records, state file, packages on disk, fingerprints | put, delete, reload, install, update, watch | crashes and cancellation between disk steps; edits under way | `PluginStore` |
| Plugin runtime (`plugins/runtime.py`, `loader.py`) | active and retired generations, user counts | lease, release, pin, close | generations replaced, or shut down, while in use | `PluginLifecycle` |
| Plugin middleware (`plugins/middleware.py`) | a hook pipeline per request | request, response and chunk hooks | failures before and after the headers went out | `HookPipeline` |
| Outbound proxy (`proxy.py`) | the account in turn, an upstream response, WebSocket pumps | forward, bridge | two pumps and a close handshake; releasing connections | `ProxyPath` |
| Management (`management.py`) | settings, revision, the persisted overlay | update, update_resource, publish | concurrent edits, cancellation, failed and late disk writes | `ConfigPublish` |
| Secrets (`secrets.py`) | the key file | encrypt, decrypt, atomic_write | a death in the middle of a write | a disk step of two modules |
| Application (`server/app.py`, `auth.py`) | none of its own | lifespan | the order of the shutdown | `Generation`, `PluginLifecycle` |
| Schemas, translators, logs, metrics | none | conversions, reports | | not modelled |

The parts interact as follows. A create handler takes the idempotency guard of its
scope and looks for a record. If there is none it calls the service, which leases the
active plugins, makes a plan (asking the ledger which candidates the budgets admit and
the router which models fit the request), lets plugins narrow it, and runs it: for each
candidate it holds the estimate in the ledger and calls the provider's adapter. When a
provider accepts, the hold is bound to the task and the supervisor starts a monitor;
when it fails, the hold is released, the selection scores move and the next candidate is
tried. The handler then stores the record and answers. The monitor polls the adapter on
its own; its terminal callback settles the reservation and releases the task's pin on
the plugin generation that provides it. The plugin store and management replace
generations and the registry under one lock while this goes on. All of it runs on one
event loop, so a handler loses control only where it awaits something; the ledger has a
lock as well because it may be called from threads.

## Modules

| Module | What it is |
| --- | --- |
| `SpendingCap` | abstract: an account with a cap, a reserved and a spent amount |
| `CostLedger` | the ledger, one action per method |
| `IdempotentCreate` | abstract: what an Idempotency-Key promises |
| `Generation` | the create path, extending `CostLedger`: handlers, guard, attempts, sync wait, supervisor, shutdown |
| `Generation_proofs` | theorems about `CostLedger` and `Generation` |
| `Routing` | the plan of a create, its attempts and the scores they move |
| `Routing_proofs` | theorems about `Routing` |
| `AdapterReplies` | the adapters' tables of status words and readings of one reply |
| `ProviderTasks` | one task of one adapter, from create to the end of its reservation, extending `AdapterReplies` |
| `ProviderTasks_proofs` | theorems about `ProviderTasks` |
| `ModelLimits` | the built-in limits catalogue |
| `MediaRequests` | a request from the router's limits to the adapter's body, extending `ModelLimits` |
| `MediaRequests_proofs` | theorems about `MediaRequests` |
| `ConfigPublish` | edits of the configuration, from the lock to file and memory |
| `ConfigPublish_proofs` | theorems about `ConfigPublish` |
| `PluginLifecycle` | generations published, leased, pinned, retired, closed and shut down |
| `PluginLifecycle_proofs` | theorems about `PluginLifecycle` |
| `PluginStore` | a GitHub plugin on disk and in memory: install, update, watch, crash |
| `PluginStore_proofs` | theorems about `PluginStore` |
| `HookPipeline` | the HTTP plugin middleware |
| `ProxyPath` | the proxy and the WebSocket bridge, extending `HookPipeline` |
| `ProxyPath_proofs` | theorems about `ProxyPath` and `HookPipeline` |
| `MC...` | the constants of the TLC instance of the module named after the prefix |

### CostLedger

`holds` is the dictionary `_holds` as a partial function on hold ids, `byTask` the
index `_by_task` (0 where it has no entry), `keySpent` and `scopeSpent` the spent
totals (the defaultdicts are total functions that start at 0), `nextId` the counter,
and `day` the clock. Each method runs under the ledger's lock and is one action.
`hold` reads the clock twice, once in `_check` and once when it builds the `_Hold`, so
`HoldFrom` lets midnight fall between the two. `keyOver` and `scopeOver` are history
variables: what settlements charged beyond the amount that had been held, which no
admission control can prevent and which the budget invariants therefore allow for.
Amounts are whole units; the epsilon of the source only absorbs float rounding.

### Generation

A create is a process with the stages `queued` (waits for its guard), `routing`
(awaits the plugins' route hooks), `creating` (awaits the provider), `syncing` (polls
until the task ends, only with `wait=True`), `leaving` (awaits the release of plugin
leases) and `answered`. Each action is the code between two awaits, with everything it
does to the ledger, the supervisor and the store. In particular a failed attempt, the
release of its hold, the skipping of candidates whose budget has filled up and the
hold of the next candidate are one step (`AttemptFails`, `NextAttempt`), as in
`execute_plan`'s loop. The provider accepts in a step of its own, so that a create call
may fail although the provider took it. Which candidates fit a request (`Offer`) is a
constant and their order, which depends on scores, is open. A monitor has a step for a
poll that finds the task running, one for a terminal answer and one for an error.

`Cancel` is asyncio's CancelledError. MCP clients cause it (`notifications/cancelled`),
and so does a shutdown that does not wait. It is no `Exception`, so neither the
services nor `execute_plan` handle it; only the guard is released. `Close` is
`AsyncTaskSupervisor.aclose`. Creates may still be in flight then: `mount_mcp` runs the
MCP sessions in a lifespan that encloses the gateway's own, so the supervisors close
first.

### ConfigPublish

An edit reads the revision (`seen`, `sent`), waits for the lock (`queue`, first come
first served as in `asyncio.Lock`), is checked and prepared (`preparing`: the plugins'
factories are awaited), and then commits in a task of its own: a thread writes the file
and, when it has ended, memory is published and the lock is released in one step
(`committing`). A cancellation before the commit ends the edit; one during the commit
makes the caller wait for it (`joining`); a second one in that wait cancels the commit
task but not the thread, which `Abandon` describes. `Crash` starts the gateway from the
file. `PluginPublishes` is a plugin mutation, which invalidates the revision clients
hold (`PluginExtensions.publish_runtime`).

### PluginLifecycle

A generation is one `LoadedPlugin`. `state` tells whether it is loaded and whether its
`aclose` has begun or ended, `users` is its counter, `retired` its flag, `active` and
`waiting` are the manager's `_active` and `_retired`; the generations that `start()` has
loaded are the constant `Started`. A request leases the plugins it matches in one step,
may have a task accepted, which pins a generation that it leases, and gives its
generations up one after the other; it stops where one has to be closed (`leaving`),
because closing awaits the plugin. The task's pin is released by a task scheduled by the terminal
callback, hence the stage `released`. A mutation holds both locks while it loads,
prepares the providers and publishes, and closes the old generation itself if nobody
uses it. Which plugins a request matches and which plugin a mutation is about are
constants.

The shutdown is the exit of the lifespan (`server/app.py`): `StopMonitors` closes the
supervisors, `ReleasePins` and `PinClosed` are the loop over the pins in
`_GenerationService.aclose`, which awaits a plugin wherever a release closes one, and
`CloseGeneration`, `GenerationClosed` and `AllClosed` are `PluginManager.aclose`. HTTP
requests have been drained by then, but the MCP sessions' lifespan encloses the
gateway's, so MCP calls and the watcher's turn (`Late`) still run: a task accepted after
the supervisor was closed pins a generation that nothing will release (`stranded`), and
one that is pinned while the loop awaits a plugin ends the loop with an exception
(`broken`). The services of the media kinds share the pins' table in the model.

### PluginStore

One GitHub plugin, its package in the install directory, its record in memory and in the
state file, and what is active. A package is the commit it was fetched from and the edits
made to it; its fingerprint is the package itself. An operation goes through `Read`
(what the sender saw), `Lookup` (`update_github` reads the options before it has the
lock), `Acquire`, `Begin`, `Load`, `SetAside`, `Replace`, `Persist`, `Commit` or
`PublishReload` and `Finish`; a failed one through `Cleanup`. The watcher's `Watch` and
the start (`Restart`) share these steps, and `Edit` and `Push` are the world. `Cancel`
may hit every await and `CancelClose` the closing of the old generation. `Crash` may
fall between any two steps, also between the renames that are one step of the event
loop; `Restart` is `start()` from the files.

Three history variables name what the code leaves behind. `torn`: a crash or a
cancellation fell between two of the steps that move the package, write the state file
and remove the old package, so that package and record are of different commits until
an update repairs them (docs/plugins.md:301 calls an update atomic). `missed`:
`_attempted` was set for a fingerprint whose load was never finished, so the watcher
will not try it. `strays`: hidden directories that nobody removes.

### AdapterReplies and ProviderTasks

`AdapterReplies` has, per adapter, the table from the vendor's status words to the
unified status and the reading of one reply, with the media that make it a success.
`ProviderTasks` puts one task of one of the thirty adapters through create, the polls
inside a create that waits, the monitor and the settlement. The adapters are of five
kinds. `JobAdapters` start a job at the vendor and poll it. `CallAdapters`, among them
the `ImageAdapters`, generate inside the first poll of a task they made up and keep
its result. `LoopAdapters` (FLUX and DashScope's image models) submit and poll in a loop
of their own, the latter once more for every later poll. `VoiceAdapters` prepare, clone
and, for one vendor, wait for a verification. A vendor moves a job to any word it is
documented to use (`VendorWords`, from docs/providers/reference.md and the comments
beside the calls, written apart from the adapters' own tables in `AdapterReplies`), to an
unlisted stage or an unlisted end, refuses calls, answers without a verdict or not at all.
`watch` says who looks at the task: the create call, the sync wait, the monitor, or
nobody after it ended. `rec` is the adapter's own record, `hold` the task's reservation,
and `started` and `unread` count generations that the vendor may have begun and answers
that settled nothing. The polls of one task come one after the other, because a client
learns the id only after the monitor has a snapshot.

### ModelLimits and MediaRequests

`ModelLimits` is the built-in catalogue reduced to what is decided about a request: the
inputs a model takes, the counts and lengths, and the modes that exclude each other.
`MediaRequests` takes a request through the router's fit, the units the budget gate
bills and the body the adapter builds, one step each. A request is its parts in order
(images by role, videos, audios), its length in half seconds, its count, lyrics and
sound; a body is the set of parts in the roles they are sent in, the length and the
count asked for. A count of 0 is one the adapter does not send: the vendor then makes one
output, or two songs where the count is left to it (`CountLeftToVendor`: Mureka, whose
default of 2 stands in limits.py:999-1000, and UdioAPI, taken as the two it documents as
its most). Prompts, sizes and vendor knobs are left out.

### Routing

`plan` is what `plan_route` returns, `Policy` what `resolve_policy` makes of the
request's directive, and `ResolvePinned`, `EnumerateAutoCandidates` and `EstimateRoute`
are the functions of these names. `world` holds what was configured (backends, accounts,
catalogue, aliases, key policy, route plugins), `store` the selection scores and
cooldowns, with quality and latency as levels and no decay. A route plugin answers with
any of the candidates in any order, or fails. After the plan, each attempt is one step:
skip for the budget, success, a client's error, or a failure that is scored and moves
on. `OthersSpend` and `OthersObserve` are the other requests: the first may strike
between attempts, the second before the plan only, since the plan's order is fixed then.
Attempts of the request itself do not move the latency level.

### HookPipeline

A request goes through the plugins' request hooks in order, then the handler, then the
response hooks in reverse over the plugins entered; a plugin that answers by itself
short-circuits. Bodies are lengths, `Limit` is the plugins' body limit. Each hook may
keep, edit, answer or fail, and `closed` is the plugin's failure mode: an open one is
skipped, a closed one ends the request with a problem (`Fail`), or aborts it when the
head has gone out. A response is held back (`buffering`) where a hook wants its body and
streamed otherwise. `wire` is what was sent to the client.

### ProxyPath

`kind` says what a request is: one of the gateway's handlers, a proxied HTTP request or
a socket. A proxied request tries the accounts in turn and relays the last answer
through the pipeline above; its upstream response is closed by the body's iterator when
it ends or is broken off once it was started. The client may leave from the relay on
(`ClientLeavesStream`, the sending task is cancelled) and the upstream may break off
(`UpstreamBreaks`, the iterator raises). A socket connects to the first account that
takes it and starts two pumps, which forward frames until one side goes; a frame is its
number among those of its sender, and what waits and what was passed on are sequences.
`BridgeEnds` is the waiter that cancels the other pump, forwards the close frame if the
upstream closed first, and closes the upstream.

## Runs

| Run | Instance | What it asks |
| --- | --- | --- |
| `ledger` | one key with a limit of 2 a day, one scope, two tasks, three holds, two days, unpriced requests, costs below and above the hold | Do index and budgets hold under every order of operations and with midnight anywhere, and does the ledger implement abstract accounts? |
| `generation` | three creates, two of them retries under one idempotency key, two candidates, four tasks, six holds; no cancellation | Is one generation accepted under one key, however creates and retries interleave? |
| `generation_faults` | two creates under one idempotency key with different bodies, the first cancelled anywhere, the second waiting for its task, shutdown at any time | Do reservations have owners and end, is a task charged once, is a create paid for once whatever was accepted and abandoned before its fallback, is every create answered, is the abstract idempotent create implemented? |
| `generation_retry` (violation) | two retries under one key, one cancelled | Does a retry generate again after a cancellation? |
| `config` | three edits, each cancelled up to once, invalid configurations, failing writes, plugin mutations, crashes, two revisions | Do file and memory agree, and are edits kept whole or not at all? |
| `plugins` | two plugins with three generations, two creates with tasks, two mutations, one create and one mutation cancelled, a shutdown | Are the counters exact, is nothing closed in use, is all that is loaded closed in the end? |
| `plugin_store` | two requests (one cancellable), two commits, two edits, one crash, with the watcher | Do package, record and state file stay together, does no request write back options it has not seen, are edits loaded in the end? |
| `adapters` | each of the thirty adapters with one task | Is a task generated once, shown as the vendor's documented words say, charged with its media only, and does it end? |
| `requests` | every media model of the catalogue and an unlisted one; requests with up to two parts in every order and some past each ceiling | Do limits, router, budget gate, body and what the vendor makes of it agree? |
| `routing` | two backends with three credentials, 21 worlds, every routing directive, pinned, aliased, spoken and automatic requests, a budget others spend | Are order, fallbacks, refusals and estimates the documented ones? |
| `proxy` | up to three plugins with every set of hooks, two accounts, two frames each way, clients that leave and upstreams that break off | Is the response well formed, do accounts fail over, are connections released, are frames kept in order, do bridges end? |
| `proxy_close` (violation) | as `proxy` | Is an upstream's close frame forwarded? |

Some properties are conjunctions of named parts: `LedgerInv` (types, `IndexSound`,
`Settleable`, `NothingAhead`, both budgets), `AccountsKept` (two refinements of
`SpendingCap`, `ScopesReconcile`), `GenerationInv` (`LedgerInv`, types,
`GuardSound`, `AttemptsSound`, `TasksSound`, `AnswersSound`, `AcceptedLast`, `HoldsOwned`,
`ObservedTasksHeld`), `ConfigInv` (types, `QueueSound`, `OneDiskWriter`, `StepsInOrder`,
`BuiltOnCurrent`, `DiskFollows`, `TracesMatchSteps`), `EditsAllOrNothing`
(`AcknowledgedEditsLast`, `RefusedEditsLeaveNothing`), `PluginInv` (types, `UsersSound`,
`MutationsSound`, `GenerationsSound`, `UsersExact`, `ActiveUsable`), `PackagesKept` (types,
`OperationSound`, `OriginalKept`, `RequestsCurrent`, `RecordedOnDisk`, `RecordedInPlace`),
`ProviderInv` (types, `HoldFollowsTask`, `ChargedWithMedia`), `EndsAgree`
(`AgreesWithVendor`, `RecordAgrees`, `VoiceUsableWhenVerified`), `InputsSupported`
(`NothingUnsupportedSent`, `ExclusiveModesKept`), `AskedWithinBounds` (types,
`LengthsDocumentedAndBilled`, `CountsDocumentedAndBilled`), `PlanSound` (`CoolingSinks`,
`EveryCandidate`, `ServedWithinPolicy`), `FallbackSound` (types, `FallbackKept`,
`FallbackReported`, `CandidatesExhausted`), `ResponseInv` (types, `WireWellFormed`,
`LengthsMatch`, `UnwindsEntered`), `BridgeSafe` (`FramesKept`, `CloseCodesLegal`).

### Bounds

A budget goes wrong between two creates that were both admitted, so two tasks, a limit
of 2 and amounts of 1 and 2 suffice, with a third hold for the period after midnight.
Idempotency needs a holder, a waiter and a bystander. Two candidates give a fallback and
its end. A configuration edit conflicts with one that committed and one that is queued.
A generation is replaced once while leased and once while pinned; the second plugin is
needed for a request that stops between two releases and for a loop over pins that
grows. `MaxStarted` = 3 covers the three create attempts of ACE-Step; `MaxTurns` = 2
stands for the 150 turns of FLUX's loop, whose turns are alike. Two plugins show the
order of hooks, three that a failure unwinds only the entered ones. `MaxFrames` = 2
shows a frame lost, doubled or swapped. `MaxTraffic` = 1: one step of the others is
enough to move a score or to empty the budget, and both before the plan and between two
attempts.

`ledger`, `requests`, `routing` and the `proxy` runs check deadlock. In `ledger` the
supervisor may always release or settle a token the ledger does not know; in the other
three a finished exchange stutters in an action of its own, so anything that stops
earlier is reported. The other systems end when all requests are answered, so their runs
leave the check off.

### Fairness

Weak fairness is stated per process for what the event loop or a timeout guarantees.
`Generation`: every create goes on (adapters have timeouts) and a monitor's poll finds
the end of a task at last. `ConfigPublish`: hooks and threads end. `PluginLifecycle`:
requests, tasks, mutations (whose plugin calls have timeouts) and the shutdown.
`PluginStore`: the operation in progress and the watcher; nobody has to start a dead
process again, so the liveness property is vacuous while it is down. `ProviderTasks`:
the calls under way and the monitor; vendors end their jobs, and their answers are
readable again and again (strong fairness for DashScope's image loop and for the
verification of a voice, since an unreadable answer may come in between). `ProxyPath`:
the pumps, their waiter and the handshake.

### Findings

Two runs end in a violation, and each quotes the sentence of the repository it refutes.

- `generation_retry`: the record of an idempotency key is stored after the service
  returned. A create cancelled between the acceptance and `store.put`, while it awaits
  the release of its plugin leases, leaves a billed task and no record, so the retry
  generates again, against README.md:165.
- `proxy_close`: a client frame sent while the upstream is closing ends the client's
  pump first; `_pump_ws` returns "client" and the close frame that proxy.py:517 promises
  to forward is not sent.

### Exceptions named in the properties

The properties hold with these exceptions, each of which has a name in the formula or is
a constant of the run.

- A create cancelled in an attempt or in its sync wait leaves its hold
  (`auto_mode.py:477` handles `Exception`): `HoldsOwned`.
- A create accepted after the supervisor closed fails in `start` and falls back although
  its provider works on the task (`services.py:149`, `tasks/supervisor.py:79`); so does
  one whose call timed out after the acceptance or whose sync wait could not read its
  task. `OneGenerationPaid` says that only one of the two is observed, held or charged;
  it does not say that only one is generated. A create cancelled after its acceptance
  keeps its task, which is paid for as well.
- A second cancellation of an edit cancels the commit but not its thread
  (`management.py:228`): `MaxCancels` is 1, with 2 `DiskMatchesRuntime` is violated.
- A request cancelled while it releases leaves its remaining leases
  (`plugins/runtime.py:271`): `LeftBehind`. A mutation cancelled after its load leaves
  the new generation loaded: `Abandoned`.
- The pins' table grows while the shutdown iterates over it (`services.py:204`): the
  stage `broken`. Generations are closed at shutdown whoever uses them:
  `NeverClosedInUse` stops at `manager`.
- A crash or cancellation between the store's disk steps (`torn`), and fingerprints
  noted as attempted and never loaded (`missed`).
- ACE-Step's completion answers with another id than the task had
  (`providers/acestep.py:422`), so its reservation is not settled: `Strays`.
- The limits let a router accept roles that some bodies ignore (`models/limits.py:79`,
  `router.py:105`; ACE-Step's cover mode, `providers/acestep.py:324`): `InputsIgnored`.
- A word no adapter's table has counts as running, so a job that ends under a word its
  vendor does not document is polled for ever, as is a failed Udio job that lists no
  tracks: `Unreadable`.
- Adapters that call again after an answer without a verdict, ACE-Step's create among
  them, may generate once more for each answer they could not read: `CallsAgain`.
- Mureka's and UdioAPI's adapters send no count: the budget gate bills the count of the
  request, one when it has none, and the vendor makes its own default, two for Mureka
  (`models/limits.py:999-1000`, `providers/mureka.py:118`): `CountLeftToVendor`.
- When nothing asked for a byte of a relayed body, its iterator was never started and
  closes nothing: a plugin failed on the head (`plugins/middleware.py:341`), or the client
  left before it was sent more than the head. The upstream response stays open:
  `NeverRead`.
- When both sides of a bridge leave, or one leaves and the other pump finds it out first by
  a failing send, frames that were received and not yet passed on are lost: `FramesKept`.

Behaviour seen while modelling that no property is stated about, because no document or
comment promises otherwise or because its data is left out:

- A finished Sora video whose download fails succeeds, and is charged, without a video
  (`providers/openai.py:140`).
- A pinned request is not checked against the limits; its length is clamped up to the
  model's minimum while the budget gate bills the length asked for
  (`providers/dashscope.py:480`).
- A last frame or a reference alone is sent as first frame as well
  (`providers/_genai_media.py:155`); input images are not counted for music
  (`router.py:261`); the SDK's path of a DashScope video has no argument for some fields
  (`providers/dashscope.py:1115`).
- Pinned candidates come before automatic ones even while they cool down
  (`auto_mode.py:347`); ranking by latency counts fast failures as samples
  (`auto_mode.py:238`); when a route plugin drops the pinned candidates the task reports
  `provider_unavailable` though no provider was called (`auto_mode.py:511`).
- A handshake refused with a client's error ends the upgrade on the first account only
  (`proxy.py:481`).
- Hidden directories of a process that died are never removed (`plugins/store.py:419`).
- A model priced in another unit than its modality's is estimated at zero
  (`models/pricing.py:171`).
- An exception in the terminal callback is logged and swallowed
  (`tasks/supervisor.py:225`); settlement raises only for a cost that is no number.

## Proofs

TLC explores one instance; the theorems below hold for all. Each module of proofs shows
that an invariant is inductive and draws the properties from it. The assumptions are the
named `ASSUME`s of the modules, which the runs evaluate, and the hypotheses that a
theorem states itself.

| Module | Theorems, and the property of the runs each one states |
| --- | --- |
| `Generation_proofs` | of the ledger: `LedgerInvariant` (`LedgerInv`), `KeyBudgetKept` (`WithinKeyBudget`), `ScopeBudgetKept` (`WithinScopeBudget`), `PastPeriodsTakeNothing` (`PastPeriodsClose`), `LedgerKeepsAccounts` (`AccountsKept`), `ScopesAddUp`, `IndexCorrect`, `LedgerTypeCorrect` |
| | of the creates: `GenerationHolds` (`GenerationInv`), `TasksChargedOnce` (`ChargedOnce`), `CreatesWithinBudget` (both budgets), `OneGenerationIsPaid` (`OneGenerationPaid`), `OneGenerationPerKey` (`NoSecondGeneration`), `CreatesAreIdempotent` (`IdempotentCreates`) |
| `Routing_proofs` | `FallbackIsSound` (`FallbackSound`), `PlanIsSound` (`PlanSound`), `ErrorIsSpecific` (`ErrorSpecific`), `EstimateIsHonest` (`EstimateHonest`), `RegistryPicksAlike` (`RegistryAgrees`), `RouteInvariant` |
| `ConfigPublish_proofs` | `ConfigInvariant` (`ConfigInv`), `DiskAgrees` (`DiskMatchesRuntime`), `EditsKeptWhole` (`EditsAllOrNothing`) |
| `PluginLifecycle_proofs` | `PluginInvariant` (`PluginInv`), `ClosedUnused` (`NeverClosedInUse`), `NoneForgotten` (`LoadedAccountedFor`) |
| `PluginStore_proofs` | `PackagesAlwaysKept` (`PackagesKept`), `ChangesAreSeen` (`ChangesSeenRecord`) |
| `ProxyPath_proofs` | `ResponsesAreSound` (`ResponseInv`), `FailoverInOrder` (`FailoverKept`), `StreamsAreReleased` (`StreamReleased`), `BridgesAreSafe` (`BridgeSafe`), `ExchangeHolds`, `BridgeHolds`, `EndedBridgesClose` |
| `ProviderTasks_proofs` | `TasksAreSettled` (`ProviderInv`), `NothingIsGeneratedTwice` (`GeneratedOnce`), `TasksEndAsTheirVendors` (`EndsAgree`), `TasksHold` |
| `MediaRequests_proofs` | `InputsAreSupported` (`InputsSupported`), `DocumentedPartsAreSent` (`DocumentedPartsSent`), `AsksWithinBounds` (`AskedWithinBounds`) |

### The ledger

The theorems are about every set of keys, scopes, tasks and amounts, every limit and
every history of operations. The inductive invariant is `LedgerInv`. The budgets alone
are not inductive, because `hold` may check one day and record in the next one:
`NothingAhead` (no hold and no charge lies in a period ahead of the clock) says that the
new period is empty then. `Settleable` and `IndexSound` make release and settlement
remove exactly one hold. Sums are the cardinality of a set of units (a hold of amount 2
contributes two elements), so the theorems on finite sets say how a new, a removed and a
rebound hold change them; the lemma about a new hold takes the table as a parameter and
serves the key's and the scopes' sums.

`LedgerKeepsAccounts` is the refinement of `SpendingCap`: for every key and period, and
for every scope of a key, each step of the ledger is a step of the abstract account or
leaves it alone. A reservation grows only into room under the cap, a settlement gives
the reservation back and adds what was spent, in one step. The cap of a scope's account
is the operator's; the client's own limit of a hold can only be stricter. Its third
part, `ScopesReconcile` (a key's scopes have spent no more than the key has), needs an
invariant of its own, that the totals are of finite sets.

### Creates

`Generation_proofs` proves its theorems for any creates, keys, scopes, candidates and
tasks, any subset of creates that are cancelled or wait for their result, with the
shutdown anywhere. The inductive invariant is `GenerationInv`, which takes in the
ledger's. `HoldsOwned` and `ObservedTasksHeld` need to know what an attempt in flight
has: a hold of its own that carries the task only after acceptance (`AttemptsSound`),
and tasks that belong to one create and are indexed only after it (`TasksSound`).
Idempotency needs that the guard's queue has no create twice and that the one past the
guard is its head with nothing yet on record (`GuardSound`), and that what is on record
is the task of a create that was answered (`AnswersSound`). `AcceptedLast` says that an
accepted task is the one its create ends with.

Every theorem assumes `UniqueTasks`, that no two tasks get the same id from a provider;
the ledger's index has one hold per id, and a second task of that id would take over the
first one's entry. `OneGenerationPerKey` also assumes that nobody is cancelled
(`MayCancel = {}`: see the finding `generation_retry`) and is false without it.
`OneGenerationIsPaid` needs neither: calls that time out after the acceptance, failed sync
waits, cancellation and shutdown are all in it. Its argument is that a task which is
observed, held or charged has a bearer, a create whose `job` it is, and that every step
that gives up a task (the except branch of `execute_plan`) takes its reservation with it
before the next attempt replaces `job`.
`CreatesAreIdempotent`, the refinement of `IdempotentCreate`, needs none of them:
a create that is cancelled has no record, so the abstract create has not happened.

### Routing

`Routing_proofs` proves its theorems for any deployment, key, catalogue, aliases,
profiles and requests, any number of backends, credentials and models, any prices and
room in the budgets, any route plugins, and others who move scores and budgets. The
assumption (`RoutingAssumption`) is what the configuration's schema and the registry
establish: backends are named once, each has a credential, ids are not empty, an alias
stands for a model of the catalogue, amounts are not negative. What a request pins
resolves to a model of the catalogue, which `Init` requires of a run as well; the source
takes a model that nobody has described to have no limits and no price, which is one
more entry of the catalogue.

The plan is made in one step, so most of the work is about the operators that make it. A
filter (`Kept`) and a sort (`Sorted`) are instances of one operator, `InOrder`, which
puts at place k the member that k - 1 others precede. It is defined by counting and not
by recursion, so that `InOrderProperties` can be proved from the theorems on finite
sets: in a strict total order a member before another has fewer before it
(`BeforeProperties`), so each count below the cardinality occurs once. Ranks are tuples
in lexical order (`LexOrder`); `RankTells` shows that a rank names its candidate, so two
candidates never tie. `PinnedPlanSound` and `AutoPlanSound` then say what either kind of
plan is (`PlanFacts`): no candidate twice, each has passed the gates, those cooling down
are last of their kind, the stages are in order, and a plan without candidates has the
error its exclusions ask for.

`RouteInv` keeps these facts while plugins narrow the plan (`PluginRoutes` drops and
reorders candidates, so what survives it is what does not depend on the order) and others
move the store and the budget, and adds what is known between attempts: the candidates tried
are the first ones of the plan (`InTurn`), what moved the create on is the last outcome
(`MovesOn`, `LastFailed`), and what is held can be given back without passing the bound of
the room (`Returnable`). `FallbackFollows` draws `FallbackSound` from it. The
properties of steps are about the planning step and the accepting one, and follow from
`PlanFacts` in the state that `RouteInv` describes.

`FallbackIsSound` assumes `DistinctAccounts`: the credentials of a backend have ids of
their own. The configuration does not check that two credentials are given different ids
(`config.py`, `_cred_id`); with equal ids two candidates would share a key, and the
second would count as tried twice. The other theorems hold without it.

`RegistryPicksAlike` relates two programs. For a pinned model, the first of the backends
in the order of preference that carries the tag is what the registry finds by looking for
the default backend, then for the default tag, then for the first (`DefaultFirst`,
`DefaultTagFirst`). For `auto`, the registry and the planner list the same places
(`PlacesAlike`) by ranks of different lengths that order them alike when no model is
deprecated (`RanksAlike`), and an order that is carried over by a one-to-one map lists the
images in the same order (`InOrderImage`).

### Configuration edits

`ConfigPublish_proofs` proves its theorems for any set of edits, any settings, revisions,
crashes and plugin publications. They assume that an edit is cancelled at most once: a
second cancellation leaves a disk thread that nobody waits for, and the properties are
false then.

Agreement of file and memory is not inductive: it has to be known what a write that is
under way will leave. So the invariant says who may be where: only the holder of the lock
prepares or writes (`OneDiskWriter`, `StepsInOrder`), what it prepared was built on the
configuration in force, which cannot change under the lock (`BuiltOnCurrent`), and the
file is that configuration or the one about to be published (`DiskFollows`). What an edit
that ended, or is about to, has left in both is `TracesMatchSteps`. The lock's queue is a
sequence without repetition; a cancelled waiter leaves it by a cut and a join, since the
provers can show what `SubSeq` and `\o` do, but not what a filter defined by recursion
does. The idempotency guard of `Generation` is left in the same way.

### Plugin generations

`PluginLifecycle_proofs` proves, for any plugins, generations, requests and mutations and
whoever is cancelled, that no generation is closed in use (`ClosedUnused`) and that none
is forgotten (`NoneForgotten`).

A generation is closed when its counter says zero, so all rests on the counter being
exact. `UsersExact` states it as the cardinality of a set of uses, in which a request and
the task it created are two; lemmas on finite sets say how a lease, a pin and their
release change it, several at once where the code releases a list. The rest of the
invariant says what such a step must leave alone: what a mutation has loaded has no user
and is not yet active (`MutationsSound`), what is retired and loaded has users and is
waiting, and what is closed has none (`GenerationsSound`). Steps of requests, tasks and
the shutdown touch no mutation, steps of the mutation that has the lock touch no user;
each kind is treated once, in the lemmas about `Bystander` and `Holder`.

### The plugin store

`PluginStore_proofs` proves, for any requests, commits, edits, crashes and cancellations,
that package and record stay together (`PackagesAlwaysKept`) and that no request writes
over a record it has not seen (`ChangesAreSeen`).

`RecordedOnDisk` and `RecordedInPlace` compare package and record when an operation is
over, so the invariant follows the operation: what it staged is what it scanned
(`OperationSound`), and the original package is where the operation's stage says, in
place or set aside, as long as the record still names it (`OriginalKept`). A request that
has the lock with the revision in force saw the record in force (`RequestsCurrent`),
which is what the revision check of the code is for.

### The proxy and the plugin middleware

`ProxyPath_proofs` proves its theorems for any pipelines of plugins with any hooks, any
accounts, any body limit and any number of frames. It assumes that a pipeline is a
sequence of plugins and the limit a number (`PipelineAssumption`), and that there is an
account (`ProxyAssumption`: `forward` refuses a proxy without one before it tries).

The properties of a response look at its end, so the invariant (`ExchangeInv`) follows
it through the pipeline, in eight parts, each proved step by step on its own and using
the ones before: the plugins entered are the first ones of the pipeline (`EntryInv`),
messages and bodies have their types (`DataInv`), nothing is on the wire before the
response hooks are through (`WireInv`), a declared length is what was sent and what is
still to come (`LengthInv`), the hooks that ran are those behind the loop's position
(`UnwindInv`), an upstream response is open from the answer on, never behind a body
held back that is whole, and after a broken stream only if nothing of it was read
(`StreamInv`), and an attempt before the last was worth another
(`FailoverInv`). The sum of the lengths to come is, as in the ledger, the number of units
they have, so that sending one message is removing its units.

The bridge's invariant (`BridgeInv`) is about its own variables. Of each direction it says
(`PumpsInv`) that the frames passed on are the sender's first ones, that a running pump
has the others waiting in their order, and why a pump that ended did: the peer it
serves left, or the one it sends to. Two lemmas on sequences (`QueueSends`,
`QueuePasses`) carry this over a frame that arrives and one that is passed on.
`EndedBridgesClose` is the safety half of `BridgeCloses`.

### Adapters

`ProviderTasks_proofs` proves its theorems for any of the thirty adapters, any bounds on
calls and turns (`ProviderBounds`, `KnownAdapters`), and whatever vendors answer. The
invariant `TaskInv` has the adapter's side (`AdapterInv`, `VoiceInv`: when a call is in
progress, what its record can say), the gateway's side (`ShownInv`, `AgreeInv`,
`VendorInv`: what the snapshot says beside the record or the job, and what was done with
the reservation), and the count of generations per kind of adapter (`CountInv`). The
steps of the adapters reach the gateway's side in five ways only (`GatewayStep`: a poll
is shown, a create shows, a create ends, a wait ends, nothing), so each of the many
adapters' actions is reduced to one of these and the gateway's side is proved once. The
tables of `AdapterReplies` enter as lemmas on what a reading can say of a word, and the
vendors' words as lemmas that an adapter calls finished only what its vendor does.

### Limits and bodies

`MediaRequests_proofs` proves, for every request that the schemas admit
(`RequestsAssumption`: which roles, counts and lengths the request types have), with any
number of parts in any order, and for every model of the catalogue or of OpenRouter's
own, what its run enumerates for up to two parts. The tables of `ModelLimits` are data,
and the provers have to read them: lemmas state which models each table lists, that no
two list the same one (so the merged catalogue says of a model what its table says), and
what the entries of a table have in common. `VideoFamilies`, `ImageFamilies` and
`MusicFamilies` then reduce the adapters to the few ways in which they fill a body beside
what their models document, and the properties are shown once for each way. That parts
past the k-th are the only ones that `FirstOf` leaves out is a fact about cardinalities
(`Early`, `FirstOfFewer`); that truncation, rounding to even and clamping stay inside a
range with whole bounds is arithmetic (`Rounding`, `LengthKept`).

### Only model-checked

- The liveness properties: `EditsAnswered`, `RetiredClose`, `EditsPickedUp`,
  `EveryTaskEnds`, `EveryCreateAnswered`, `ReservationsEnd` and `BridgeCloses`. The
  provers know nothing of fairness.

Every other property of the runs that are to pass is stated by a theorem.

## Not modelled

- The ledger's rounding of money, `clear` (called by tests only) and the counters that
  feed the usage report.
- `TaskStore.delete` (nothing calls it), the read and list handlers, the uncached poll
  of `get`, `AudioService.prepare`.
- Building the registry from a configuration, the redaction of secrets, key creation by
  concurrent processes.
- Decay of selection scores over time, prices and context lengths.
- Prompts, sizes, voices and vendor parameters; headers, paths and query strings.
- Local and bundled plugin packages with conflicting ids.
- Translators, schemas, OpenAPI documents, logging, metrics and the console: conversions
  and reports that change no state the gateway reads back.

## Plan

1. A refinement that relates the generations' leases to an abstract reader-writer
   count, and the store's package to an atomic update up to `torn`.
2. The key file's creation (`secrets.py`) with two processes.
