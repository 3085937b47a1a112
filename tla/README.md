# agg2api, specified in TLA+

agg2api is a gateway that puts one OpenAI-compatible API (and Anthropic's) in
front of several upstream providers of language models.  A *public model* is
served by a *route*, an ordered list of *(provider, upstream model)* targets; a
request tries the targets in turn until one answers, a circuit breaker keeps
failing providers out of rotation, and every answered request leaves a row in a
usage log that feeds a dashboard.  This directory holds TLA+ models of the parts
of the gateway whose correctness depends on ordering, interleaving and partial
failure, the TLC configurations that check them, and TLAPS proofs of the
properties that matter most.

Paths of code below are relative to the repository (`src/gateway/executor.ts`).
`PROJECT.json` holds the exact correspondence: for every definition the lines it
translates, for every run its properties, for every property a faulty version of
the code that it catches.

## 1. Inventory

The program is one Bun process.  Each HTTP request is an Effect fiber; SQLite
(`bun:sqlite`, one connection, synchronous statements) holds everything that
must survive a restart, and a few maps in memory hold the rest.  Fibers share
nothing else: they interact through the tables, the session store and the rate
limiter's windows.  The dashboard is a single-page application that reaches the
same tables through the admin API, one request at a time, from the lists it
fetched last.

| component | state | operations | hard because | correct when |
|---|---|---|---|---|
| request path (`gateway/executor.ts`, `http/handlers-v1.ts`, `http/handlers-anthropic.ts`) | a fiber: plan, position, tries, attempts | plan, call, retry in place, fail over, commit, stream, settle, guard | fibers interleave at every call and sleep; clients leave; providers change under a plan; the process dies | calls are a walk down the plan; nothing is reported before everything was tried; every request concludes |
| circuit breaker (`db/health.ts`) | `provider_health`: failure count, deadline | recordSuccess, recordFailure, read at planning | late answers of requests planned earlier; two columns must agree | trips exactly at the threshold, never for ever, never sooner for one more failure, only for the provider's own faults |
| selection and ordering (`db/routes.ts`, `gateway/router.ts`) | `routes`, `route_targets` | resolveTargets, orderCandidates, preferPinned | two strategies, disabled and deleted providers | only usable targets, each once |
| session store (`gateway/sessions.ts`) | a bounded map key → provider, insertion time | lookup, record, forget, expiry, eviction | a hint that must never become a constraint; insertion order carries the eviction policy | never a wrong provider; the oldest goes first |
| usage accounting (`gateway/accounting.ts`, `db/usage.ts`) | `usage_log` | recordSuccess, recordFailure, queries, pruning | one row on every exit path, written by three handlers and two finalisers | one row per answered request that says what the caller saw and who was called |
| discovery (`gateway/discovery.ts`, `db/providers.ts`) | `provider_models` | discoverAll, discoverProvider, replaceProviderModels | overlapping passes write statement by statement; providers vanish under them; listings that are no listings | nothing leaves the catalogue without a reason; the catalogue converges |
| route synchronisation (`gateway/discovery.ts` syncRoutes, `db/routes.ts`) | `routes.auto`, targets | read providers, routes and models; upsert or delete each route | reads, then one transaction per route, beside the operator's edits | owned routes say what the catalogue says; the operator's are left alone |
| admission (`http/auth.ts`, `db/keys.ts`) | `api_keys`, the limiter's timestamps | authenticate, rateLimitFor, the sliding window, body and scope checks | the limit is read before it is applied; windows slide; keys are edited | no window lets more through than the limit; refusals are earned and honest about the wait |
| Anthropic and Responses streaming (`anthropic/convert.ts`, `responses/convert.ts`) | the open block, item positions, sequence numbers | one chunk in, events out; finish | tool calls interleave; items are announced lazily | what the client assembles is what the upstream sent |
| upstream adapters, SSE framing (`upstream/`) | decoder buffer, tool index | frames to chunks, errors to kinds | frames split anywhere; missing indices | a fragment stays with its call |
| conversations (`responses/convert.ts` toCanonical, toResponsesBody; `anthropic/convert.ts` toCanonical) | the messages built so far | one item or block in, messages out | calls, results, reasoning and text come in any order; one side has turns where the other has items | what was asked reaches the provider in its order, whole, each result after its call |
| credits (`db/credits.ts`, `gateway/discovery.ts` refreshCredits) | one snapshot per pool | refresh by the hour and by click | a failed refresh reads the last snapshot and writes it back | every snapshot is one that was taken |
| database and migrations (`db/database.ts`, `db/migrations.ts`) | schema, ledger of migrations, SQLite's write lock | migrate at start | two processes start on one file, either may crash in the middle | each migration once, whole, before anything is served |
| configuration (`config.ts`) | – | file under environment under validation | blank, absent and zero are three things | a blank variable never means zero |
| capabilities (`models/capabilities.ts`) | the cached models.dev index; facts in `provider_models` | load, vote, refresh, store and read back | the index is lost on a restart; sources disagree | what is known stays known; the outcome does not hang on the order of a document |
| admin API (`http/admin/`, `db/routes.ts`, `db/keys.ts`) | – | CRUD on providers, routes, keys; discovery; sync; usage queries | reads, validates, writes in separate steps; masked secrets come back | no save loses or discloses a secret, or stores something nobody asked for |
| boot and maintenance (`main.ts`) | – | boot; repeated discovery, credits and pruning | one failed pass must not end the loop | every process comes to serve and its loop goes on |
| dashboard (`web/src/`) | cached lists, open forms, one token dialog, a range selection, a page of the log | load, edit, save, toggle, page, select | works from lists that may be stale, answers come in any order | saves what it shows, undoes nothing, shows the slice it says it shows |
| listings and health (`http/handlers-v1.ts`, `http/healthz.ts`) | – | models, model card, probe | several statements while tables change | what is listed was servable at a moment of the reading |
| static files, scripts | – | – | – | not modelled, see section 8 |

What interleaves with what: a fiber gives way where it waits for an upstream, a
sleep or the SQL client's semaphore, or when Effect's scheduler preempts it
after its op budget; so **each step between two of those points is one action**.
Statements are synchronous and transactions atomic.  A client that disconnects
interrupts its fiber, which is possible while it waits for an upstream, a sleep
or a stream.  A restart keeps SQLite and loses fibers, pins and windows.

## 2. Modules

| module | models | composed with |
|---|---|---|
| `Breaker` | `breakerDeadline`, `isOpen`: pure arithmetic | extended by Gateway |
| `Routing` | `resolveTargets`, `orderCandidates` (as the set of orders it may return), `preferPinned` | extended by Gateway |
| `Gateway` | the request path with its shared tables | extends Breaker and Routing; instantiates UsageLedger |
| `UsageLedger` | *abstract*: what a caller sees of a request, and the rows the log then has | implemented by Gateway |
| `SessionStore` | the pin map in insertion order | instantiates HintStore |
| `HintStore` | *abstract*: a hint per session that may vanish and is never wrong | implemented by SessionStore; Gateway's `pins` with `PinLapses` are this store |
| `Catalogue` | discovery passes, route sync, operator edits, crashes | – |
| `Admission` | key lookup, limit, window, body, scope | – |
| `AnthropicStream` | the Anthropic translator as operators on its state, `toAnthropic`, a client that reads the events | extended by ResponsesStream |
| `ResponsesStream` | the Responses translator in both directions, `toResponses`, `fromResponses`, a client | extended by Streams |
| `Streams` | one streamed answer, from a provider to four clients, one of them behind a second gateway | – |
| `Wire` | one call of an adapter: status, lines, frames, in-band failures, usage, end | – |
| `Conversations` | `toCanonical` and `toResponsesBody` of the Responses protocol | – |
| `AnthropicTurns` | `toCanonical` of the Anthropic protocol | – |
| `RouteTables` | targets as `loadRoutes` and `resolveTargets` read them, and what `replaceTargets` makes of a list | extended by Listing and RoutePages |
| `Listing` | the model listings, a model's card and the health page, read statement by statement | extends RouteTables |
| `Settings` | how a configuration comes about: file, environment, validation | extended by Boot |
| `Boot` | processes that configure themselves, migrate one file and serve; SQLite's deferred transactions | extends Settings |
| `Credits` | maintenance and clicks that refresh the pools' credit snapshots | – |
| `Capabilities` | the models.dev index and the facts filed with a model | – |
| `Console` | the provider endpoints and the page that edits providers, with masked credentials | – |
| `ClientKeys` | the key endpoints and the page that edits client keys | – |
| `RoutePages` | the routes page, its form, its switch, and the route handlers | extends RouteTables |
| `TokenGate` | the dashboard's requests and the one token dialog they share | – |
| `Ranges` | the span and bucket of a usage report | extended by Reports and Charts |
| `Reports` | rollups and the paged log, read beside logging, deletion and pruning | extends Ranges |
| `Charts` | the range selector, the queries it keys and the answers | extends Ranges |
| `Subsequences` | what a filter keeps of an array, by the positions it keeps; an array sorted by a key; a flattened array | extended by Admission, SessionStore, Wire, RouteTables, ResponsesStream, Conversations and AnthropicTurns |
| `Grouping` | rows grouped by a key, and the sum over the groups | extended by Reports |
| `Foundations` | lemmas about numbers, counting and sequences that several proofs need | extended by the proofs |
| `GatewayTheorems` | proofs about the request path, its breaker, its routing and its ledger | extends Gateway |
| `CatalogueTheorems` | proofs about discovery and route sync | extends Catalogue |
| `UpkeepTheorems` | proofs about credits, configuration, migrations, the session store and capabilities | extends Credits, Boot, SessionStore, Capabilities |
| `DashboardTheorems` | proofs about the token dialog, client keys, charts, admission, the provider page and the routes page | extends TokenGate, ClientKeys, Charts, Admission, Console, RoutePages |
| `AnswersTheorems` | proofs about an adapter's call, the reports, the listings and both protocols' conversations | extends Wire, Reports, Listing, Conversations, AnthropicTurns |
| `StreamTheorems` | proofs about a translated stream | extends Streams |
| `MCGateway`, `MCCatalogue`, `MCBoot`, `MCCapabilities`, `MCPages` | instances for TLC | extend what they instantiate |
| `MCUpkeep`, `MCOperator`, `MCAnswers` | several parts side by side for TLC | extend the parts |

`MCUpkeep`, `MCOperator` and `MCAnswers` put parts side by side that share no
state in the code.  A variable `moving`, fixed in the initial state, names the
part that takes steps; the others rest in one of their initial states.  Since
no part reads another's variables, every behaviour of a part is a behaviour of
the whole and the reverse, and a property of a part means what it means alone.
Interleaving them would multiply the states and add no behaviour of any part.
Components that do share tables are one module (Gateway, Catalogue) or one
extends the other (Boot and Settings, RoutePages and Listing over RouteTables,
Reports and Charts over Ranges).

### Gateway

A request is a record: its shape (endpoint, streaming, session), a program
counter, the rows `resolveTargets` returned, its candidates, position and try, the
trail of answered calls, the error it would report and the answer its caller
got.  The program counter names the point at which the fiber waits next:

    idle → resolve → plan → call ⇄ backoff
                              call → credit → account | stream → done
                              call → blame → call | guard
                              any refusal → guard → done

| action | code |
|---|---|
| `Resolve` | `plan`: the routing query |
| `ReadStatus` | one round of `plan`'s loop: one row's breaker is read, with more rows to read |
| `PlanRequest` | the last round, then the ordering and the pin lookup, which run without giving way |
| `CallSucceeds`, `CallFails`, `Retry` | `attemptWithRetries`: one upstream call, classified; a retryable failure with tries left sleeps |
| `Credit`, `Blame` | `recordSuccess`, `recordFailure` of `db/health.ts`, with `remember`, or the next candidate |
| `Account`, `Guard`, `StreamEnds`, `Disconnect` | the handlers' `settle`, `guard` and finalisers |
| `ToggleProvider`, `DeleteProvider`, `PinLapses`, `Restart`, `Tick` | operator, session store, crash, time |

The breaker rows are read one statement at a time, and another request may record a
failure between two of them: a plan may hold a provider that was tripped after its
row was read, or one of a provider's two rows without the other.  Nothing waits
between the last read and the finished plan, so that stretch is one step.
`resolveTargets` is one step although it is three statements: the routing tables do not
change in this model, whether a provider is enabled is read by the join alone, and a
provider deleted between the join and `listProviders` is taken for one deleted before
the join.  An insert into `provider_health` for
a provider that was deleted violates its foreign key; the code turns that into a
defect (`orDie`), which the model keeps as an ending of its own.

### Catalogue

A discovery worker (one per pass and provider) holds the provider row *as it
read it*, asks the upstream, compares and then writes upserts and deletes one
statement at a time.  `replaceProviderModels` is not a transaction, and the
model does not make it one.  A sync reads providers, routes and one provider's
models after another, plans, and then applies one transaction per route,
reading each back.  `curated`, `stirred` and `quiet` are history variables for
the properties: what an operator wrote last, what changed beside the sync since
it read, and whether the catalogue changed.

### SessionStore, Admission

Both are single-step operations over data: the map in insertion order, and the
timestamps of a window.  In Admission the interleaving is between the database
reads and the limiter.  `granted` is a history of what was let through with the
limit in force.

### Streams

The translators are sequential; what makes them hard is the order the provider
speaks in.  A provider sends thinking, text, fragments of several tool calls
interleaved, finish reasons and usage in any order, then ends or breaks off.  A
payload is a kind, a key (the tool-call index), an identity (a call's id and
name, only on its first fragment) and a numbered piece; 0 is the empty string.
Each chunk carries one payload: the code takes a fuller chunk one payload after
the other against the same state, so nothing is lost by it, except for the
position of a fragment in its frame, which `frame` keeps.

| definition | code |
|---|---|
| `After`, `Events` / `Translated`, `Translation` | `chunkToEvents` of the two protocols: the new state, and the (at most four) events |
| `Ended`, `End`; `Failed`, `Break` | the finishing events; the error frame `catchAll` puts in their place, without `[DONE]` |
| `Counted` | the usage accumulator |
| `Relay` | `responsesAdapter.stream` with `eventsToChunk`, at a second gateway that has the first as its provider |
| `FragmentKey`, `Astray` | the canonical index of a fragment in `fromUpstreamChunk`, and the fragments it takes for the first call's |

The clients (`Legal`, `Expected`) are strict readers of the two protocols and are
not this repository's code: blocks in turn and numbered without gaps, deltas only
for the open block, sequence numbers without gaps.  The Anthropic one takes
the start of a tool block it knows as a resumption, which is what
`openToolBlock` relies on (and `test/anthropic.test.ts:452` expects).  `said`
records what the provider said and is read by properties only.

### Wire, Conversations, AnthropicTurns

`Wire` sends payloads as a provider may: on one or two data lines, with comments
and foreign fields between, with a failure in band, a terminator or none, and
with the connection ended or lost anywhere.  `sent` records it; the gateway sees
lines only.  The two conversation modules read a client's items, or one turn's
blocks, one after another, exactly as the loops in the code do, with the
carried-over reasoning or the pending parts as the state between two.  A text,
image or signature is a member of a small set: the properties tell pieces apart
by which they are and where they end up.

### Boot, Credits, Capabilities

`Boot` follows `withTransaction` down to SQLite's rule: the first read takes a
snapshot, the first write is refused at once if another connection holds the
lock or has committed since.  A refused starter exits and its supervisor starts
it again; a crash loses what the transaction wrote.  The file starts fresh or
as any release left it, and an operator may change it later.  `Settings`
has one number for each rule of the schema, and the texts that
`resolve` treats differently.  `Credits` keeps `observed`, the history of what
each pool has answered.  `Capabilities` takes documents of a few entries: the votes
depend on who lists a model and what each says.  An entry is named by its place, its
provider's in the document and its own in the provider's list, since the code lets the
earlier one win a tie; a list of modalities is a set.

### Console, ClientKeys, RoutePages, TokenGate

Each page is a record: the list it fetched last, its form and the request it has
under way.  A request is three steps, sent, handled and answered, and a handler
that reads before it writes is two steps itself, as another request may run between
them.  Several pages and a script work at the same tables.  In `TokenGate` a call is sent
with the token stored at that moment, waits for the dialog if it was refused, and is
sent once more; the header may open the dialog with nobody waiting.

### Listing, Reports, Charts

Readers of several statements, each of which sees the tables of its own moment.
Beside a reading, `witness` (Listing) and `view.walking`, `seen`, `since` and `torn` (Reports) record
what was true at some moment of it or throughout.  `cache` is the query client's: a page
of the log that was answered within `StaleTime` is shown from it without a request, with
its rows and its total of then (`Fresh`).  An entry that grows stale is dropped: the code still
shows it while it asks anew, which the model counts as the former page's answer, and the
operator of the model reads each answer before moving on.  In `Charts` the axis, the
selection and the answers are kept apart, because the axis slides as time goes by while a
handle is held.

## 3. Runs

| run | instance | question |
|---|---|---|
| `walk` | 2 requests; three targets, one provider owning the outer two; threshold 1; clock ≤ 1; fair | are the calls of a request a walk down its plan, with nothing left untried when a failure is reported; is a pin always earned, and does it never put back a row that was read as open; and does every admitted request commit or end? |
| `breaker` | 3 requests; one provider with two targets; threshold 2; longest cooldown 3; clock ≤ 3 | do count, deadline and cooldown stay consistent under races, and is every counted failure the provider's own? |
| `ledger` | 2 requests of every endpoint shape; weighted order | does the request path implement UsageLedger, and do the rows say who was called? |
| `sync` | 2 providers, 2 edits, changing listings, a curated target set | what does a sync promise about the routes it owns and those it does not? |
| `converge` | a maintenance and an admin pass, unreadable listings, renames and globs, a provider created, 2 edits, fair | does anything leave the catalogue without a reason, and does it converge? |
| `upkeep` | 2 starters and one crash over every kind of file and configuration; one pool refreshed by maintenance and a click; 2 discoveries and a restart over a changing index; 3 sessions with room for 2; 2 queries and a mutation sharing the token dialog; fair | does the gateway come up and keep itself going? |
| `operator` | 3 requests, 1 key, limits 0–2, window 4 ticks; a page and a script over one provider with two secrets, which save twice; two pages over one key; two pages over one route of up to 2 targets | are admission right while its key is edited, and the pages right while others edit? |
| `answers` | two interleaved tool calls in up to 5 pieces; up to 4 items or 5 blocks of a conversation; up to 4 payloads; 3 log rows in pages of 1, with answers fresh for one tick; 2 models over 2 providers; windows 1 and 2 on a clock to 3 | what do clients, providers and operators get told? |
| `disconnect` (violation) | 1 request | "called from every exit path of a request" – not when a client leaves early or after a defect |
| `curated` (violation) | a route sync created and the operator edited | "cleared when an operator edits" – `updateRoute` never clears `auto` |
| `position` (violation) | two calls, one reason, up to 2 pieces | "attributable to the right call" – not a fragment that states index 0 out of first place |
| `mark` (violation) | two targets of one priority | "the target that serves requests" – a tie is broken by the provider's priority, which the page leaves out |

**Why the bounds are enough.**  Every bound is a CONSTANT with its own name
(`MaxClock`, `MaxEdits`, `MaxEntries`) or a set.  Two requests are needed for a
failure recorded between another request's planning and its call; a third adds
a success between two late failures (`breaker`).  In `walk` the pinned provider may be
disabled when the pin is read, or one of its two rows skipped and the other taken; a
pin made by one request, tripped by a second and read by a third needs three, and is left
to the theorem (`AffinityBringsNobodyBack`), which holds for any number.  A threshold of 2 with three requests
reaches counts above the threshold, so the cooldown doubles and is capped at 3.
A route on which one provider owns the first and last of three targets is the
smallest on which position, provider and list order all differ.  `ledger` keeps
the clock at 0 because no row depends on time; ordering is `weighted` there so
that all permutations are taken.  Two edits let an operator (or a crash) act
once before a sync's read and once between its read and its write, or delete a
provider under a pass after creating it.

In `upkeep` two starters are all that a snapshot, a lock and a commit can set
against each other, and the one crash may fall at any step of either; a click
beside maintenance is the overlap of refreshes; the index is stale after one
tick (`INDEX_TTL_MS`) and two discoveries overlap within it; three session
keys are one more than the store holds; three calls can share, refuse and
reopen one dialog.  In `operator` a window of four ticks with seconds of two
makes the announced wait round up, and the clock of four lets the window slide;
a second page is what makes a list stale, and a script is what makes a masked
credential cross another save, and of two saves the second may come from a form that shows what the first
replaced; two targets are what an order and a tie need.
In `answers` two calls and five pieces open both calls, leave each and
come back to it, with thinking or text in between; four items or five blocks hold a call, what
comes between it and its result, the result and what follows; four payloads hold two
of content, a usage and a failure or terminator; three rows of two models in pages of one, under no filter and under one, have a page before, at and
after one that moves while it is read, and a page that is turned to again before its answer is stale; a clock that runs one past the longest window
slides an axis under a drag.  One usage request is under way at a time there
(`MaxAsked`); answers that come out of order are left to the theorem `HandlesTell`,
which holds for any number (with two, the run passes as well but takes too long to keep).

**Deadlock** is checked in the Catalogue runs.  In Gateway the system stops when all
requests are done, and so do a stream that has ended, a conversation that is
converted and clocks at their bound; that is legitimate.

**Symmetry** is used over requests and over the tabs of a route page, and only where
no liveness property is checked.

## 4. Properties

A `TypeOK` also carries what the code assumes of its data: an enabled provider
exists, a session map has no duplicate key, a window is sorted.  In the runs that put
parts side by side each part states one or two properties, which are
conjunctions of the named ones below.

Request path
- `TrailIsAWalk`, `NothingLeftUntried` – over the whole history of calls of a request: where each may start, follow and end.
- `FailuresAreEarned` – a count in `provider_health` never exceeds the number of (request, candidate) pairs whose last call failed by the provider's fault: not one per retry, none for `not_found` or a malformed request.
- `BreakerIsSound` = `TripsAtThreshold`, `CooldownIsBounded`; and `BackoffNeverShrinks` – the two columns agree; the deadline is within one longest cooldown of now; one more failure never shortens it, even one that was decided before another request's failure was recorded.
- `PinIsEarned`, `AffinityNeverResurrects` – affinity names only providers that answered this session; a row enters a plan only if its breaker was closed when it was read, and the pin neither adds a row nor drops one.
- `RowTellsTheTrail`, `ImplementsLedger` – the usage log against the calls made, and against what the caller saw.
- `EveryRequestConcludes` – liveness.

Catalogue
- `ReferencesHold`, `ModelsLeaveForAReason`, `CatalogueConverges` – against stale workers, failed listings, deletions and crashes.
- `SyncReconciles`, `SyncRespectsOwners`, `SyncKeepsTheSwitch` – what a sync may and must do, with the interference it does not survive stated as `stirred` and `quiet`.

Upkeep
- `BlankMeansUnset` – an empty variable gives the settings of an absent one, whatever the file says.
- `MigrationsHappenOnce` = `LedgerTellsSchema`, `ServesMigrated`, `NothingAppliedTwice`, `StartsKeepLaterEdits` – the columns a file has are those its ledger stands for, also after a crash inside a migration; nobody serves an older file.
- `ServesAndGoesOn` = `EveryStarterServes`, `MaintenanceGoesOn` – liveness: a refused or crashed starter ends up serving; maintenance comes round for ever unless a pool never answers or a discovery never ends.
- `SnapshotsAreTrue` – every balance stored is one its pool stated, at the time stored with it, whichever refreshers race.
- `CapabilitiesAreKept` = `VoteIgnoresOrder`, `StoredReadsBack`, `KnownStaysKnown` – where no host decides, two providers that change places change nothing that is voted on; a fact reads back as filed; and a discovery with an index blanks nothing it could decide.
- `StoreIsAHint` = `EvictionTakesTheOldest`, `ImplementsHints` – the bounded map implements the abstract store.
- `CallsAreHeard` = `WaitersHearTheDialog`, `EveryCallSettles` – nobody waits for a dialog that is not open; every call ends.

Operators
- `LimitHolds` = `WithinLimit`, `RefusalIsRight` = `RefusalIsEarned`, `RefusalIsHonest` – no window lets more through than the limit in force; a refusal means a full window, and the announced wait is the shortest that would do, to the second.
- `CredentialsAreKept` = `SecretsStayInside`, `RoundTripKeepsSecrets`, `FormKeepsKey` – no list carries a secret; saving what was shown changes none, even beside other edits.
- `KeysAreKept` = `SecretToldOnce`, `SwitchKeepsLimit` – a key's secret is told by its creation alone; a switch flipped from a stale list keeps the limit set meanwhile.
- `PagesTellTheRoute` = `MarkTellsWithoutTies`, `SaveStoresTheForm`, `ToggleKeepsTheRest` – the mark is right where priorities leave no doubt; a save stores the form; a switch flipped on a page that is behind never takes back another operator's strategy, and on one whose targets are as they are it changes the switch alone.

Answers
- `StreamIsFollowed` = `ClientsFollow`, `EndIsHeard`; `AnswerIsAssembled` = `AssembledAsSaid`, `FinalIsAssembled`; `PathsAgree` = `RoundTrip`, `WholeAgrees` – no client is sent an event it cannot place; it has what was said and how it ended; the terminal output agrees with the deltas, the unstreamed with the streamed conversion, and two gateways with one.  All of it unless a fragment of call 0 went astray, and then `FragmentsReachTheirCall` is violated (`position`).
- `ConversationSurvives` = `ResultsFollowCalls`, `ItemsSurvive`, `FieldsSurvive`; `TurnsSurvive` = `OrderSurvives`, `TurnStaysWhole`, `KnobsArrive`.
- `StreamIsHonest` = `FramesArriveOnce`, `EndIsHonest`; `CallIsTold` = `FailureTellsWhy`, `BilledAsStated` – a broken stream is never told as complete; usage is the last the provider stated.
- `ReportsAddUp` = `BreakdownsAddUp`, `PagingMissesNothing` – groups add up to the rows of their own moments; walking a filter's pages while rows are added shows all that were there at the start, when each page was asked for and none came from the cache.
- `ListingIsSound` = `ListingIsTrue`, `HealthIsTrue`, `MetadataIsRichest`.
- `HandlesTellTheSlice` = `SliceIsSummarised`, `OtherHandleStays`.

## 5. Fairness

- **Request path.**  Weak fairness of `Progress(r)` for each request: the runtime
  schedules fibers, an upstream call ends because `timeoutFail` bounds it by
  `request_timeout_ms`, and a retry's sleep is capped at 5 s.  There is no
  fairness on arrivals, on the end of a committed stream (nothing bounds it: the
  timeout covers the time to the first answer), on the client or on the operator.
- **Catalogue.**  Weak fairness of the start of the maintenance pass (`main.ts`
  repeats it and catches every cause) and of each worker's steps.  `listModels` has
  no timeout of its own, so the fairness of `Answer` rests on the fetch
  runtime's; without it a silent upstream stalls the pass, and the pass waits
  for all its workers.  No fairness on the operator, sync, or the admin's passes' start.
- **Boot.**  Weak fairness of each starter's next step: the runtime runs it, and a
  supervisor starts again what exited.  Crashes are bounded and unfair.
- **Credits.**  Weak fairness of maintenance's own steps.  Neither a pool's answer nor the
  end of the discovery that comes before the refresh is fair: `refreshCredits` waits for
  the one, `discoverAll` for `listModels` and `refreshIndex`, and none of these carries a
  timeout.  `PassesGoOn` names both: maintenance comes round for ever unless some pass
  waits for ever on a pool or in its discovery.
- **Token dialog.**  Weak fairness of replies and of the operator who enters a token;
  none on opening the dialog from the header.

In the runs of several parts the fairness of a part is conditional on `moving`:
the others do nothing, as nothing asks them to.

## 6. Proofs

All theorems hold for every set of requests, providers, sessions, every route
and every policy that satisfies the named assumptions
(`BreakerPolicyAssumption`, `RouteAssumption`, `GatewayAssumption`,
`CatalogueAssumption`, `KeysAssumption`, `ChartsAssumption`, `SessionAssumption`,
`CreditsAssumption`, `BootAssumption`, `AdmissionAssumption`,
`ConsoleAssumption`, `WireAssumption`, `StreamAssumption`, `RangesAssumption`,
`ReportsAssumption`, `TablesAssumption`, `ListingAssumption`, `PagesAssumption`,
`MissingAssumption`, `TurnsAssumption`, `CapabilitiesAssumption`).  These state what `config.ts`, the schema and the code's literals
guarantee: a natural threshold, positive cooldowns, a strategy among two, window lengths
above zero, a sentinel that is not a value, a file that some release left behind, a mask
that is no credential, a set of targets that fits the primary key of `route_targets`
(`FitsKeys`), finitely many public models, finish reasons among the protocol's, documents that are lists of finitely many providers and models.

| theorem | argument |
|---|---|
| `CooldownGrowsToTheCap`, `DeadlineSetAtThreshold` (Breaker) | arithmetic; the exponent is capped at 16, so the powers of two are compared one by one |
| `PinReorders` (Routing) | the pinned target's first position exists because positions are well ordered; the reordering is total and stays within the candidates |
| `TypeCorrect` (Gateway) | `TypeOK` is not inductive: `Current(q)` indexes the candidate list.  The invariant adds `Placed`: a fiber whose counter is at a place that reads its candidate has a position in its list.  `Raise` with a provider's error keeps it, which is why `guard` may name a provider |
| `BreakerTrips`, `CooldownBounded`, `BreakerSound`, `BackoffGrows` | `HealthInv`: the two columns agree and each deadline is at most *now plus the cooldown of its count* – the bound in the properties forgets the count, which the induction needs.  `HealthSteps` reduces every action to one of three: nothing, a clear, one counted failure |
| `TrailsAreWalks`, `NothingUntried` (Walk) | `WalkInv` says for each place a fiber can wait at what its *last* call justifies: the call it is about to make, the sleep, the blame, the success, the report.  `AnsweredWalk` extends a walk by a justified call; `ConcludeWalk` moves on or ends it; `FinishWalk` is every other ending.  `TriesBounded` turns "no try left" into equality |
| `PinsAreEarned` | a step keeps or drops a pin or sets it to the provider whose answer is the last of its fiber's trail (`PinSteps`), and a fiber's trail only grows under a plan that stays (`Follows`) |
| `AffinityBringsNobodyBack` | one round of the loop takes a row only when its breaker is closed (`StatusRead`); from `PinReorders`, a plan's candidates are the rows so taken, whatever was recorded since |
| `RowsTellTheTrail` | no row before the end, none after it (`DoneStays`), and at the end `WalkInv` says where the last call was |
| `FailuresEarned` | assumes that the requests are finitely many.  The property counts a fault as soon as it is answered, while the breaker counts it a step later, so the invariant counts only candidates that are *behind* a fiber (`Settled`); these never shrink (`FiberAdvances`), and each blame puts one there that was not (`BlameOwes`) |
| `LedgerImplemented` | step simulation, one abstract action per step: planning, calling and retrying are invisible; commit, answer, break, leave and drop map to their namesakes.  Uses `TypeInv` for the rows |
| `AnswersAreLogged` | the abstract ledger's own invariant (`PromiseKept`, proved once in `UsageLedger`) carried over the refinement |
| `References` | `ReferencesHold` is inductive with `TypeOK`: what a stale worker still has to write is stopped by the foreign key, not by the worker |
| `OwnersRespected`, `SwitchKept` | `ReadStillTrue`: what a sync read of a route nobody stirred is still what the table says, for the routes it has left to do |
| `TypeCorrect` (Catalogue) | `TypeOK` is inductive once a worker's and a sync's records are |
| `ModelsStay` | a worker deletes only what the list it read lacks, and only of a list that is one (`WorkersDropForAReason`): what it has left to drop is fixed when it compares, and writing only shrinks it |
| `SyncIsComplete` | `SyncKnows`: while nobody interferes, what a sync wants is what the tables call for, but for providers it has yet to read, and every route it has no more to do for is settled.  Applying one route settles that one and unsettles none |
| `SnapshotsTold` (Upkeep) | `RefreshersTell`: what a fiber is about to write is an answer of that very pool at that time, or the row it read, which was one.  `Sum` is a recursive function; that it has a value goes by `Inductive` |
| `BlankNeverCounts` | rule by rule over `load`: a blank falls through where an absent variable does |
| `FileIsMigratedOnce` | the five migrations are eleven statements in a row (`Plan`).  `Transacts`: a transaction has the rest of the plan before it and, if it holds the lock, a draft ready for it; if its snapshot is current the file is ready for it.  `Locks`: the holder migrates a file that needs it.  A stale snapshot therefore cannot write, and nothing can be applied twice |
| `HintsAreSound` | `StoreInv`: each key once, times ascending, each pin the last recording of its key.  Every operation keeps a subsequence and appends at most one pin, so eviction takes from the front, which is the oldest; one step of the map is one of `HintStore` |
| `CapabilitiesKept` (Upkeep) | voters are places, so swapping two providers is a bijection between the voters of both documents that keeps every entry (`SwapCarries`); ballots then have equal votes (`SameVotes`), and since an unambiguous winner is unanimous or has more than half of them, two winners share a voter and so a ballot (`SameWinner`).  What is stored names known modalities and an input, as only indexed entries vote, so it reads back (`ClaimReadsBack`).  `CapabilitiesInv`: a discovery that began with an index has a document when it writes |
| `LimitAlwaysHolds`, `RefusalsAreRight` (Dashboard) | `AdmissionInv`: the window in memory is the end of what was granted, and what was dropped of it has expired; so what the limiter counts is what was granted in the window that ends now (`RecentTells`), for that end and, shifted, for every other.  The wait announced is the ceiling of the oldest grant's remaining time |
| `CredentialsKept` | `ConsoleInv`: every list, form and request carries the revision it was made from; a row changes only with its revision (`GoesOn`), and at equal revisions the copy is the masks of the row.  A mask compared with the row the handler read is restored to what that row had |
| `WaitersAreHeard` | a call waits only in the states in which the dialog is open for it; inductive as `GateInv` |
| `SecretsAndLimitsKept` | `KeysInv` types the pages' lists, forms and requests, and says that a revealed key is one its page created; the limit is written by a form's save alone |
| `HandlesTell` | `ChartsInv`: the axis is as long as its window, the drag began from a slice in order, and an asked slice has its ends in order, so `readRange` never falls back |
| `CallsAreTold`, `StreamsAreHonest` (Answers) | `WireInv`: while a stream is open the lines buffered are those of the frame the provider has not closed, the client has a chunk of each frame before it, and the account is the last usage among them; the usages and chunks of one more payload follow from `Subsequence` |
| `StreamsAreFollowed` | `StreamsInv`: each client is where its translator takes it to be (`FollowsAnthropic`, `FollowsResponses`, `FollowsRelay`).  The reader has as many blocks as the translator's next index, the block it reads is the one the translator has open, and every tool block stands at its index under its name; the Responses client has an item at each place given out, and expects the next number; the second gateway has every announced call pending under a name.  A call that was named has a block and an item, which is why a later fragment without a name can be placed.  One payload is proved for an arbitrary translator and reader that are in step (`TakeFollows`, `TranslationFollows`, `TranslationRelays`), then used for all gateways |
| `AnswersAreAssembled` | `AssembledInv` on top of `StreamsInv`.  The block or item a piece goes to is the last of its kind, so the text of the kind grows by that piece (`Assembling` names what each client must do with one payload, and `ReaderConveys`, `ClientConveys` and `HeardConveys` show that it does).  A call's block, item and entry carry its name, names differ, and a fragment changes the one that has it (`Entries`, `NamesCalls`).  The translator's items are the client's, place for place (`ItemsMatch`), so the completing event repeats them |
| `WaysAgree` | `AssembledInv` once more, with two further parts.  `Relaying` follows the second gateway's client: it has all that was said of thinking and text, and of each call that had an argument, under the name the announcement gave (`KnowsNames`, `StandsFor`, `Arrived`).  `Ordering` says that the open block is of the kind told last and that, while nothing was told out of order, the blocks and the items' entries are those of the whole answer, of which nothing is there that comes after what was told last (`Orderly`); a payload then grows the last block or puts one at the end, as it does to the whole answer (`Grows`, `OrderStays`).  That a whole answer returns from `toResponses` and `fromResponses` is a fact of the conversions alone (`WholeReturns`) |
| `ReportsAgree` | `LogKept`: rows are numbered as they are logged and stamped with times that have come, so rows of a range that is over can only be pruned, which closes the report.  `GroupsAddUp`: group sizes add up to the size of the set, by induction on the groups taken.  `WalkHolds`: a row that was there when the walk began and has not been shown has a rank at or beyond the pages turned, whether the operator goes on, goes back or asks again; a page of the cache that is turned ends the walk |
| `ListingsAreTrue` | `ListingInv`: the witness has seen what is so now; what a reading has told of was on, or served, at some moment since it began, and a service that stood all along is ahead of the reading or told |
| `ConversationsSurvive` (Answers) | `ConversationsInv`: what the messages written become at the other side, followed by the calls not yet written, is what is awaited of the items read – an equality of flattened lists that one item extends at its end on both sides (`RenderedGrows`, `ExpectedGrows`).  `Placed`: every call is in one message or pending, and no result is ahead of its call.  The other fields are of finitely many shapes and go over one by one (`AskedTells`, `FieldsArrive`) |
| `TurnsAreKept` (Answers) | `TurnsInv`: what the model hears of the messages written and then of the words pending is what the client's turns say.  A turn that is over is held by a message (`TurnHeld`), and of the turn being read the pending calls and thoughts are all there are of its kind; no pending call is answered yet, so no result is ahead of it.  `PendingTells` is the flush, whether another message or the end of a turn causes it; `TakenQuietly` is every block that writes nothing yet |
| `PagesTellTrue` (Dashboard) | `PagesInv`: a request under way says what its page showed and knew; the targets of a page fit the keys, so two rows are one target only if they are one row.  The least target by (priority, provider's priority, keys) is first in `Ranked` order, and the mark is on it where priorities do not tie |

Two devices make the data provable.  What a filter keeps of an array is stated by the
positions it keeps (`Subsequence`), which the provers can count; `SelectSeq`, whose test is an
operator, they cannot.  A recursive function is a CHOOSE to them, so the induction that there
is one to choose is made over a *set* of lengths (`Inductive` in `Foundations`): the library's
induction rule takes an operator, which none of the provers can instantiate.  For the same
reason a sorted list is stated by how many come before each entry (`Ranked`), a list of lists
is flattened by a recursive function (`Joint`), and an entry of a map is set by `WithEntry`.

**Only model-checked**:
- liveness (`EveryRequestConcludes`, `CatalogueConverges`, `ServesAndGoesOn`, `CallsAreHeard`'s
  `EveryCallSettles`): TLAPS does not prove liveness under fairness;
- the four runs that expect a violation.

## 7. Where the code and its words differ

With a run:
- `src/gateway/accounting.ts:5` "called from every exit path of a request": a client
  that leaves before the answer leaves a row only on a chat completion that does not
  stream, and a defect leaves none (`disconnect`).
- `src/domain.ts:194-195, 206` and the repository's README say an operator's edit
  takes a route out of sync's hands: `updateRoute` (`src/db/routes.ts:175`) never
  clears `auto`, and the next sync rewrites it (`curated`).
- `src/web/src/views/Routes.tsx:105` calls the marked target the one "that serves requests":
  `preferredIndex` compares the targets' own priorities, while `resolveTargets`
  (`src/db/routes.ts:250`) breaks a tie by the provider's, and leaves out disabled
  providers, which the page does not look at (`mark`).

- `src/upstream/openai-chat.ts:215-216` says that falling back to the position "keeps argument
  fragments attributable to the right call": line 217 takes a stated index 0 for a missing one,
  so a fragment of call 0 that is not first in its frame is put with the call of its position
  (`position`).  The properties of the whole answer hold for every stream without such a
  fragment (`Astray`), and say so.

Noticed while modelling, without a run:
- A page of the request log that comes from the query cache (`src/web/src/App.tsx:58`) has the
  rows and total of up to five seconds ago: a row that was pushed from the page after it onto a page
  already read is skipped.  `PagingMissesNothing` is about pages that were asked for.
- `src/upstream/openai-chat.ts:186-187` and `responses-adapter.ts:101-102` know a failure by an
  `error` object or by `response.failed` and `response.error`.  A stream whose failure is told by a
  string, or by a frame of type `error` without the object, ends as complete (`Kinds` in `Wire`).
- `src/gateway/executor.ts:345` rethrows a refusal (an error no other provider
  could help with) without the trail that `src/errors.ts:51` says it carries, so
  its usage row counts one attempt.  `RowTellsTheTrail` excepts it.
- A route the operator creates while a sync is between reading and writing is
  taken over by the sync's upsert (`src/gateway/discovery.ts:302`, against
  "never touched" at 297-298).  `SyncRespectsOwners` excepts `stirred` routes.
- A provider deleted under a discovery pass makes the pass's insert fail its
  foreign key, and `orDie` ends the whole pass (`discovery.ts:158`), although
  one provider's failure is meant not to cost the others (`discovery.ts:65`).
- `DEPLOY.md:221` mentions per-IP limits: `rateLimitFor` has none for callers
  without a key (`src/http/auth.ts:142`).
- `src/db/database.ts:45` says each migration runs in its own transaction and the
  lock is taken first; all run in one deferred transaction (74-88).
- A stream of no chunks ends with `message_delta` and `message_stop` without a
  `message_start`, or with `response.completed` without `response.created`
  (`ClientsFollow` excepts it); the Responses `response.failed` frame has no sequence number.
- `src/responses/types.ts:260` knows providers that name a call on a later fragment.
  `openToolBlock` returns before it learns the name when the block is open, and has
  announced an empty one, so an Anthropic client never learns it; nor does a second
  gateway, which reads names from the announcement.  The modelled provider names a
  call on its first fragment, as `src/anthropic/convert.ts:418` has it.
- `src/anthropic/types.ts:181-182` says the stop reason is mapped from the first non-null finish
  reason; the code keeps the last (`src/anthropic/convert.ts:498`).  A chat stream states one, and a
  provider of the model may state several: `EndIsHeard` is about streams that stated one reason
  (`StatedSoFar`).
- `src/responses/convert.ts:465` says a turn that only called tools still gets an empty
  message item; the condition in 467 gives one only to a turn without calls, and only when it is not
  streamed.  `WholeAgrees` claims nothing of the items of a turn without text.
- A call that never gets an argument fragment is lost behind a second gateway: `eventsToChunk`
  makes no chunk of an announcement (`RoundTrip`).  `length` and `content_filter`
  endings are lost there too, and become `end_turn`.
- `touchKey` is called "fire-and-forget" (`src/db/keys.ts:156`) but its failure fails the request.
- `src/responses/convert.ts:97` keeps a reasoning blob for "the following assistant message":
  it waits until one comes, which may be a later turn's.
- `src/upstream/responses-adapter.ts:95` says `failureOf` exists because a failure frame "must
  never be lost"; its caller drops a frame that does not parse, a failure frame too.
- `src/upstream/sse.ts:37` says `splitLines` never yields an empty line; blank lines are what
  closes a frame.  The sentinel is right all the same, as a second blank closes nothing.
- A variable of blanks only is not empty: `Number(" ")` is 0 and is taken (`src/config.ts:155`).
- `src/db/database.ts:72-73` says a second starter waits and then sees the recorded version; the
  transaction is deferred, so one that has read before the other's commit is refused and exits.
- `src/gateway/discovery.ts:198-199` says a failed refresh stores an empty account list; it
  keeps the previous one (227).
- `src/models/capabilities.ts:381` has `lastError` null "while the index is loaded"; a failed
  `refreshIndex` keeps the index and sets it, and a failed `cachedIndex` sets nothing.  A
  discovery after a restart with models.dev down blanks what it had inferred (370-377).
- `src/models/capabilities.ts:339` speaks of a plurality vote, "not a first match".  Whether files
  may be attached and whether output can be structured are not part of the ballot (353): the
  first of the winning entries says them.  `VoteIgnoresOrder` is about what is voted on, and about
  models for which no host decides: of two providers with one host the first counts, even when
  it has no entry that is indexed (`buildIndex`, 307).  The ballot is a JSON text, so
  entries that list the same modalities in another order vote apart; the model's are sets.
- `providerUpdate` restores a masked secret from a row read before the write: two saves that
  cross can store a mask (`src/http/admin/handlers.ts:507`).  `RoundTripKeepsSecrets` says beside
  which edits a save is safe.  Two spellings of one header's name are both compared with the first.
- `src/http/admin/handlers.ts:411-413` says narrowing the range makes the chart finer; the
  dashboard always sends the whole window's bucket, so the derived one is not used.
- `/usage/log` answers with `stream` as 0 or 1 and `src/web/src/lib/log.ts:13` accepts `true`
  only, so the mark at `Usage.tsx:398` never shows.
- `src/web/src/components/BarChart.tsx:171` says the last bucket is labelled too; `slice(0, wanted)`
  (184) can cut it.
- `src/web/src/views/Keys.tsx:266` turns a negative or unreadable limit into 0, which is no limit.
- A switch on the routes page sends the targets it had loaded (`Routes.tsx:135-141`) and takes
  back what another page stored meanwhile: `ToggleKeepsTheRest` is about pages whose targets are current.
- `src/web/src/components/TokenDialog.tsx:41` says the whole batch of 401s costs one entry, and 85-86 that only
  failed queries are refetched.  A 401 that comes after the dialog closed opens another, and
  `invalidateQueries` (88) names no query, so a wrong token from the header is asked for again.

## 8. Not modelled

- **Amounts**: token counts beyond that they are the last stated and add up, costs,
  balances beyond where they came from.
- **The draw of the weighted strategy**: any permutation may come out; its distribution is out
  of reach of these tools.
- **Clock steps backwards**: the models' clocks only advance.
- **Text**: decoding bytes into lines, the wording of upstream errors (a call's outcome enters
  Gateway as the kind it was classified into), the hash of a session key, glob matching
  beyond the patterns the instances use.
- **Admin API**: the validation of bodies and parameters by `http/api.ts`, and the provider
  test, which stores nothing.
- **Dashboard**: layout, the shadcn components, formatting, themes.  Modelled is what a page
  keeps, sends and claims.
- **Static files, the scripts and the tests**: nothing there changes the gateway's state.

Two hazards are listed without a property, because what would bound them does not
exist: a committed stream has no idle timeout (`src/http/handlers-v1.ts:427`), and `listModels`
none at all (`src/gateway/discovery.ts:112`).  A liveness property could only restate the assumption
that upstreams answer; section 5 says where it is made.

## 9. Plan

1. Larger instances: three targets of three providers in `walk`, three starters in `upkeep`.
2. The validation in `http/api.ts`, where it decides what a handler is given.
