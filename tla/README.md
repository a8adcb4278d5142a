# Hermes Monitor in TLA+

A verification project for Hermes Monitor: a reverse proxy that forwards LLM
calls to OpenAI-compatible providers and records one row per call, an ingestion
API and a Python SDK that report calls without the proxy, and a settings page.
Line numbers refer to the repository at the commit these modules were written
for; `PROJECT.json` maps every definition to the lines it stands for.

## 1. The system

| Component | State | Operations | Talks to |
|---|---|---|---|
| Recording proxy (`backend/app/proxy.py`) | locals of one coroutine per call; `_shared_client` and its connection pool | completion routes (plain and streamed), pass-through, model list | providers over httpx; routing; settings; recording |
| Routing (`upstreams.py`) | none | parse the configured list, choose a provider for a model | settings |
| Recording (`recording.py`) | generations, traces, sessions (SQLite) | `record_generation`, `upsert_trace`, `_touch_session` | database session, price table, settings (privacy mode) |
| Ingestion API (`ingestion.py`) | one transaction per batch | `POST /api/public/ingestion` | recording |
| Database sessions (`db.py`) | the SQLAlchemy session, SQLite's write lock | `session_scope`: commit, roll back, close | - |
| Python SDK (`sdk/hermes_monitor/client.py`) | queue, lock, stop event, daemon thread | record, flush, shutdown, tick, exit hook | ingestion API |
| Settings (`settings_service.py`, `config.py`, `api/settings.py`, `settings.html`) | `app_config` table, environment, forms open in browser tabs | read with fallback, edit, save | proxy, recording, access control |
| Access control (`auth.py`) | none | `require_write` | settings |
| Cost table (`cost.py`) | prices cached by a file's mtime | `compute_cost` | recording |
| Tokens (`tokens.py`) | none | usage estimation | proxy |
| Statistics, listing, export, errors (`aggregation.py`, `api/*.py`) | none | read-only queries | database |
| Provider checks (`api/providers.py`) | none | fan-out over all providers | providers |
| Pages, start-up, packaging | none | rendering, wiring, containers | - |

What is hard here. The proxy serves all calls on one event loop: handlers
interleave at every `await`, share one connection pool, and re-read the settings
at several points of one call. A streamed response is a generator with five ways
out and only one `finally` block that records. The ingestion batch keeps using a
session after an event has failed in it. The SDK is really concurrent: threads,
a daemon, and an exit hook. The settings are layered (table over environment)
and the form keeps two representations of a provider in step by hand.
`PROJECT.json` lists every such hazard at its line with the properties aimed at
it, or the reason why none is.

What makes each component correct:

- *proxy*: one record per call whatever happened, for the provider that was
  called, with its true outcome; connections never leak; a call does not wait for
  another call's client.
- *routing*: some provider whenever one is configured; the first match wins.
- *ingestion and recording*: acknowledged events are stored, refused batches
  leave nothing, session counts agree with the stored rows.
- *SDK*: an event is sent at most once, is never in two batches, is taken up by
  the daemon, and does not stay behind at shutdown.
- *settings*: what was saved last is in force across restarts, and the two
  representations of a provider agree.
- *model list and provider checks*: what any provider offers is listed once,
  every failure is named, and the order is that of the settings.
- *tokens and costs*: the cached prices are those of the file, a session's sums
  are those of its rows, and a call that cost tokens is not recorded with none.
- *statistics and listing*: a client that pages misses nothing, and every bar of
  the trend counts its whole day.
- *SDK and monitor together*: from `record()` to the database an event is stored
  at most once and for good, and one whose post has returned is settled: refused,
  rolled back, or stored if it is sound.

## 2. Modules

| Module | Models | Kind |
|---|---|---|
| `Upstreams` | `resolve_upstream`, `_matches_model` | operators |
| `ProxyCall` (extends `Upstreams`) | `proxy.py`, with settings, pool, disconnects, crashes | state machine |
| `CallLedger` | the promise of the proxy: at most one row per call | abstract specification |
| `Ingestion` | `ingestion.py`, the write path of `recording.py`, `session_scope` | state machine |
| `SdkClient` | `client.py` | state machine |
| `ReportChannel` | the promise of the SDK, and of SDK and monitor together: at most one delivery per event | abstract specification |
| `Settings` | settings page, API, table, environment | state machine |
| `ModelFanout` | `list_models` of `proxy.py`, `api/providers.py` | state machine |
| `Metering` | `cost.py`, `tokens.py`, the usage `proxy.py` captures, the sums of `_touch_session` | state machine |
| `Dashboard` | `daily_trend` of `aggregation.py`, `list_generations`, `api/traces.py` | state machine |
| `HermesMonitor` (instances of `SdkClient` and `Ingestion`) | the SDK and the monitor, joined by HTTP requests | composition |
| `MCProxyCall`, `MCIngestion`, `MCSdkClient`, `MCSettings`, `MCModelFanout`, `MCMetering`, `MCDashboard`, `MCHermesMonitor` | constant values for TLC | model checking |
| `ProxyCallProofs` (with those of `Upstreams`), `ModelFanoutProofs`, `SettingsProofs`, `MeteringProofs`, `DashboardProofs`, `IngestionProofs`, `SdkClientProofs`, `HermesMonitorProofs` | theorems | TLAPS |

Operators named `Late...`, `Leaky...`, `Eager...` and the like stand next to a
definition and change it the way a plausible bug would. No specification uses
them: they are the mutants `PROJECT.json` lists, which show that each property
can fail.

### ProxyCall

An action is one segment of a handler between two awaits. `call[c].pc` says
where the handler of call `c` is:

| pc | The handler is | Actions out of it |
|---|---|---|
| `idle` | not running | `Refuse` (no upstream, 503), `Arrive` |
| `body` | awaiting `request.body()` | `BodyAborted`, `RejectOdd`, `NoRoute`, `Unsendable`, `Send` |
| `queued` | awaiting a pooled connection | `Acquire`, `RequestError` (pool timeout) |
| `sent` | awaiting the upstream's answer | `RequestError`, `RespondPlain`, `StreamOpened` |
| `reading` | the generator awaits a line | `UpstreamLine`, `UpstreamEOF`, `UpstreamBreak`, `Cancelled` |
| `yielding` | the generator is suspended at its yield | `ResumeAfterYield`, `ResumeOnOddLine`, `Dropped` |
| `closing` | in the finally block | `Finish` |

`settings` is the saved form; every read goes to the table, so a save
(`SaveSettings`) shows at the next read. A read may fail: `_db_or_env` swallows the
exception and takes the environment's value (`config.py:28`), so each read of a step
gives one of the `Readings`, the saved form or one of the `Fallbacks`, and the reads of
one call need not agree. `clientTimeout` is frozen in `_shared_client` by `GetClient`.
`pool` holds the calls with a connection. `generations` are the committed rows; `lost` the calls
whose `_record` caught an exception and only logged it. `gone` are the calls
whose client has left; the handler learns of it where the ASGI server raises or
drops the generator. `Crash` ends all handlers and the shared client; tables
stay.

Abstractions. A request is plain, streamed, passed through, or odd (JSON that is
neither an object nor falsy, for which `body.get` raises). A line is text, blank
(nothing to capture) or odd (JSON but no object). Fitting of a pattern is a
relation. A provider stands for its URL, key and label. The payload of a row is left
out, and with it the privacy mode (see section 5). External and modelled
from their use: httpx (limit of the pool, timeouts, `RequestError`,
`InvalidURL`, giving the connection back at the end or failure of a stream), and
the ASGI server. One assumption on the server: it enters the generator before
a disconnect reaches it, so a response whose generator never runs is left out.

### Ingestion

`open` to `Close` is one `session_scope`. The handler does not await inside, so
one batch is open at a time and other requests come between batches. An event is
ignored, has a model `compute_cost` cannot read, a column SQLite cannot bind, or
is good; it may name a trace and a session, and the session id may be unbindable.
`pending` is what has been added to the SQLAlchemy session and not flushed,
`tx` the database as the transaction sees it, `active` whether no flush has
failed. The interesting steps are `FailCost` and `FailTouch`, which leave objects
pending for a later flush, and `FailFlush`, which rolls the transaction back and
makes the session refuse everything until the batch ends. `MayLock` lets the
first writing statement of a transaction meet another process's lock for longer
than `busy_timeout`. `ProxyRecord` is the proxy's `_record` through the same
functions. `skipped` is a history variable.

### SdkClient

Each section under `_lock` is one action; posting is a separate one, so other
threads run between `Swap` and `Post`. `hand[f]` is the local `batch` of a
thread inside `flush()`. `Post` stands for `_post_json` returning, `PostFails`
for an exception of the HTTP library, `DumpsRaises` for `json.dumps` raising
before the `try`. `Exit` is the interpreter running the exit hook once the
application's threads are done; `Exited` abandons the daemon where it is;
`Kill` ends the process anywhere.

### Settings

`table` is `app_config`, `env` the environment, `tab[t]` the form of a browser
tab, `posted[t]` what a save under way carries. A save is `Submit` (page checks
and `require_write`), then `Write` (after the body was awaited) or `Aborted`.
The three keys are the JSON list, the older URL and key pair, and the access
token. `Restart` may change the environment. Abstractions: a provider is its URL
and key; only documents the page sends are posted; a tab has one save under way;
the token is checked when the form is submitted, not a network delay later.

### ModelFanout

One request (`kind` tells the proxy's `/v1/models` from the diagnostics) reads
the providers at `Ask`, and each fetch ends in an action of its own, in any
order; `SaveSettings` may come at any point. `Merge`, `MergeRaises` and `Report`
put the answer together once all fetches have ended. A fetch ends with models,
with a status of 400 or above, with a `RequestError`, with "odd" data that
cannot be iterated, such as null, or by raising another exception, such as
`InvalidURL`; `FetchRaises` is `gather` handing the latter to the handler. The
diagnostics read the items inside the fetch, so odd data raises there.
An item is a position, the fetch and the place in its list, and a list is put
together by ranks: `Listed` are the items whose key no earlier item has, `InOrder`
sorts them by `Precedes`, which is what walking the lists in the order of `gather`
comes to.
Abstractions: an item is its id, or has none; the key `label:id` is a pair;
`arrived` is a history variable. Fetches left over after an exception change
nothing that is modelled, so they are not followed.

### Metering

One call after another is counted, priced and stored; `step` says how far. The
handlers do this without an await, so calls do not interleave, but whoever edits
`prices.json` does: `Edit` (emptying it, writing it, moving another file there,
deleting it) may come between `Stat`, `Read` and `Keep`, the three steps of
`_load_prices`, and `Tick` advances the clock the mtimes are taken from. A load
that raises (`StatRaises`, `ReadRaises`) loses the call. `Captured` is what the
proxy rebuilds from the chunks of a stream, `Tokens` is `estimate_usage`, `Price`
is `price_for`, `Store` is the row and the sums of its session. `used` and
`reused` are history variables. Abstractions: a text is its length; prices are
whole micro-dollars per token, so that rounding to six digits is exact; a file
that is absent or unreadable has no entries, and an absent one mtime 0, as in the
code; which keys occur in which names is a relation (`Fits`); `tiktoken`, which
replaces the estimate of one text where it is installed, is left out.

### Dashboard

`rows` are the generations in the order they were stored, each with the time its
sender gave it and its status; `now` is the clock, in hours. A query is one
step, as its handler awaits nothing, except `daily_trend`, which reads the clock
twice: `TrendCutoff`, `TrendQuery` and `TrendShown`, between which time passes but
no call is stored. `OpenPager` and `NextPage` are a client that pages through
`/api/v1/traces`, over calls that come in meanwhile. A list ordered by time is
the set of its rows, in which a row's `Place` is the number of newer ones: LIMIT is
`FirstOf`, a slice's offset `From`. Abstractions: rows of one
time come in the reverse order of their storing, as SQLite walks the index; of a
call only the time and the status a filter looks at are kept; times are UTC, as the
SDK sends them (a foreign `startTime` with another offset is stored with the offset
dropped, which is not modelled). The headline, the model table and the error groups
are sums in one query each and are left out.

### HermesMonitor

The variables are those of `SdkClient` and of `Ingestion`, and five that join them:
`flight[f]` is how far the post of thread `f` is, `wire` holds the batches sent and
not taken up, `serving` the batch of the open session, `batches` the batch of every
request handled, `refused` the events of the requests turned away (the last two are
history variables). What is one step in `SdkClient`, a post, is here what it is in the
system: `Send`; `Refuse`, when the monitor answers before it looks at the batch, with
the 401 of `require_write` or the 500 of a body it cannot read, or `Serve`, when it
has the body; `TryEvent` for each event and `EndBatch`, which are the steps of
`Ingestion`; and `Reply`, after which alone `SdkClient` counts the batch as received,
or `GiveUp`, which may come before, while or after the monitor stores it. `Drop`
breaks a request off, `Crash` ends the monitor's process and everything sent to it,
`ProcessEnds` and `Ending` end the SDK's. `Content` says what `Ingestion` makes of an
event. Left out: proxied calls (they write through `ProxyRecord` in `Ingestion`) and
events of other senders. Whether a token fits is not decided from the settings: any
request may be refused, since the token may be saved or change with the environment
between any two.

## 3. Model checking

| Run | Expect | Question |
|---|---|---|
| `proxy_calls` | pass | is every call recorded once and truly, for the provider it used, and does no exit leak a connection? `LedgerSpec` is the refinement of `CallLedger` |
| `proxy_settles` | pass | do calls settle although other clients stop reading? is the captured text what was sent? |
| `ingestion` | pass | are acknowledged events stored, refused batches absent, sessions counted? |
| `sdk_client` | pass | is an event in exactly one place, delivered at most once (`ChannelSpec`), taken up, drained at shutdown? |
| `settings` | pass | is what was written last in force, and does the older pair agree with the list? |
| `model_fanout` | pass | is every offered model listed once and every failure named, in the order of the settings, whichever fetch ends first? |
| `metering` | pass | is the cached price table the file's, are sessions the sums of their rows, are no tokens lost? |
| `dashboard` | pass | does a paging client miss nothing, and does every bar count its day? |
| `hermes_monitor` | pass | is an event stored at most once and for good (`StoredOnceAtMost`), what does a returned post mean (`HeardOfIsSettled`), does everything on its way arrive or fail? |
| `odd_chunk` | violation | a chunk that is no object breaks the client's stream in the recording code |
| `sdk_exit` | violation | a batch in the daemon's hands is lost at process exit |
| `removed_provider` | violation | the last provider, removed and saved, stays in force |

The findings in `PROJECT.json` quote the line of the repository each violated
property comes from.

Bounds and why they are enough:

- *proxy*: two calls and one connection, so that the pool is contended and full; a
  model with a pattern of its own provider and one for the wildcard; two forms (no
  provider, two providers) that a save may switch between at any point, and an
  environment that names the second provider alone, which any read may fall back to;
  status codes below and above 400; one crash, which may fall between any two steps.
  `proxy_calls` has one line per stream and uses the symmetry of the calls;
  `proxy_settles` has two lines, so that a line may follow a captured one, and no
  symmetry.
- *ingestion*: two requests of up to three events (a failed event, what it left
  behind, a sound one after it), one trace and one session, so that the
  duplicates that matter happen.
- *model list*: up to three providers, two of them under one label, and lists of
  up to two items of two ids and none, so that one item is listed twice by one
  provider and by two; three provider lists to save, of which one is empty.
- *SDK*: two threads, three events of which one cannot be encoded, posts that may
  fail.
- *prices*: two ticks of the clock, so that two edits have the same mtime and two
  have not; four files (a full one with a short value, one that stops to be
  readable half way, one that raises, an empty one); two calls, so that a table is
  cached by one and met by the other; a key that occurs in a longer key's model.
- *dashboard*: three calls from the day before to the day after, days of two
  hours, pages of one row under a limit of three, a trend of two days over which
  one midnight passes.
- *SDK and monitor*: three events (one leaves a trace behind in the session, one
  of the same trace is sound, one cannot be encoded), one thread beside the daemon
  and the exit hook, two requests: enough for two batches to overtake each other
  and for a request to be stored after it was given up.
- *settings*: two tabs, two providers, lists of up to two (none, one and several
  are the cases of `syncHiddenFields`), one token, two environments.

Deadlock is checked for the proxy and the settings, which never stop, and for the
model list, where settings may always be saved. It is not for ingestion, prices and
dashboard, where a bound (requests, calls, hours) ends a run, nor for the SDK and
the composition, where the process ends.

Fairness. *Proxy*: weak fairness of everything the loop or a timeout of httpx
does for a call (`Acquire`, `Upstream`, `Finish`), and of leaving a yield once
the client is gone, which the server finds out at its next send. None for a
connected client: it may stop reading for ever, and then its call rests in
`yielding`, which `CallsSettle` allows for the call itself and for no other.
*SDK*: weak fairness of the daemon's tick (a timer), of each thread inside
`flush()` (the lock is held for a few instructions, a post has a timeout) and of
the end of the interpreter; none for calls of the application. *SDK and monitor*:
the same for the SDK, and weak fairness of `Monitor`: the event loop takes up a
request that has arrived and handles its batch to the end, since the handler does
not wait for anything. A post that is not answered times out, which is fairness of
`Flush`; nothing is assumed of the network, which may drop every request.

## 4. Proofs

TLAPS proves the following for all values of the constants, under the named
assumptions of the modules, which state the types of the constants and that the
marker values are no data (`HermesMonitor` restates those of its two parts as
`PartsAssumption`, and bounds a batch by the number of events). TLC evaluates each
of them in the runs.

- `ProxyCallProofs`, on routing: it returns a configured provider, and none only for
  an empty list (`ResolveUpstreamType`); the first fitting provider wins
  (`FirstMatchWins`); a model that fits nothing goes to the first provider without
  patterns, or to the first of all (`DefaultOtherwise`: a "*" never gets to be a
  default for a model that has a name).
- `ProxyCallProofs`, on the proxy: type correctness (`TypeCorrect`) and, from the
  inductive invariant `ProxyInvariant`, the theorems for `RecordedOnce`,
  `RowsAttributed`, `StatusTruthful`, `CaptureFaithful` and `PoolAccounting`. The
  invariant adds to the five what they need to be inductive: which program counters go
  with which kinds of call, that a call has a route exactly from `queued` on, that a
  call short of its end has neither row nor logged failure, that it has a status code
  exactly when a stream is open or an answer came, and how a generator was left. The
  proof has one step per action; since a step changes one call only, each conjunct is
  shown for that call and carried over for the others. From the same invariant the
  refinement of the ledger, `ProxyImplementsLedger`: initial states map to initial
  states; `Send` maps to `Open`, the recording steps to `CloseRecorded` or
  `CloseUnrecorded` according to the write's outcome, refusals to `Refuse`, `Crash` to
  `Crash`, and everything else to a stutter.
- `ModelFanoutProofs`: types, `MergeComplete` and `OrderKept`. The answer is given in
  one step and read in later ones, while settings are saved: the invariant (`Typed`,
  `AnswerInv`) says that it stays what was put together from the fetches. The rest
  is about one state. Ranks differ (`RanksDiffer`) and every rank below the number of
  items is taken (`RanksTaken`: an injection into a finite set of the same size is
  onto it), so that a list by ranks holds each item once and in order (`Ordered`); of
  the items with one key the one of the least rank is listed (`FirstListed`), which
  makes the listed items and the offered models equally many.
- `SettingsProofs`: from `SettingsInvariant` (the table is what some tab wrote,
  and every form, open or on its way, is one `syncHiddenFields` leaves as it is)
  follow `SavedInForce`, `PairAgrees` and the types.
- `MeteringProofs`: types, `CacheCurrent`, `SessionTotals` and `NoZeros`. For the
  cache, the invariant (`CacheInv`) follows the table on its way
  into it: an mtime identifies the content of the file unless it is given
  twice, so what was read under the file's present mtime, kept or not yet, is what
  the file holds. That the mtime is taken before the reading is what makes the step
  `Keep` go through. For the rest, the invariant (`Typed`) says that a table is a dict
  in order with the built-in keys first (`Tables`), which a merge of any file keeps
  (`MergedTable`) and which decides what a key of the file can change
  (`BuiltInKeyWins`); `SessionTotals` and `NoZeros` are inductive beside it, by what a
  sum gains from one row more (`OneRowMore`, `SumAtLeast`).
- `DashboardProofs`: types, `TrendComplete` and `PagesMissNothing`. The trend's query
  cuts off at an hour, the trend at days chosen at a later hour. The invariant
  (`TrendInv`) says that no day that can still be chosen begins before the cutoff,
  whatever time goes by; that days follow hours (`DaysInOrder`) makes every step go
  through. The pager's (`PagerInv`) is the property, that each call that was there at
  the beginning has been seen or stands behind the offset, and that these calls pass
  the client's filter: an insertion moves rows back only, and a page that is not full
  has no row behind it (`FullPage`, from the fact that places are taken without a
  gap). A page whose offset is not below its limit is empty (`OffsetBehindLimit`).
- `IngestionProofs`: types, `AckedEventsStored`, `AllOrNothing` and
  `SessionCountsUpserts`. These speak of answered batches; the invariant
  (`IngestionInv`) speaks of the open one: a sound event that was tried has a row
  that is flushed or pending, unless a flush has failed (`SoundKept`); whatever is
  not committed belongs to the open batch (`Uncommitted`), so a rollback takes no
  other batch's rows; what the transaction has counted is what it holds less what
  was skipped, and the same of the database (`Counts`, twice, because a rollback
  goes from one to the other); and no event has two rows (`UniqueKeys`).
- `SdkClientProofs`: types, `OnePlace` and the refinement of `ReportChannel`
  (`SdkImplementsChannel`). `OnePlace` counts copies, which is awkward to carry
  through a step; the invariant (`SdkInv`) says instead in which place an event is
  and that it is in no other, and that no sequence holds an event twice. The counts
  follow from it at the end.
- `HermesMonitorProofs`: types, `HeardOfIsSettled`, and the refinement of
  `ReportChannel` from the application to the database (`StoredOnceAtMostAlways`).
  The composition takes the steps of its parts, so `SdkInv` and `IngestionInv` hold
  of it, by the two step lemmas proved above and not again. `JointInv` adds what
  neither part can say: an event that was sent is in one request, whether on the
  wire, being served or handled (`Once`), and is neither in the queue nor in a hand
  that has not sent it (`NotAgain`); a row names an event of its batch (`Filed`);
  an event of a request that was turned away is on the wire no more and in no batch
  (`TurnedAway`); and a post is answered only for such a request, or for a batch handled
  to the end (`Replied`, `Heard`). `HeardOfIsSettled` follows: by `TurnedAway` and
  `Filed` a refused event has no row, by `AllOrNothing` one of a batch answered 500 has
  none, and by `AckedEventsStored` a sound one of a batch answered 200 has one.
  With `Filed` and `Once` an event has one row at most, so its fate can be read off
  without counting, and each step either accepts an event, settles some, or shows
  nothing: every row a commit adds is of an event that was on its way.

Two facts stand in for induction over data, which the provers cannot instantiate: a
set of naturals that is not empty has a least element (`LeastNumber`, from the
well-foundedness of <), and among sets of elements of a finite set one contains no
other of them (`LeastSubset`). A fold of the community modules is the choice of a
function with a recursive equation: that there is one, and what it returns, is shown
for the least argument where it would fail (`PutsExist`, `SumIsCount`).

Every safety invariant that a passing run checks is stated by a theorem, and so are the
refinements. Only model-checked are the liveness
properties (`CallsSettle`, `LeftCallsSettle`, `EventsTakenUp`, `ShutdownDrains`,
`EventsSettle`), which the prover does not reach under fairness; and the statements of
the three violation runs, which the code does not keep.

## 5. What the models show beyond the properties

- A batch whose events each failed "on their own" can fail as a whole at the
  commit: one event with an unbindable column takes the sound ones with it. The
  answer is then 500, so `AckedEventsStored` holds; but the SDK ignores the
  status code and does not send again.
- An event logged as failed may be stored all the same: what its attempt left
  pending is flushed by the next event. Under a lock of more than five seconds
  its row is stored without being counted in its session; `SessionCountsUpserts`
  states exactly how the count and the rows are related.
- A streamed call that meets a network error before its first byte is answered
  with status 200 and an error body, where a plain one gets 502.
- A stream that the upstream cuts off after a 200 status line is stored as a
  success with half its text (`proxy.py:392` looks at the status code only);
  `StatusTruthful` says what the stored status does mean.
- The privacy mode fails open. `_payload_for_storage` reads it from the settings table
  when the row is written, once for the prompt and once for the completion. A read that
  fails, on a locked or damaged database say, is swallowed and gives the environment's
  mode, or "full" (`config.py:28`, `recording.py:56`): the payload is stored in full while
  `metrics_only` is saved, although `CHANGELOG.md:159` promises a placeholder in that
  mode. `SavedInForce` has the same limit: it is about reads that succeed.
- The cards of the overview page that say today (`overview.html:7`-`9`, `README.md:134`
  and `315` of the repository) show the sums of all time: `pages.py:85` calls
  `overview()` without a start. "today" in `/api/v1/stats/overview` is from midnight, and
  in `/api/v1/stats/models` it is 24 hours; the model table of the statistics page is of
  all time (`pages.py:122`).
- A post that the monitor refuses with 401 is over for the SDK: `_post_json` looks at no
  status (`client.py:48`), so with a wrong token every event is dropped in silence.
  `HeardOfIsSettled` says what a returned post does mean.
- The settings API shows a blank row as blank although the environment's value is
  in force then.
- An event that cannot be encoded takes its whole batch with it, and an
  application that calls `flush()` itself gets the `TypeError`, although the module's
  docstring says that public methods swallow exceptions (`client.py:4`).
- A saved timeout is without effect until a restart, as the shared client is made
  once (`proxy.py:93`); the change log says that saved settings apply at once.
- One provider whose answer below 400 cannot be read (`"data": null`) makes the
  whole model list a 500 (`proxy.py:455`); README.md:70 of the repository says that
  one provider's failure does not affect the others.
- A key that `prices.json` adds comes after the built-in keys, and the first key
  that occurs in a model's name wins: a new "gpt-4o-audio" is never reached behind
  "gpt-4o". The name is lower-cased and the keys are not, so a key in mixed case
  never fits.
- An entry of `prices.json` that is no number is skipped with all that follow it,
  but one of a wrong type, or a list at the top, raises out of `compute_cost`
  (`cost.py:101`): no call with a model is recorded until the file is mended.
- Two edits within one tick of the file system's clock, or a file put back under
  its old mtime, leave the table as it was.
- A streamed call captures `delta.content` only: streams of the older completions
  API and reasoning text count as no output when the provider reports no usage, and a
  prompt given as a list counts as no input (`tokens.py:90`): `NoZeros` is about texts
  that are counted. A
  failed call is charged for its estimated prompt.
- In `/api/v1/traces` an offset at or above the limit is always an empty page, and
  no row behind the 500th can be reached. `PagesMissNothing` holds of a client that
  raises the limit with the offset.
- `MAX_PAYLOAD_BYTES` is read by nobody: `record_generation` keeps its default
  (`recording.py:108`).

## 6. Not modelled, and the plan

In this order:

1. `Forwarding`: URL joining and header rewriting as operators, and the theorem
   that the client's credentials are never forwarded.
2. The proxy's calls in `HermesMonitor`, beside the SDK's batches.
3. The event loop while SQLite is locked: a handler that waits for the lock, for up
   to five seconds, stops every other call with it.

Not planned: page rendering, start-up and packaging, which keep no state of their own;
the headline, the model table and the error groups, which are sums in one query each;
the payload of a row and the privacy mode; the formats of the exports; `tiktoken`;
partial documents posted to the settings API by hand.
