# plone.observability in TLA+

This directory holds TLA+ models of plone.observability, the TLC configurations
that check them on small instances, and theorems about them that TLAPS checks
for every value of the constants. Paths below are relative to the package
directory `src/src/plone/observability/`.

- [Inventory](#inventory): the parts of the system, their state and hazards
- [Modules](#modules): which module models which part, and how
- [Runs](#runs): what each configuration checks, with which bounds
- [Divergences](#divergences): documented behaviour that the code does not keep
- [Fairness](#fairness)
- [Proofs](#proofs)
- [Not modelled](#not-modelled)
- [Plan](#plan)

## Inventory

| Part | Source | State | Operations | What is hard |
|---|---|---|---|---|
| health probes | `health/server.py` 18-187 | last result and its time, running mark, stuck warning, startup latch; one lock | `/live`, `/ready`, `/startup`, `check_readiness` | a thread per probe; checks that hang for minutes or raise; two critical sections with an unbounded gap between them |
| health lifecycle | `health/server.py` 189-216, `health/wsgi.py`, `health/checks.py` | the listening socket, its thread, the database reference of the ZODB check | `start`, `stop`, `make_filter`, the check | order of wiring; a second start while a server is up; stopping while probes hang |
| request metrics | `metrics/providers/request.py` | per auth class count, sum, maximum, histogram, errors; one lock | the middleware, `record`, `take_max`, `collect` | workers record while scrapes read without the lock; applications that raise; clock steps |
| gauge cache | `metrics/providers/zodb.py` 17-53 | one entry per database, one lock | lookup, query, store | queries outside the lock overtake each other; the clock is set back |
| activity monitor | `metrics/providers/zodb.py` 72-130 | totals and lock of the monitor, `_monitor`, the database's slot | `closedConnection`, `_ensure_activity_monitor` | connections closed by all threads; scrapes racing to install |
| load deltas | `otel/dbcounts.py` | none (reads the connection's counts) | `read_counts`, `annotate` | nested spans read counts that closing resets |
| content cache | `metrics/providers/content.py` | one entry per site id, one lock | collect per site, store, eviction | collection outside the lock, eviction from a scrape's own list, swallowed failures |
| conflict counter | `metrics/providers/conflict.py` | two counters, one lock | `on_pub_before_abort`, `collect` | retries |
| stateless providers | `metrics/providers/system.py`, `zope_runtime.py` | none | `collect` | what is left out, and when |
| metrics view, formatters | `metrics/view.py`, `metrics/formatters.py`, `metric.py` | none | provider loop, choice of a formatter, `format` | failing providers, after a maximum has been taken out of the tracker |
| access control | `metrics/access.py` | none | `is_allowed` | the walk over `X-Forwarded-For` |
| authentication capture | `auth.py` | a key of the request environ | `capture_auth` | which environ is read |
| request tracing | `otel/pubevents.py`, `otel/transformchain.py`, `otel/exclusions.py`, `otel/subrequest.py`, `spans.py` | spans, tokens and counts in the request environ, the OpenTelemetry context | publication and transform chain subscribers, the subrequest wrapper | spans opened in one callback and ended in another, with retries, swallowed exceptions, aborts |
| commit tracing | `otel/zodb.py` 17-39, 85-102 | open spans per transaction | `beforeCompletion`, `afterCompletion`, `register` | registered in one thread, transactions end in others |
| patching | `otel/catalog.py` 40-91, `otel/rendering.py`, `otel/zodb.py` 46-82, `otel/subrequest.py` 72-91, `otel/instrumentors.py` | lists of replaced methods | instrument, uninstrument | repeated set-up, inherited methods, aliases, other packages patching the same methods |
| activation | `otel/provider.py`, `otel/wsgi.py` | a flag | `make_filter`, `setup_tracing` | one-time set-up |

**How they interact.** The WSGI pipeline is built once, in the main thread: the
filter factories start the health server (its own threads from then on) and
register tracing. Worker threads then run requests: the request middleware
around everything, inside it the publisher, which notifies the tracing and
conflict subscribers and completes the transaction (commit tracer) before the
connection is closed (activity monitor). `@@metrics` is itself such a request;
it calls every provider's `collect`, several scrapes may overlap, and they share
the trackers and caches at module level with all workers. The health server
shares nothing with them but the database.

**What makes each part correct.** Probes: one readiness run at a time, never a
wait for another one's check, no positive answer from a stuck or partial run, a
latch that never reddens. Trackers: no event lost, counters that never fall.
Caches: nothing served beyond its TTL, entries that do not outlive what they
describe. Tracing: whatever is opened is ended once, in the attempt that opened
it, and excluded requests are silent. Patches: a call is traced once and reaches
the function it reached before. Server: probes meet a wired server, and the
server that is up is the one `stop()` finds. `PROJECT.json` lists the hazards line by
line with the properties that would catch each of them.

## Modules

| Module | Models | Composed with |
|---|---|---|
| `ReadinessProbes` | the probe endpoints and `check_readiness` | refines `OneFlight` |
| `OneFlight` | what `check_readiness` promises: one caller out, everybody else served the published result or refused | abstract specification |
| `RequestMetrics` | middleware, `record`, `take_max`, `collect` | |
| `GaugeCache` | `_expensive_global_gauges`, under a clock that may be set back | |
| `SiteCache` | `ContentMetricProvider.collect` | |
| `ActivityMonitor` | the load monitor, its installation, and the span deltas over the same counts | |
| `RequestTracing` | publication, transform chain, commit and conflict subscribers | |
| `AccessControl` | `is_allowed` | first part of `MetricsView` |
| `MetricsView` | a whole scrape: access, choice of a formatter, all providers, both formatters | extends `AccessControl` |
| `HealthLifecycle` | `make_filter`, `start`, `stop`, a thread per probe, the wiring of the ZODB check | |
| `Patching` | instrumenting and uninstrumenting methods of other packages | first part of `TracingSetup` |
| `TracingSetup` | building pipelines with tracing: tracer provider, patches, `plone.subrequest`, I/O instrumentors; rendering through the patches | extends `Patching` |
| `Sums` | what adding one element to a sum over a function does to it | used by the proofs |
| `HealthProofs` | theorems about `ReadinessProbes` and `HealthLifecycle` | |
| `TracingProofs` | theorems about `RequestTracing`, `Patching` and `TracingSetup` | |
| `MetricsViewProofs` | theorems about `AccessControl` and `MetricsView` | |
| the other `*Proofs` | theorems about the module they extend | |
| `MC*` | symmetry sets and values for TLC | |

Conventions. A module has one variable per attribute or dictionary key of the
code, named as there, one per thread-local place (`pc`), and history variables
that no action reads, declared as such. An action is a critical section, a
callback, or the code between two points at which other threads can see or
change something. Operators whose comment begins with *Mutant:* are variants of
the definition below them with a plausible mistake (a dropped guard, a missing
reset); no behaviour contains them, they document which mistake each property
catches.

**ReadinessProbes.** A probe arrives (`Arrive`), is dispatched by path
(`HandleLive` with either verdict of the liveness checks of other packages, which
may also raise, `LivenessRaises`; `HandleReady`; `HandleStartup`), and `check_readiness` is one of
`AnswerFromCache`, `AnswerFromLastRun`, `AnswerInProgress` or `StartRun`, its
first critical section. A run calls the checks one by one (`RunCheck`,
`CheckRaises`), which take as long as the environment (`ChangeHealth`) keeps
them hanging, and ends in the second critical section (`Publish`, `Abort`).
`Latch`, `ReadLatch`, `Deliver` and `ClientGone` are the rest of the handlers.
Time is kept as ages that saturate at the threshold they are compared with,
which loses nothing: the code only asks whether an age is below it.

**RequestMetrics.** `record` is split wherever a reader without the lock can see
a difference: after the count, the sum, each bucket and `+Inf`. `collect` is
split at each of its reads. `take_max` waits for the lock, and is split between
its read (`ReadMax`) and its reset (`ResetMax`). Histories are `window`, what has
been recorded since the last reset, and `taken`, the window that a scrape's reset
ended: a request recorded between the two would be in neither maximum, or in two.

**GaugeCache and SiteCache.** A gauge is represented by when it was read, the
list of a site by whether an index failed and by which site of its id it is
about. Lookups and stores are atomic (they
hold the lock), collections are not. In `GaugeCache` the clock may be set back
(`SetBack`); `back` is by how much in all, so that `clock + back` is the time
that has really passed. A reading may then be served for longer than the TTL, and
`NeverStale` says by how much: exactly what the clock was set back by between the
time its entry is dated with and the start of the scrape (`slipped`). What it was
set back by before or after adds nothing. In `SiteCache` a
scrape sees the database as it was when its transaction began (`Begin`), and
dates what it collects from that snapshot with the time at which the provider's
turn came (`TakeTime`); `lag` is the longest that any scrape has taken in
between. Sites come, go and break at any time, and one that goes may be followed
by another under the same id, which the code does not tell apart (`of`). An index
that is missing is missing in the snapshot; a catalog backend that keeps its
indexes elsewhere fails by what is so when it is asked (`CollectSite`).

**ActivityMonitor.** Each connection has the count that ZODB keeps. Closing
reads and resets it, then adds under the lock in two halves (`ReadTotal`,
`AddToTotal`), so that a missing lock would show. Scrapes install through
`Lock`, `Look`, `SetActivityMonitor`, `Remember`, `Unlock`. Another package may
put its monitor into the slot at any time (`ForeignMonitor`), also between
`Look` and `SetActivityMonitor`, and may then read and reset counts itself
(`CloseElsewhere`; `elsewhere` is what has gone that way). `slipped` remembers
that it came in between, the one case in which the code replaces it. Each open
span keeps the count it started from.

**RequestTracing.** The package's code is only callbacks; the order in which the
publisher, the transformer and the transaction package call them is external to
it and modelled as their docstrings describe it: `IPubStart`, the published
object, the transform chain on `IPubBeforeCommit`, commit, `IPubSuccess`; on any
exception `IPubBeforeAbort`, abort, `IPubFailure`, and for a conflict with
retries left the whole again. An exception may leave the published object, the
chain (a conflict; others are logged and end the chain without its after events),
the commit, or a subscriber of another package: of `IPubStart` before
`on_pub_start`, of `IPubBeforeCommit` before or after the chain, of `IPubSuccess`
anywhere (`SubscriberRaises`). `stage` remembers which of `on_pub_start` and
`on_pub_success` an attempt has reached. Spans opened and ended are counted per
kind in `live`. The variable `enabled` is fixed per behaviour (an environment
switch); `Registered` says on which threads the commit tracer was registered.

`CommitTracer._spans` is what it is in the code, one dict for all threads with
the address of the transaction as its key (`commitSpans`). A transaction is at an
address at which there is no other, possibly where there was one (`Begin`), and
it is gone after its `afterCompletion`, except after a failed commit, which is
then aborted (`BeforeCompletion` a second time, for the same address). Another
synchronizer may raise out of `commit()` (`SynchronizerRaises`): ours is then
started and not completed, and `broken` counts the spans that are then lost.

**AccessControl.** The states of one call: configuration, peer and header are
chosen in `Init`, the walk goes entry by entry, and the answer is compared with
a definition that does not walk. A list of networks with an entry that is none
(`Junk`) makes the call raise (`Misconfigured`), unless there is no allow-list.

**MetricsView.** One request: `CheckAccess` is the walk of `AccessControl`,
`Choose` the choice of a formatter, `Collect`, `CollectRequest`,
`CollectRequestRaises` and `CollectRaises` the loop over the providers, `Format`
and `FormatRaises` its end. A provider is the set of sequences that its `collect`
may yield; one that raises has yielded a prefix. Only the request provider has an
effect, `take_max`, once per auth class, while workers go on recording
(`Record`); when it raises in the middle of a class, the maximum of that class
has been taken if its sample is among those yielded. Adapters are created by
`getAdapters` as the loop asks for them, outside the `try`: a factory that raises
ends the scrape (`AdapterRaises`).

**HealthLifecycle.** One thread builds pipelines and stops servers: `Wire`, then
`Bind` or `CannotBind`, `Attach` (the server object learns its `HealthServer`),
`Run` (its thread is started), and `Shutdown`, `Stopped`. The constructor of the
server listens already, so clients may connect before `Run`; they wait in the
backlog until `Accept`. Histories: `due` and `inTime`, the servers started by a
`make_filter` that found the ZODB check registered when it was called;
`forgotten`, the servers that were up when a `start()` failed to bind and cleared
the reference. `stop()` does not close the socket, which stays open as
long as something refers to the server (`Listening`).

**Patching and TracingSetup.** A class is a dictionary, a callable the function
it was defined as and the wrappers around it. `Replaced` is what the code
patches on a class: the methods found whose mark is missing, and `__call__` where
it is the same object as `searchResults`. Other packages wrap the same methods at
any time, copying the `__dict__` of their target (and with it the mark) or not
(`ForeignPatch`). `MakeFilter` does, in the code's order, all that building a
pipeline does; `Import` runs the import hooks of `plone.subrequest`; `Render`
counts the spans of one manager and of its children.

## Runs

Every passing run also checks deadlock, except `metrics_view`, where the request
is over once it is answered. The type invariants are theorems and are not
repeated in the runs.

| Run | Question | Bounds and why they are enough |
|---|---|---|
| `readiness` | one run at a time, stuck runs reported with a warning each, latch, complete positive answers; refinement of `OneFlight` | 2 threads: one inside a run, one being answered, and they change places; 2 checks, so that a failure can be followed by a success; the TTL (2) outlasts the stuck threshold (1), the case in which a cached result could hide a stuck run. More threads: proved |
| `readiness_liveness` | no probe waits, the flight is released, answers recover | 2 threads, 1 check, thresholds 1 |
| `request_record` | exact statistics when unlocked, every request in one maximum, a torn scrape out by one request | 2 workers, 2 scrapes (two windows end, in either order), both classes, 2 requests: one being recorded while the other is, or while a scrape takes the maximum; a negative duration, and one on the bound of a bucket. More requests and durations: proved |
| `gauge_cache` | nothing stale is served | 2 scrapes, TTL 2, time to 6: three windows; the clock is set back by up to 2, a whole TTL, at once or in two steps with an entry stored in between |
| `site_cache` | swallowed failures and the lists of deleted sites expire, entries of deleted sites go for good | 2 scrapes, TTL 1, clock to 3, a snapshot up to 1 older than the time; sites do not share entries, so 1, deleted once and created again: a list can be of the site or of its predecessor. More deletions: proved |
| `tracing` | nothing left behind, ended exactly once, conflicts counted, exclusion, nesting | 2 threads (spans and environ are per thread, the conflict counter is shared), one of them with the commit tracer; 2 addresses, the fewest for two transactions, so that each is used again; 2 requests, so that a leftover of the first would be seen by the second on the same thread; 1 retry, 1 transform, raising subscribers and synchronizers. More transforms: proved |
| `activity_monitor` | no load lost, counter monotone, foreign monitors stay but for one gap, span deltas | 2 connections closing at once, 2 scrapes installing at once, 2 loads each, 2 nested spans; a foreign monitor at any moment |
| `metrics_view` | the answer is for the nearest untrusted host, no maximum is lost, providers are isolated, names are announced once | all subsets of 3 addresses as allow-list and proxies, all peers, all headers of up to 3 entries, lists that cannot be read; two orders of four providers, the request provider second and last, all seven providers between them; a provider, an added one and the request provider fail; 2 sites, so that a family comes back after others; durations to 2 |
| `tracing_setup` | calls traced once, wrappers logged, functions reached unchanged, aliases kept, a span per subrequest, children's spans within their manager's, instrumentors that are on can be switched off | a tool that defines, partly inherits or wholly inherits its methods, with and without the alias; a manager; the connection; 1 foreign patch, which may come before, between and after ours; 1 library; 2 renderings; filters built and taken back without bound |
| `health_lifecycle` | probes meet a wired server, the server that is up is the one `stop()` finds, `stop()` returns | 2 probes, one of which may hang, 3 servers, so that a stopped one can be followed and outlived |

`MaxTime`, `MaxBack`, `MaxLag`, `MaxRemovals`, `MaxRequests`, `MaxLoads`,
`MaxStarts`, `MaxForeign`, `MaxRenders` and `MaxDuration` bound behaviours only; `MaxRetries`,
`MaxTransforms`, `MaxDepth` and `MaxHops` are sizes. Symmetry is used over
workers, scrapers, connections and addresses, in runs without liveness.

## Divergences

Two runs are expected to end in a violation; each checks one sentence of the
documentation, and the trace shows the code doing otherwise.

| Run | The claim | What happens |
|---|---|---|
| `request_raised` | errors are counted by status code | an application that raises before `start_response` is recorded as a 200 |
| `tracing_workers` | a span per transaction completion | the tracer is registered with the thread-local manager of the thread that builds the pipeline, not with those of the workers |

Others were met on the way and have no run of their own:

- an excluded path "produces no spans at all" (`tracing.md:25`), but when another
  subscriber of `IPubStart` raises before `on_pub_start`, or one of `IPubSuccess`
  after `on_pub_success`, the abort gets a span; `ExcludedPathsAreSilent` states
  the exception;
- `beforeCompletion` and `afterCompletion` "bracket the commit (or abort)"
  (`otel/zodb.py:20`), but when another synchronizer raises out of `commit()`,
  `afterCompletion` is not called, and the abort overwrites the entry under the
  same key: the span of the commit is never ended. `NothingLeftBehind` allows
  exactly these (`broken`) and shows that nothing else stays;
- a pre-existing monitor is "never overridden" (`metrics-design.md:52`), but one
  that another package installs between the look at `zodb.py:117` and the
  installation at `zodb.py:129` is: `_monitor_lock` is this package's own.
  `ForeignMonitorStays` states the exception, and that there is no other;
- `ZPublisher.publish` is emitted once per attempt, not "once per request"
  (`tracing.md:18`); `ClosedExactlyOnce` is about attempts;
- `DropOthers` evicts whatever is not on the scrape's own list, also an entry a
  concurrent scrape has just stored for a newer site;
- a site created again under the id of a deleted one is served its predecessor's
  list until that expires (`EarlierSitesExpire`);
- a site's list is dated with the time at which the content provider's turn
  came, later than the ZODB snapshot it is collected from by as long as the
  request has been busy before, and is served for that much longer
  (`FailuresExpire` and `EarlierSitesExpire` allow for it as `lag`);
- the first close of a connection adds its loads from before the installation of
  the monitor ("since monitor install", `zodb.py:231`);
- durations come from `time.time()`: set back during a request, it lowers the sum;
- the tracker calls itself thread-safe (`request.py:18`), but `collect` reads the
  live statistics without its lock; `TornByOneRequest` says how far a scrape
  that overlaps `record` can be out;
- the gauge queries run "at most once per TTL window" (`zodb.py:32`) only if
  scrapes do not overlap: a slow one queries again and overwrites a newer entry
  with an older date;
- a second `start()` while a server is up fails to bind and forgets the running
  server, which `stop()` can then not stop; `OnlyOneServesAndCanBeStopped` says
  that there is no other way to lose one;
- one malformed entry in either list of networks makes every scrape raise
  (`access.py:11`) instead of refusing it;
- an adapter factory that raises ends the scrape, although providers are isolated
  from each other: `getAdapters` is lazy and outside the `try` (`view.py:35`);
- `stop()` does not close the socket: a restart cannot bind while a probe of the
  old server hangs;
- `HealthServer(port=0)` means the port of the environment, not port 0
  (`port or int(...)`);
- `plone.app.blocks` imported after registration takes over the traced function
  by name and is traced twice; `OneSpanPerSubrequest` states the exception;
- `setstate`, registered again around a foreign wrapper that hides the mark, is
  timed twice; `TracedAtMostOnce` states the exception;
- uninstrumenting leaves a method of its own on a class that inherited it, and
  drops a foreign patch put on top of ours, although it is called reversible
  (`catalog.py:4-5`);
- a manager rendered twice wraps its children twice (`ChildSpansNest`);
- one value that cannot be printed makes the formatter raise, although providers
  are isolated from each other, and the maximum that the scrape has taken is
  lost, as it is with a factory that raises (`NoMaximumIsLost`);
- with two sites or auth classes the samples of a family are not contiguous in
  the text format; names are announced once all the same
  (`EachNameIsAnnouncedOnce`).

## Fairness

`ReadinessProbes!FairSpec` assumes weak fairness of each probe thread's steps and
of the clock: threads are scheduled by the operating system, one per probe, and
time passes. It assumes nothing of clients or of the database; `FlightIsReleased`
and `RecoversForGood` state what they need of them as premises. A hanging check
is a disabled step, so fairness never ends a hang.

`SiteCache!FairSpec` assumes that a scrape that has begun is carried on. That
scrapes begin at all, and that one of them completes again and again, is a
premise of `GoneSitesAreForgotten`: Prometheus decides that.

`HealthLifecycle!LifecycleFairSpec` assumes that the main thread carries on with what it
has begun and that `serve_forever` turns. It assumes nothing of clients, of the database, or of
anybody calling `start` and `stop`: a probe may hang for ever.

## Proofs

What TLC checks on small instances is proved for all values of the constants
(any number of threads, checks, classes, buckets, connections, scrapes, sites,
entries, any TTL, any class structure, headers and lists of any length), under
the named assumptions in the modules. Thresholds and bounds are natural numbers,
and `None` and `Free` are none of the values they are mixed with. Sets that the
sums run over are finite: durations (floats) and status codes
(`FiniteAssumption`), connections (`MonitorAssumption`). The classes that the
tracing patches touch are distinct from each other and do not inherit from one
another (`ClassAssumption`: a search tool is not a viewlet manager), and an order
of providers names each of them once (`ViewAssumption`: adapters are registered
under names).

| Theorem | Argument |
|---|---|
| `AtMostOneRun`, `WarningHolds`, `TypeCorrect` | inductive as they stand, together |
| `StuckIsNotReady` | needs `Expired`: while a run is out and stuck, the result is older than its TTL, because a run starts only on an expired cache and nothing else dates a result |
| `StartupLatchHolds` | `LatchInv`: a 200 waiting to be sent, a promise made or a debt owed each imply that the latch is set |
| `GreenIsComplete`, `LatchNeedsAFullPass` | `GreenInv`: a run that has seen no failure has only passed verdicts, and it is published when none is pending |
| `RefinesOneFlight` | step simulation: each action maps to a step of `OneFlight` or a stutter |
| `LifecycleTypeCorrect`, `ProbesAreAnsweredWhenWired`, `StopFindsTheServer` | `Flags` (what is wired by when), `Order` (a server is made, told whose it is and only then run, and probes are at servers that have been made), `OneServes` (what can be bound shows that nobody listens) |
| `InfAlwaysCoversCount` | `LockInv` (one worker inside the lock), `GapInv` (count and `+Inf` differ by the request being recorded), `SeenInv` (what a scrape has read so far is covered) |
| `MetricsTypeCorrect` | `MoreTypes`, on top of the above |
| `MaximumIsOfTheWindow` | `MaxInv`: the maximum is that of the window and of the request inside the lock, if its sum has been added; and what a scrape has read in `take_max` is still so when it resets, since it holds the lock |
| `ScrapesAreTornByOneRequest` | `CumulativeInv`: between two requests the buckets are cumulative, and within one they are out by it, from the bucket the loop is at; together with `SeenInv` |
| `StatisticsAreExact` | `ExactInv`: at every place inside the lock, `record` is ahead of the history by exactly the parts it has added so far (`Ahead`); what holds of a class at rest alone is not inductive. When it lets go, the sums over the history grow by that one request (`Sums`) |
| `GaugeTypeCorrect`, `GaugesNeverStale` | `Dated`: a timestamp is never later than the reading it dates, in the time that has really passed and not on the clock |
| `SiteTypeCorrect`, `SiteFailuresExpire`, `ListsOfEarlierSitesExpire` | `SnapshotsDated`: what a snapshot shows was so at most `lag` before the time its scrape takes; `ListsDated` and `EntriesDated`: so it is of what has been collected and stored; `There` (the site that a snapshot shows had not been deleted then) makes the deletion of that very site the one to count from, however many have followed |
| `ActivityTypeCorrect`, `ReportedTotalsNeverFall` | `Adding` (what the one connection inside the lock has read is still the total), `Reporting` (the total of the one monitor has reached whatever was reported) |
| `LoadsAreKept` | inductive together with the above and `PendingInv` (what a connection has read and reset is on its way only while it is being closed); the sums over the connections move by what one of them does (`Sums`) |
| `ForeignMonitorsStay` | `Installing`: one scrape at a time is between looking at the slot and filling it, and if the slot is not free then, a foreign monitor came in between |
| `SpanDeltasAreExact` | inductive together with the types |
| `TracingTypeCorrect`, `NothingIsLeftBehind` | `LiveInv` (every open span is held in exactly one place, or is one of the `broken`), `DictInv` (no two transactions share an address, and the dict has entries for those only that are ending and whose synchronizer will be called again), `PairsInv` (keys that are set and popped together), `PhaseInv` (what has been ended by which event); `NothingLeftBehind` alone says nothing about the middle of a request and is not inductive |
| `PublishSpansAreClosedOnce`, `ExcludedPathsStaySilent`, `SpansAreNested` | `AInv`, on top of these: `AttemptOf` (how the publish span stands at each place of an attempt), `SilentOf` (what an excluded attempt has emitted so far, and that the suppression is in force) |
| `ConflictsAreCounted` | `CountInv`: the counters are ahead of the history by the threads whose conflict the subscriber has seen and which the publisher has not yet made repeat the request (`ToRetry`) or give it up (`ToGiveUp`), a cardinality that a step of one thread moves by at most one |
| `CallsAreTracedOnce`, `WrappersCanBeTakenOff` | `PatchInv`, about every method of every class: `Logs` (it is traced exactly if something is logged, and then it is what was logged first, our layer, and whatever others have put on top of that), `Layered` (two tracing layers are possible around `setstate` only, with a foreign layer between them that does not copy the mark) |
| `TheFunctionStays`, `TheAliasStays` | action properties, from `PatchInv`: a step changes only layers of ours, or adds one of somebody else's on top |
| `SetupTypeCorrect`, `InstrumentorsCanBeSwitchedOff`, `SubrequestsAreTracedOnce`, `ChildrenAreNested` | `SetupInv`, in the parts that a step of one mechanism disturbs: `HooksInv`, `InstrumentorsInv` (nothing is listed before `enable` is done, which is why it may overwrite the list), `RenderingInv` (children are wrapped at most once per rendering) |
| `AccessIsForTheClient`, `AccessTypeCorrect` | `WalkInv`: nothing to the right of the walk is from outside; `OneClient`: the nearest one is unique |
| `ViewTypeCorrect`, `MaximaAreKept`, `ProvidersStandAlone` | `ViewInv`: the access walk (`AccessInv`), what the providers asked so far have added and that the others have added nothing (`AskedInv`, with `ListInv`), that the longest request is in the tracker or in the list (`WorstInv`), and that the body of a 200 is the whole list printed (`BodyInv`) |
| `NamesAreAnnouncedOnce` | `Prints`, of the lines after the first `n` samples: no announcement is repeated, every line of a sample has its announcement above it, and these lines are the first `n` samples in their order |

**Induction over data.** The provers cannot instantiate the library's induction
theorems, whose hypothesis is an operator. Where a proof needs one all the same
(sums over a function in `Sums`, folds over the samples in `MetricsViewProofs`)
it takes the smallest counterexample: the arguments for which the claim fails
form a set, which has a smallest element if it is not empty (`SmallestSet` for
finite sets, `Smallest` for numbers, both from `WFMin`), and the step from the
next smaller argument leads to a contradiction. This needs no operator as a
parameter.

**Only model-checked** is liveness (`NoProbeWaits`, `FlightIsReleased`,
`RecoversForGood`, `GoneSitesAreForgotten`, `StopReturns`),
which TLAPS does not reach under fairness. Every other property of a passing run
is a theorem. `InfCoversCount` and the type invariants are
proved and are in no run.

## Not modelled

- *Interfaces*: declarations.
- *Values and wording of metrics*: `MetricsView` knows which samples there are
  and in which order, not what they say; the two caches and the trackers whose
  values matter have modules of their own.
- *The time that `setstate` adds up, and `unregister` of the commit tracer*: the
  first is a sum in the thread that reads it; nothing but tests calls the second.
- *Foreign packages taking a patch back* after ours was taken back, which would
  put our wrapper back: it is their order of calls that decides.
- *Where a subrequest span gets its parent, building the exclude list*: pure
  functions of the request and of the environment.
- *Authentication capture*: the class is an input of `RequestMetrics`. Whether
  the request shares its environ with the middleware is decided outside the
  package.
- *Span attributes*: apart from the load deltas, no decision depends on them.
  In particular the baseline that `on_pub_start` reads is a key that is set and
  popped; what it contains depends on when the publisher sets `PARENTS`.
- *Failures of the failure handling*: an abort that raises, and subscribers of
  `IPubBeforeAbort` and `IPubFailure` that raise before ours. What the publisher
  does then is outside this package, and its docstrings say nothing of it.
- *A liveness check that hangs*: it is another package's, and holds up its own
  probe only.
- *A second transform chain in one attempt* (for an error page): the module
  docstring places the chain on `IPubBeforeCommit`, and so does the model.
- *Weak memory*: attribute reads and writes of CPython are atomic; the models
  interleave them.

## Plan

Done, in this order: the probes (the part with the most interleavings), request
metrics, gauge cache, site cache, tracing, activity monitor, access control; then
the life cycle of the health server, the metrics view, patching and the set-up of
tracing, and clock steps in the gauge cache; then the sums, the view, the patches
and the set-up as theorems, and sites that follow each other under one id.

Next:
1. An abstract specification of a TTL cache that `GaugeCache` and `SiteCache`
   both implement, with clock steps in the second as well.
2. The excluded paths and the parent of a subrequest span as operators, checked
   against definitions over bounded inputs.
