# A TLA+ model of gh-runner-kit

`gh-runner-kit` is a command line tool for self-hosted GitHub Actions runners
(Go: `cmd/`, `internal/kitutil/`, `pkg/`) and a dashboard of Actions metrics
that runs as a Copilot canvas extension (JavaScript:
`.github/extensions/actions-metrics/`, below `ext/`) and calls the tool. This
directory models the parts whose correctness depends on the order in which
things happen, checks the models with TLC on small instances, and proves part
of what is checked with TLAPS for every instance.

## 1. The system

### Components

| Component | Code | State | Operations |
| --- | --- | --- | --- |
| Shared dataset | `ext/lib/dataset.mjs` | a snapshot file per dataset, a reference counter, a retired flag; a view holds its root | collect, make a view, acquire, release, retire |
| Dashboard store | `ext/lib/store.mjs` | entries: query, status, generation, collection in flight, dataset and metrics in hand, frozen window, retry timer, subscribers | `refresh`, `withDataset`, automatic retry, `invalidateAuthCaches`, `subscribe`, `dispose` |
| Panel | `ext/lib/instance.mjs` | effective query, generations of its requests, rows on screen | `apply`, `project`, step requests, run timelines, `dispose` |
| Row store | `ext/lib/rowstore.mjs` | a bounded registry of row entries with identity, revision, generation, readers | `request`, `subscribe`, `payload`, `evict`, `invalidateAll` |
| Job cache | `ext/lib/jobcache.mjs` | an LRU map with a capacity, epochs per target | `get`, `set`, `invalidate`, `invalidateAll` |
| Preferences | `ext/lib/prefs.mjs` | one file, a cache, a chain of writes | load, remember filters / step settings |
| Rate limits and `gh` | `ext/lib/gh.mjs` | a cooldown and a probe per host, the credential and its generation | preflight, run, note a refusal, set the credential |
| Child processes | `ext/lib/process.mjs` | stream buffers, stop and abort flags | stream lines, abort |
| Collections | `ext/lib/{dataset,jobs,jobrows,steprows,stepattempts,metrics,runnerkit,timeline}.mjs` | what the installed CLI knows (probed once), cached step rows | probe, collect a snapshot and its reports, read jobs, steps and projections of it |
| Canvas lifecycle, server | `ext/extension.mjs`, `ext/lib/server.mjs` | panels, the store, connections | open, close, shut down, routes, events |
| Queries | `ext/lib/query.mjs`, `ext/shared/{period,fields}.mjs` | a panel's query, settings remembered per target | open, patch, canonicalise, identify |
| Statistics | `ext/shared/*.mjs` | none | pure functions over rows |
| Browser | `ext/public/*.js` | the state it received, drafts of the query, the explorer's rows, a worker, the runner table | take states, replies and rows; edit, filter, page |
| Collector | `pkg/metrics/collect.go` and neighbours | progress counters | list runs, fetch jobs in a pool, retry |
| Run listing | `pkg/metrics/{collection_window,run_cache}.go` | day files on disk | search, split, save days, load, prune |
| Disk cache | `pkg/metrics/cache.go` | files of completed attempts | load, save by renaming |
| Statistics of the CLI, snapshots | `pkg/metrics/*` | none; snapshot files | pure functions |
| Cordon and uncordon | `pkg/runner/runner.go`, `cmd/{cordon,uncordon}.go` | labels and group of a runner on GitHub | cordon by group or label, uncordon |
| Runner agent | `cmd/run.go`, `pkg/runner/{process,download}.go` | an installation, a registration | download, configure, run, remove |
| Commands, rendering | `cmd/*`, `internal/kitutil/*` | none | flags and output |

### How they interact

A panel asks the **store** for a collection and subscribes to its entry. The
store runs the CLI, which lists runs (**run listing**) and writes a snapshot
file, a **dataset**. Everything the dashboard shows is computed from that file,
by readers that hold it while they read. Panels asking for the same data share
an entry; a changed window may be answered by a view filtered from the root
snapshot without asking GitHub again. Tables of jobs and steps are collected
separately into the **row store**, from which iframes fetch them by identity.
Every request to GitHub passes the **rate limit** of its host, and a changed
credential invalidates the store's entries, the row store, the job cache and
the cooldowns in one step. Settings go to the **preferences** file.

JavaScript runs one function at a time: the interleavings are those of
functions suspended at an `await`, of timers and of file-system calls. The Go
program is a process per command; what persists between its runs is on disk
(day files, cached jobs) or on GitHub (labels and groups).

### What is hard, and what must hold

* Snapshot files are removed while others read, view or retire them: no holder
  may lose its file, and none may stay behind.
* A collection may be superseded at any `await`, by a changed query, a second
  refresh, a credential or a disposal: it must not commit, must not report, and
  must give back what it holds.
* A rate limit arms a timer whose conditions change before it fires: it must be
  neither lost nor fire for a newer state, and must resume the same window.
* Answers arrive out of order: row collections of an old token, probes of a
  replaced one, superseded step requests, writes of settings.
* The row registry is bounded, but rows on screen must survive.
* A panel shows several views of one dataset, each asked for and superseded on
  its own: they must not be of different windows, tokens or targets.
* The browser hears the panel's state on two connections, fetches rows on a
  third and aggregates them in a worker: an older answer must not land last.
* A query is patched by a toolbar, an agent, the preferences and the workspace:
  what was written for one target must not be in force for another.
* Charts, facets and step statistics are written in one pass over rows whose
  attempts, times and runners are incomplete: they must agree with what they
  are counts of.
* The dashboard is installed apart from the CLI it calls: what it sends must be
  understood, and what comes back in pieces and may be cut off must be read
  whole or be called incomplete.
* GitHub's search drops what exceeds its cap, and caches keep what was known at
  some other time: a listing must still be exactly the newest runs.
* Cordon and uncordon are several API calls with nothing but labels to
  remember them by: half of one must be recoverable.

`PROJECT.json` lists these hazards with the lines where they bite and the
properties that would show them going wrong.

## 2. The modules

| Module | Models | Run |
| --- | --- | --- |
| `SharedDataset` | reference counting of snapshot files; extended by `DashboardStore`, and the abstract specification the store implements | `store` |
| `DashboardStore`, `MCDashboardStore` | one store entry, its collections, readers, retry, disposal | `store*` |
| `AnswerBoard` | abstract: a view asked again and again shows its latest answer or none | `tab` |
| `Panel` | the panels of one target: projection, steps, run timeline, applied queries, restored views | `tab` |
| `Explorer` | the browser tab: states, replies, rows, the worker | `tab`, `explorer_target` |
| `Query`, `MCQuery` | the query of a panel, its target, patches and remembered settings | `tab`, `query_stated` |
| `QueryEditor` | the two editors of a query and their drafts | `tab` |
| `Explore` | filters, facets, peaks, busy times and hours of the explorer | `tab` |
| `Steps` | matching, statistics, pickers and run list of the Step timeline tab | `tab` |
| `NamePatterns` | the port of `path.Match` and the pattern a typed name becomes | `tab` |
| `Stream` | one child process and the reader of its lines | `backend` |
| `Toolkit`, `MCToolkit` | probing the CLI, the commands built for it, one collection | `backend`, `toolkit_dropped` |
| `RowStore` | row registry and the panels that show its rows | `backend` |
| `PrefsStore` | preferences file, cache and writes | `backend`, `prefs_filters` |
| `RunListing` | listing the runs of a window through cap and cache | `backend` |
| `Cordon`, `MCCordon` | taking a runner out of service and back | `backend`, `cordon_names` |
| `RateLimit` | cooldowns and probes of one host | `backend` |
| `Selection` | what the tabs read of a collected dataset | `backend` |
| `Projection` | the timeline of runners rebuilt from jobs; extends `Selection` | `backend` |
| `RunnerTable` | the paged table of runners, on both ends | `backend` |
| `MCTab`, `MCBackend` | the instances of the two collective runs | |
| `Nothing` | the value `None` | |
| `SharedDatasetProofs`, `DashboardStoreProofs` | theorems about snapshot files, and about the store that uses them | |
| `RowStoreProofs` | theorems about the row store | |
| `CommandProofs` | theorems about `Cordon` and `RunListing`, commands of the CLI | |
| `ExtensionProofs` | theorems about `RateLimit`, `PrefsStore`, `Toolkit` and `Stream` | |
| `RequestProofs` | theorems about `Query` and `RunnerTable` | |
| `PanelProofs` | theorems about panels, among them that they implement `AnswerBoard` | |
| `BrowserProofs` | theorems about the explorer, the editors of a query and `Steps` | |

### Correspondence with the code

`PROJECT.json` maps every definition to its lines. In general an action is the
code from one `await` (or API call) to the next, its guard the conditions and
early returns on that stretch. Suspended functions are records with a `pc` and
exactly the locals they use later. Variables marked *history* in a comment are
not in the code: they record, for a property, what was true earlier.

**SharedDataset.** `refs`, `retired` and `directory` are the fields of the
class; `holds[h]` says which dataset a function (owner or reader) or a view
will release. Removing a file takes two steps, because `release` awaits `rm`
before it releases the base. Owners create roots and views, drop them, commit
or retire them; readers acquire what was committed. Anything an owner may do
with its reference is allowed in any order, so that the specification is a
contract for callers.

**DashboardStore.** `entry` holds the fields of a store entry, `coll[c]` the
suspended `refresh` calls, `reader[r]` the `withDataset` calls, `disposal` the
`dispose` call. A query is reduced to what the code compares: the data source
(`datasetQueryId`) and the report window (`collectionId`). Every action states
its effect on the datasets with `SharedDataset`'s actions, so `DatasetSafety` is
checked as a refinement with the identity mapping on the dataset variables.
The collection identifier stands for the time it was started at, from which the
frozen window (`collectionUntil`) is derived.

**PrefsStore.** The cached preferences, the file (which may be torn by a
process that ends while writing), the chain of writes and the calls that wait
for it. Two targets and two kinds of settings, because merging is per map and
per target. Values are call numbers, so "older" is visible.

**RateLimit.** One host's cooldown and probe, calls with the token they run
under, a clock, and credential changes. `told` records the latest reset time a
caller was told of while the credential lasts.

**Panel.** `panel[p]` holds the fields of an instance: the generations of its
three views, what each shows and was read from, the views kept for restoring.
Its suspended functions are tasks with the `pc` of their `await`. What it last
sent is its `frame`. `store` is as much of a store entry as panels see: the query,
the status and whether it is a rate limit, the dataset in hand, the collection in
flight. `refresh()` joins that collection, finds the entry ready, or starts another
one, also in the place of one it supersedes (`Refreshed`, with `force` and
`bypassCache`). A collection goes through the steps of `store.mjs:339-433`: it puts
its dataset in hand (`Collect`), writes its outcome once the dataset before it is
retired, *also when it was superseded meanwhile* (`Report`, finding 1 of section
6), saves the filters and tells the listeners if it is still the current one
(`Finish`), or ends as superseded or failed (`Discard`, `Fail`). One that only
rereads the dataset in hand puts back the rate limit it interrupted (`Outcome`).
The history `outlived` says that a step request has renewed the base under
what was shown. The specification is shown to implement `AnswerBoard`, one board
per panel and view, mapping generations to request numbers.

**Explorer.** The server's state and the tab's, a stream of frames that may be
lost and comes back with the latest state, replies to posts that keep no order
with it, fetches of rows, and the worker's two queues. Rows are a target and a
revision. Two histories: `worker.sent` is the rows the worker will hold when it
has done what it was sent, `astray` says that, since a state last reported rows,
the worker died or other rows were already on their way (section 6).

**Query, QueryEditor.** A selector is a sequence of path segments, so that
`ghe/octo` may be a repository or an owner on a host, as in the code. One
setting stands for each class of settings that takes part in the same
identities. `stored` is what was remembered since settings are kept by scope, and
the constant `Legacy` what an older version kept by the display form, in which
the repository `ghe/octo` and the organization `octo` on the host `ghe` are one
(`Recalled`, `extension.mjs:109`). The editors' drafts record, per field, the
value the reader started from and what was typed.

**Explore, Steps, NamePatterns.** The functions of `shared/` as operators; the
only actions load rows and set filters. Each is compared with what it stands
for, defined over instants, jobs and attempts rather than over sorted lists. The
hours of a chart are computed for each of several local clocks, from the range
as the filter has it: `worker.js:105` hands it on unordered, so that a range set
backwards has rows but no hours.

**Stream.** A child with texts on both pipes, cut into pieces anywhere, and a
reader of one of the kinds that occur: capped, one that insists on JSON, one
that counts what it cannot read.

**Toolkit.** A command line is a subcommand and its flags; an installed kit is
the flags each of its subcommands knows, and may be upgraded after it was
probed. A collection is the sequence of calls of `collectSharedSnapshot` with a
failure possible at each.

**Selection, Projection, RunnerTable.** Datasets of runs and job rows, read
under settings; the cache of step rows with its key; the projection as the pass
over rows (`Consume`), the merge of overlaps and the distribution over buckets;
the table's requests, answers and debounce timer.

**RowStore.** Entry objects are numbered in order of creation, as revisions
are handed out; `held` is the registry, a map from the entries in it to their
place in the order of last access, which is the order of eviction. A panel
subscribes to an entry and draws rows by identity and revision.

**RunListing.** A listing is one action. That the clock advances at every
request, that a request fails, and that a day file cannot be written are its
parameters. Time in the calendar is counted in ticks, two to a second, so that
windows may begin within one; the clock that ages the files is separate.
`Walk` and `Gather` are the recursive search and the loop over days, each written
as a recursive function whose body (`SearchRange`, `GatherFrom`) is one pass over
the code, so that it can be proved about.

**Cordon.** One runner of an organization; an action is one API call. Labels
are sequences of words, so prefixes mean what they mean in the code.

## 3. The runs

Parts that share no state share a run: a variable `part` is chosen at the start
and only that part is stepped, so that the state spaces add instead of
multiplying.

| Run, part | Checks | Bounds and why they are enough |
| --- | --- | --- |
| `store` | `CommittedDataIsCurrent`, `ReadersGetTheirSource`, `OwnersAreActive`, `HeldIsReadable`, `DatasetSafety` | two collections, one of which supersedes the other at any point or reuses its root, two sources, two windows (one needs a view), one reader, one credential change, disposal |
| `store_retry` | `ArmedTimerIsLive`, `RetryKeepsWindow` | four collections (limited, resumed, limited again, retained read), of which two may overlap, so that a superseded one ends beside its successor; one window, two panels |
| `store_live` | `LoadingEnds`, `ReadersAreAnswered`, `DisposeCleansUp` | two collections, one reader; without symmetry |
| `tab`, panel | `FramesAreConsistent`, `ShownIsOfTheToken`, `IdlePanelsAreSettled`, `PanelImplementsBoard` | two panels, one of which asks for views and forces refreshes, two such requests, two refreshes or retries and three of all events with the credentials changed; queries that differ in each component the code compares; collections that overlap, are superseded in every stage, fail and meet rate limits |
| `tab`, explorer | `SettledTabShowsTheRows`, `RowsNeverGoBack` | two targets, two snapshots each, three events (requests, switches, lost connections, failures), one change of filters: an old answer may overtake a new one on every connection; a larger instance of five events, with one snapshot a target, passed when it was run apart |
| `tab`, query | `TargetIsAsNamed`, `SettingsAreOfTheTarget` | five openings, patches and saves over selectors that share segments; one entry of an older version, whose display form a repository and an organization share |
| `tab`, editor | `OverwritesAreAnnounced` | two edits or applications and two changes from elsewhere, two presets and coverages that clip them |
| `tab`, explore | `ChartsAreExact`, `SelectionKeepsItsBucket`, `FacetCountsAreGains` | three of seven rows that start early, run on, never start, repeat or lack fields; eight sets of filters; one of them backwards; four buckets; three local clocks, moved forward, back by a whole hour and back within one, so that hours are left out and shown twice; a heatmap of one row, with jobs on no named runner beside it |
| `tab`, steps | `ListedRunsOpenOnAJob`, `StatisticsAreOfTheirJobs`, `OptionsDoWhatTheySay` | three of six job rows (a matrix re-run, an ambiguous history, an unfinished job, another repository) in every order, eight settings, saved filters of the old form |
| `tab`, names | `MatchedAsTheCLIMatches` | all patterns and names of up to three symbols, with classes, separators and malformed classes |
| `backend`, rows | `IdentityNamesItsRows`, `RowsAreOfTheToken`, `OnlyTheNeededIsKept`, `RowsArrive` | two panels on two queries and room for one entry, so that every second request must evict or exceed; three collections, one credential change |
| `backend`, prefs | `DiskFollowsCache`, `CallsAreAnswered` | three calls on two targets, failing writes, one restart |
| `backend`, listing | `ListingIsExact` | all repositories of up to three runs over three days of two seconds, a search cap of two, run budgets below and above it, two listings of which the second meets what the first left in the cache, failing after two requests or not at all |
| `backend`, cordon | `NoRunnerIsLost` | six commands, failing at any call; labels of which some look like what a cordon writes |
| `backend`, gate | `PauseIsKept`, `NewTokenIsNotBlocked` | two calls, two probes, two credential changes, reset times on a clock of five ticks |
| `backend`, readings and projection | `ReadingsAreExact` | four runs (two attempts, two repositories, two workflows), two collections, eight step settings; projections of three jobs that overlap, nest, touch, are empty, reversed, outside or unfinished, onto five sets of buckets |
| `backend`, table | `TableIsOfItsRequest` | two projections, three requests, two searches, two columns with ties, one row to a page |
| `backend`, stream | `StreamsAreExact` | five outputs and three logs cut anywhere, readers that stop after two rows, abort and failure at any point |
| `backend`, kit | `CollectionsAreAccountedFor` | two canvases sharing the probe, three generations of the CLI, an upgrade, three requests, each call failing |
| `store_superseded`, `store_window`, `prefs_filters`, `cordon_names`, `explorer_target`, `query_stated`, `toolkit_dropped` | one property each, refuted: see section 6 | |

Several of these properties are conjunctions of parts named in their modules;
`ListingIsExact`, for one, is that the newest runs are listed, that omissions
are reported and that files are written only for days known completely.

Symmetry is used only in the runs without liveness properties, on sets whose
members the specification and the properties treat alike; the refinement and
the action property that two of them check speak of single steps, which a
permutation of those sets maps to steps. Deadlock is not
checked: each bounded model ends, when its collections, calls, listings or
commands are used up, and the real programs wait for the next request. What
must not get stuck is stated as a liveness property instead.

Type invariants are proved (section 4) for all modules that have theorems; the
runs spend their time on the other properties.

### Fairness

`StoreSpec`, `PrefsSpec` and `RowSpec` assume weak fairness of what the
platform promises: a suspended function goes on when what it awaits has
settled, a child process ends (the CLI ends or is killed by the abort signal),
the file system answers, and `rm` ends. How it settles, with success, a rate
limit or an error, is left open. Nothing is assumed of users, panels,
timers, credentials or the clock: nobody has to ask, subscribe, dispose or
retry. All other modules are checked for safety only; that the explorer and the
panel come to rest in the right state is stated over their quiet states
(`SettledTabShowsTheRows`, `IdlePanelsAreSettled`).

## 4. The proofs

Every theorem is about the specification of a module for every value of its
constants under the module's assumption, which TLC evaluates in the runs. The
assumptions say no more than that bounds are natural numbers, that sets which
are kept apart in the code (readers and owners, tokens and `None`) are disjoint,
that what is counted is finite, and how the constants of a query, a label, a
ranking or an output are built. `KitAssumption` says more: which flags a CLI
that has a subcommand is taken to have, where the code does not ask. The
step lemmas have one case per action; where an action is a chain of
functions, as in `DashboardStore` and `Panel`, each function has a lemma that
says what it leaves of the state, and the action's proof cites those.

**`SharedDatasetProofs`**, for any sets of owners, readers and datasets
(`ConstantsAssumption`):

* `TypeCorrect`, `RefsAreExact`, `DatasetInvariant`: the invariant `DatasetInv`
  (types, `RefsMatchHolders`, `TwoLevels`, `LifeFollowsRefs`,
  `UnretiredIsOwned`) is inductive. `RefsMatchHolders` (a counter is the number
  of functions that will release) is not inductive alone: releasing a view
  releases its root, so one needs to know that views hang on roots only, that a
  file is live exactly while it is counted, and that a view nobody retired
  still has an owner, which is what makes acquiring it safe.
* `HeldDatasetsAreReadable`: `HeldIsReadable` follows from that invariant: a
  holder is counted, so its file is live, and a live view counts on its root.

The argument for the counters is one of cardinalities: lemmas say how
`HeldBy(d)` changes when one holder takes or drops a reference, and each action
is shown to change `refs[d]` by the same amount.

**`DashboardStoreProofs`**, for any collections, readers, sources and windows
(`StoreAssumption`):

* `StoreInvariant`, `StoreTypesAreCorrect`: `StoreInv` is inductive. Beside types
  it says of collections that what is committed stems from a known collection
  and is of the token in force (`CommittedDataIsCurrent`), that generations
  grow, that the one in flight is the current one and was asked for what the
  entry now asks for (`CurrentIsAsAsked`), and that nothing of it is reread after
  it was probed (`Settles`); of the window, that it is frozen while a rate limit
  is resumed (`WindowIsFrozen`); of the timer, `ArmedTimerIsLive`; of owners and
  readers, which datasets they hold at which `pc` (`HoldersInv`, `ReaderInv`).
* `StoreImplementsSharedDataset`: every step of the store is a step of
  `SharedDataset` or leaves the datasets alone. `HoldersInv` is what it needs: a
  function that drops or commits a dataset is one that holds it. The theorems
  about datasets carry over: `StoreHoldsReadableDatasets`, `StoreCountsAreExact`.
* `CommittedIsCurrent`, `ReadersHaveTheirSource`, `OwnersStayActive`,
  `TimersAreLive`, and the action property `RetriesKeepTheirWindow`.

**`ExtensionProofs`**, four parts of the extension that stand alone.

`RateLimit`, for any calls, probes, tokens and bounds (`RateAssumption`):

* `RateInvariant`: `RateInv` is inductive: types, what callers were told lies
  within the cooldown installed, running probes of the token in force are the
  probe in the map, and the cooldown carries the token in force.
* `PausesAreKept`, `NewTokensAreNotBlocked`, `RefusalsShareOneProbe`: the
  properties of the run, as consequences of it.

`PrefsStore`, for any targets, calls and restarts (`PrefsAssumption`,
`PrefsValues`):

* `PrefsInvariant`, `DiskNeverFallsBehind`: `DiskFollowsCache` speaks of an empty
  chain only; inductive is that the last write of the chain is the cache
  (`ChainEndsInCache`), which holds because whoever merges finds the cache he
  read still there (`CacheOutlivesReaders`).

`Toolkit`, for any installed CLIs, requests and collectors (`KitAssumption`):

* `KitInvariant`, `CollectionsStayAccountedFor` (`CollectionsAreAccountedFor`):
  every command line is one the installed CLI accepts, also when it is upgraded
  on the way, the directories on disk are those in use, however a collection
  ended, and a dataset that lacks its concurrency warns of that. Inductive is
  that the probe remembers what the CLI has (`Told`), that each stage of a
  collection was built from that memory (`WorkOK`), and that the directories
  there are exactly those in use (`Tidy`). `KitAssumption` states what the code
  takes for granted rather than asks: `dataset.mjs:104` asks for the snapshot
  flags and not for the older ones of the same commands, and
  `runnerkit.mjs:565` asks for `runs` and not for `jobs`.

`Stream`, for any outputs, logs and row caps (`StreamAssumption`):

* `StreamInvariant`, `StreamsStayExact` (`StreamsAreExact`): in whatever pieces
  the text arrives, and wherever its child is stopped, the reader is given whole
  lines, each once and in their order, and an answer says whether it is of all
  of them. Inductive is, for each pipe, that what it holds is the rest
  of the text that was written, and that there is a number of characters read
  such that what was dispatched, kept as a partial line and counted is what the
  text up to there says (`Reading`, `Hearing`).
* This is induction over data. The library's induction theorems cannot be
  instantiated, but a theorem about a *set* of numbers can: `CountingUp` (if 0 is
  in the set, and with each number the next, so are all up to n) follows from
  the order of the numbers. `ScanIsDefined` and `HandlingIsDefined` show with it
  that the recursive functions `Scan` (a text up to a character) and `Handling`
  (a piece up to a line) are what their recursion says.

**`RowStoreProofs`**, for any panels, signatures, entries and collections
(`RowAssumption`):

* `RowInvariant`: an object's payload is of the token under which it was
  collected and its generation is that of its latest collection
  (`ObjectsAreSound`, `CollectionsAreSound`); rows drawn are those of the
  revision they name for as long as the object has any (`DrawnIsKnown`).
* `IdentitiesNameTheirRows`, `RowsBelongToTheToken`, `OnlyNeededEntriesStay`. The
  last rests on the lemma `EvictedFacts`: `evict` takes out only what nobody
  needs and, if it leaves more than the bound, everything nobody needs; the
  argument takes the least recent entry that stays and counts those before it.

**`PanelProofs`**, for any panels, queries, requests and collections
(`PanelAssumption`, `NullAssumption`):

* `PanelInvariant`: `PanelInv` says of the store's entry that what is in hand is
  what its query names and of the token in force; of each view that what it
  shows, and what its latest request still reads, is of the dataset of its base
  (`TimelineOK`, `StepsOK`, `RunOK`); of the frame that it is no newer than the
  panel; and of what a panel waits for, that one of its suspended functions
  brings it (`LoadOK`, `RestoreOK`). The bases are the store's (`Based`) until
  the current collection puts its dataset in hand, and again when it has ended
  or another has begun (`Quiet`): in between nobody is told, and the status says
  nothing, because a superseded collection may write it too. What holds in
  between as well is said of any dataset a view may have been read from
  (`IsOf`): of a live credential, and, if its base is the dataset in hand, of
  that dataset.
* `FramesBelongTogether`, `ViewsAreOfTheToken`, `NothingIsLeftWaiting`: the
  invariants of the run. The first leaves out the statistics and the run that a
  step request outlives (`outlived`, section 6) until it is answered.
* `ViewsAreBoards`: each view of each panel implements `AnswerBoard`: every step
  is a request, the answer to the latest one, a removal, or leaves it alone.

**`CommandProofs`**, commands of the CLI.

`Cordon`, for any labels, groups, label prefix and number of commands, each of
which fails at any call (`CordonAssumption`):

* `CordonInvariant`, `RunnersComeBack`: for runners with no label of their own
  that reads like a mark of `cordon`, `NoRunnerIsLost`. Inductive is that a
  runner that does not look cordoned is as it was also during a command
  (`LooksAsItIs`), that the group is on record before the runner is moved and
  until it is back (`GroupIsOnRecord`), and that an uncordon returns it to where
  it came from (`GoesBack`). The lemmas about labels say when one is a prefix of
  another, and that renaming and trimming undo each other.

`RunListing`, for any windows, limits, search cap, lengths of a second and a day,
requests that fail and days that cannot be written (`ListingAssumption`):

* `ListingInvariant`, `ListingStaysExact` (`ListingIsExact`): a listing is the
  newest runs of its window, whatever was cached before, and says when there may
  be more. Inductive is, beside that, that a file on disk holds exactly the runs
  of a day that is over (`Filed`): it stays true when runs are started, because
  those are of later days.
* A listing is one step, so the work is in what it computes. `RecursionIsDefined`
  and `RecursionIsUnique` show that a recursion whose calls descend in a rank has
  a solution, and one only; the rank of a search is the length of its range
  (`SearchesAskLess`), that of the loop the parts left (`GatheringsAskLess`). They
  rest on `Counting`, that a set which holds 0, and with each number the next,
  holds all: an instance of the library's theorem on well-founded relations.
* `WalkIsExact`: a search that does not fail finds the newest runs of its range,
  as many as its budget, and says `complete` only of all of them. The
  halves are told apart by `SplitIsInside`, for a midnight as well as a middle,
  and joined by `NewestOfNewer` and `NewestOfBoth`: what is left of the budget
  after the newer half is what the older half may add. At a checkpoint, and after
  a capped list, `FirstDayKnown` says from which day on what was found is
  everything, so that the file saved is true.
* `GatherIsExact`: the days read and the days searched meet at midnights
  (`PartsCover`, `WindowsMeet`), and what was gathered so far is always the newest
  of what lies from the next part's end to the window's.

**`BrowserProofs`**, what an iframe shows.

`Explorer` and `QueryEditor`, for any targets, snapshots, events, edits and
changes (`ExplorerAssumption`, `EditorAssumption`):

* `TabInvariant`: `TabInv`. The worker's inbox and outbox are seen as a set of
  jobs, each a request with the rows it is answered over (`Tracks`); between the
  server, the explorer, its fetch and the jobs it holds that rows are no newer
  than the panel's (`Holding`), that there is at most one fetch, which is wanted
  (`Fetching`), that a wanted load is of the rows sent last (`Loading`), that no
  sequence number is ahead (`Counting`), and that over the rows held the latest
  request for a chart or a page is drawn or still to come (`Drawing`). `Reports`
  connects this with the state on screen; it is what holds unless `astray`.
* `RestingTabsShowTheRows` (`SettledTabShowsTheRows`) and the action property
  `RowsOnlyAdvance` (`RowsNeverGoBack`). The first has two parts: that all that
  is drawn is of the rows on screen, if the worker holds them, in whatever
  order anything arrived; and that these are the rows the panel reports, which
  is not so when `astray`, that is after rows on screen were reported again while
  others were fetched (section 6) and after the worker died.
* `DraftsAnnounceOverwrites` (`OverwritesAreAnnounced`): a draft keeps the value
  that the first edit of a field started from, as seen at the time (`Drafted`),
  and, shown with a state, has no edit that agrees with it and exactly its
  conflicts marked (`Shown`).

`Steps`, for any rows of jobs and any controls (`StepsAssumption`: a row is of
one job id, which `rows.mjs:181` takes to identify one attempt of one job; the
steps of a job are finite and told apart by name and occurrence; the CLI prints
one of the kinds of `aggregate.go:18`; a saved filter has the fields that
`normalizeRunnerFilter` gives it):

* `StepsInvariant`: no row is held twice, and the filter has its fields. The
  rest follows from these for any rows, so that it holds in every state.
* `ListedRunsStayOpen` (`ListedRunsOpenOnAJob`): the row that gives a listed run
  its attempt is itself on the timeline of that attempt, because rows of one
  run key share their attempt wherever conditions or recovery tell attempts
  apart, and because the name of a recovered job is told by its run alone.
* `StatisticsStayOfTheirJobs` (`StatisticsAreOfTheirJobs`). What the two loops
  over the rows compute is said by invariants over the rows read so far
  (`AreHistories`, `AreRuns`), carried through by `CountingUp`:
  `HistoryGoesOn` and `RunGoesOn` are the step of one row. That the conclusion
  of a run does not depend on the order of its jobs rests on
  `OutranksIsIrreflexive` and `OutranksOnwards`. Counts are compared by an
  injection from the rows of a step to the jobs that ran one (`StepsCounted`).
* `OptionsKeepTheirWord` (`OptionsDoWhatTheySay`): what a normal filter selects
  (`Selections`), and for each picker how a click changes its field and no
  other (`KindClicked`, `LabelSetClicked`, `GroupClicked`, `NameClicked`),
  also beside a value or a pattern an earlier version saved; `PlacesAreRows`
  that label sets, counted by place, are counted by row; `PoolsNarrow` that a
  click on a line of the runners card keeps that line as it was, and no other.
  The empty set of labels is left out: the picker cannot select it.

**`RequestProofs`**, what a reader asks for.

`Query`, for any inputs, patches, workspaces and hosts (`QueryAssumption`):

* `QueryInvariant`, `TargetStaysAsNamed` (`TargetIsAsNamed`),
  `SettingsStayOfTheTarget` (`SettingsAreOfTheTarget`). Inductive is that the
  panel's query is canonical, so that splitting it again finds the same target,
  and that an entry remembered under a key is of the target the key shows
  (`IsEntry`). The lemma the latter needs is `KeysDiffer`: two targets with
  the same key are the same, although the key leaves out the default host and
  joins the others to the path. Nothing of the kind holds of what an older
  version remembered, whatever `Legacy` is: the theorem says that a target which
  has been saved since finds its own settings again, and leaves out one that has
  not, which may find those of another that is displayed alike (section 6).

`RunnerTable`, for any rankings, searches, columns and page sizes
(`TableAssumption`: a ranking lists each runner once, with a number in each
column):

* `TableInvariant`, `TableStaysOfItsRequest` (`TableIsOfItsRequest`): the page on
  screen is that of the projection, search, columns and offset its fields say,
  unless its answer is still to come. Inductive is `RequestIsOrderly`: no
  request is ahead of the table's counter, one with the table's number asks what the table shows, and an
  answer of the ranking in force is a page of it.
* The lemmas: `CanBeListed`, that a finite set under a strict total order can be
  listed in it, so that `SortedBy`, which is stated by what a sort returns, always
  names a sequence; `EarlierIsTotal` and `EarlierIsTransitive`, that the
  comparison of `shared/sort.mjs` is such an order for any list of columns,
  because runners are told apart last; `ToggleKeepsSorts`, that clicking columns
  never lists one twice; and `CutIsExact`, that a page has as many rows as there
  are left to show, and on the first one none that comes after one left out.

Only model-checked:

* Liveness: `LoadingEnds`, `ReadersAreAnswered`, `DisposeCleansUp`, `RowsArrive`
  and `CallsAreAnswered`; fairness and ENABLED are out of the prover's reach.
* `NamePatterns`, whose operators are recursive; the prover does not take modules
  that declare them.
* What the library's folds of `Explore`, `Selection` and `Projection`
  compute. These would have to be written as recursive functions and proved with
  `CountingUp`, as `Stream` and `Steps` are, or with `RecursionIsDefined`.

## 5. Abstractions and what is not modelled

* One store entry, one host, one process, one runner: the code keeps them
  independent, except for a credential change, which treats all of them alike.
* Store: queries with an explicit `until`; progress texts; a retry time that is
  not a date; timers longer than the platform's maximum, which are armed again.
* Preferences: last target and scope, merged like the modelled maps; a second
  process writing the same file.
* Rows: the rows themselves, in the row store and the explorer; `Selection`,
  `Explore` and `Steps` model what is done with them.
* Panel: pointing it at another target, which attaches it to another entry, and
  its disposal; progress texts. Of a rate limit it is kept that it leaves the
  dataset readable, that a reread puts it back, and that it is retried, at any
  time; the timer is `DashboardStore`'s. A refresh is forced with the query as
  it is: nobody sends a change along with it (`app.js:2714`, `extension.mjs:582`).
* Explorer: charts and layout; the worker's computation is `Explore`'s.
* Query: letter case, parsing of times and zones, free text. An older version's
  entries are only read; new ones are always kept by scope.
* Editors: one field for each kind of field.
* Explore and Steps: extrema, costs, percentiles and medians, which are
  arithmetic on the intervals modelled. A local clock is moved once in a window.
* Steps: of two conclusions unknown to `RUN_CONCLUSION_RANK` a run has the first
  by the alphabet in the code and the first read in the model; `StatisticsAreOfTheirJobs`
  is about the known ones.
* Patterns: classes that accept a slash, for which `path.Match` itself accepts
  fewer names than its pattern reads.
* Toolkit: the values of flags; the tables built from reports; a CLI
  replaced by an older one.
* Run listing: runs created while a listing is under way; corrupt files; several
  repositories, whose caches are separate directories. The search itself is
  GitHub's and modelled as the newest runs of a range.
* Cordon: operators working at the same time, which the code does not
  coordinate; runners of a repository; labels that differ in case only.

Not modelled:

* Code only tests reach since datasets replaced it: `collectSnapshot`
  (`ext/lib/collect.mjs`), the job cache, `collectFleetSteps`, and the paths of
  `collectJobRows`, `collectStepMetrics` and `collectRunnerTimeline` without a
  dataset.
* The map of panels and servers of `extension.mjs`. Closing the last panel
  awaits the store's disposal before it forgets the store (`extension.mjs:994`),
  so that a panel opened meanwhile is given a store that is being disposed of.
* The Go collector's worker pool, its attempts' disk cache and progress; the
  CLI's statistics, whose counterparts in the dashboard are modelled; the
  runner agent, which drives the platform's installer and processes.
* Rendering, flags, HTTP and archive formats are I/O or formatting. Queueing
  formulas are real arithmetic.

## 6. Where code and comments disagree

Each is a run that refutes one property.

1. `store_superseded`, `SupersededIsSilent`: a collection that is superseded
   while it awaits the removal of the previous snapshot (`store.mjs:394`) still
   sets the entry's status, against the comment at `store.mjs:329`.
2. `store_window`, `ReadersGetTheirWindow`: after a rate-limited switch of the
   report window a reader is given the dataset of the old window
   (`store.mjs:235`), against the comment at `store.mjs:233`.
3. `prefs_filters`, `OthersKeepTheirFilters`: of two targets' filters saved at
   the same time one is put back to its old value (`prefs.mjs:97`), against the
   comment at `prefs.mjs:66`.
4. `cordon_names`, `UncordonReverses`: a custom label `group-...`, once renamed
   to `cordoned-group-...`, is read as the record of a runner group
   (`runner.go:196`), against the comment at `runner.go:155`.
5. `explorer_target`, `RowsAreOfTheTarget`: the reply to a post that names
   another target is adopted without resetting the explorer (`app.js:2696`);
   the event that follows finds no difference, and the previous target's rows
   stay, against the comment at `app.js:2759`.
6. `query_stated`, `StatedIsInForce`: when a canvas is opened with a period
   filter, a remembered window merged under it clears the filter
   (`extension.mjs:114`), against the comment at `extension.mjs:101`.
7. `toolkit_dropped`, `DroppedFiltersAreReported`: a runner type or a repository
   filter that the command line cannot carry is left out of a collection and
   no warning says so (`dataset.mjs:112`): the functions that would say it are
   called by `collectSnapshot` only. Against the comment at `runnerkit.mjs:333`.

Not disagreements with a comment that a run refutes, but met while modelling:

* A group cordon that failed between marking the runner and moving it answers
  "already cordoned" when it is repeated, and leaves the runner in service until
  it is uncordoned (`cmd/cordon.go:89`).
* `probeRunnerKit` remembers a rejected promise, when the help of the
  concurrency command cannot be read (`runnerkit.mjs:166`), and an "unavailable"
  that was transient, until the extension restarts.
* A step request renews the base of what is shown (`instance.mjs:662`). One that
  comes between the moment a collection puts its dataset in hand and the
  broadcast of it keeps the older statistics, and a run's timeline, beside the
  new metrics until it is answered, against the comment at `instance.mjs:79`. The
  attempt to prove `FramesAreConsistent` met it; the property leaves these out
  by the history `outlived`, and holds for the answer when it comes.
* The comment at `instance.mjs:336` on rows is not what `explorer.js:1189` does.
* Opening a canvas finds what an older version remembered by the display form
  of a target (`extension.mjs:110`). A repository and an organization that are
  displayed alike both find it, whichever of the two it was saved for, until
  settings of their own are saved: with it repository patterns, which
  `query.mjs:460` says are meaningful within one owner only. The code accepts
  this for preferences written before the split; `KeysAreOfTheTarget` says what
  is left: who has saved finds his own.
* A reply to a post that arrives after a 409 for rows leaves the explorer
  "loading" until the next state.
* A job that never started but has a completion time is drawn from its queueing
  on (`explore.mjs:177`).
* `dataset.select` leaves excluded runners out before a projection counts them:
  its "excluded" is always 0, although `app.js:751` says they were read and used
  up the cap (`jobs.mjs:196`).
* A capped reader that stops in the last, unended line is told the stream was
  complete (`process.mjs:114`). A child that dies within a row is reported as
  malformed JSON when the reader insists on JSON.
* In the runner table, Next counts from the offset asked for and is guarded by
  the page shown (`app.js:1991`, `2043`): a double click passes the last page,
  and the empty page has no Previous.
* A collection superseded while it awaits the removal of the previous snapshot
  also puts back the rate limit it was started with (`store.mjs:398`), next to
  a window that is its successor's: an automatic retry may be armed for a
  window nobody asks for any more. A consequence of finding 1. The attempt to
  prove `RetryKeepsWindow` met it; the property now leaves it out by the history
  `entry.overtaken`, which is set there and cleared when a collection from
  GitHub starts, one fails, or the credential changes.
* When the rows on screen are reported again while other rows are fetched
  (`explorer.js:223`), the fetch is neither aborted nor made out of date: its
  rows land under a state that reports the first ones, and nothing further is
  due that would correct it, against the comment at `explorer.js:236`. It takes
  five events, more than the run has; the attempt to prove
  `SettledTabShowsTheRows` met it, and the second part of the property now
  leaves it out by the history `astray`.
* The pattern typed for runners treats `?` and `[` as characters, where
  `runnerkit.mjs:213` says it mirrors `path.Match`.

## 7. Plan

Done, in this order: `SharedDataset`, `DashboardStore`, `PrefsStore`,
`RateLimit`, `RowStore`, `RunListing`, `Cordon` and the proofs of section 4;
then `AnswerBoard`, `Panel`, `Explorer`, `Query`, `QueryEditor`, `Explore`,
`Steps`, `NamePatterns`, `Stream`, `Toolkit`, `Selection`, `Projection` and
`RunnerTable`.

Theorems worth proving next: `ReadingsAreExact` and `ChartsAreExact`, once
their folds are recursive functions.

Modules worth adding: the canvas callbacks around the store's disposal; the Go
collector's worker pool with its first error, cancellation and disk cache; the
runner agent's registration across signals and restarts.
