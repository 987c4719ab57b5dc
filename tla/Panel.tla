------------------------------- MODULE Panel -------------------------------
(***************************************************************************)
(* The panels of one target (.github/extensions/actions-metrics/lib/       *)
(* instance.mjs), the requests that reach them (lib/server.mjs and the     *)
(* actions of extension.mjs) and as much of the store's entry as they see. *)
(*                                                                         *)
(* A panel shows three views beside the metrics: the projection of runners *)
(* (timeline), the statistics of steps, and the timeline of one run. Each  *)
(* is read from the dataset of the moment by functions that are suspended  *)
(* at `await`; meanwhile another request, another panel on the same target *)
(* or a credential may have changed what is shown.                         *)
(*                                                                         *)
(* A query is what the code tells apart: the data to collect               *)
(* (datasetQueryId), the period filtered from them, the grid of buckets    *)
(* and the settings of the projection (projectionId). Rows on screen are   *)
(* modelled in RowStore, the inside of a collection in DashboardStore.     *)
(***************************************************************************)
EXTENDS Integers, Sequences, FiniteSets, Nothing

CONSTANTS
    Panels,
    Askers,       \* bound: the panels that ask for views and force refreshes
    Queries,      \* records [data, period, grid, proj]
    FirstQuery,
    MaxAsks,      \* bound: requests for views
    MaxRefreshes, \* bound: refreshes asked for or retried
    MaxEvents     \* bound: those and the credentials changed

ASSUME PanelAssumption ==
    /\ Queries \subseteq [data : Nat, period : Nat, grid : Nat, proj : Nat]
    /\ FirstQuery \in Queries /\ Askers \subseteq Panels
    /\ MaxAsks \in Nat /\ MaxRefreshes \in Nat /\ MaxEvents \in Nat
    /\ None \notin Queries

VARIABLES
    store,    \* the entry: query, status, limited (its errorCode is rate_limited), held
              \* (the dataset in hand), collecting (collectionProgress), inflight
    coll,     \* coll[c]: the collections, numbered in the order they started
    panel,    \* panel[p]: a panel and the functions suspended in it (outlived: history, a
              \* step request has renewed the base under what was shown)
    asks,     \* counts requests for views, and refreshes that were asked for or retried
    token     \* the credential

panelVars == <<store, coll, panel, asks, token>>

(* What may stand where a panel or the store keeps null.                   *)
Datasets == [root : Nat, data : Nat, period : Nat]
DatasetIds == Nat \X Nat
Bases == DatasetIds \X (Nat \X Nat \X Nat)
StepBases == Nat \X Nat \X (DatasetIds \union {None})
Answers == [of : Nat, from : DatasetIds]
ViewSets == [timeline : BOOLEAN, steps : BOOLEAN]
Sequels == [apply : Nat, steps : BOOLEAN,
            about : (Nat \X Nat \X Nat) \union ((DatasetIds \union {None}) \X Nat)]

ASSUME NullAssumption ==
    /\ None \notin Datasets /\ None \notin DatasetIds /\ None \notin Bases
    /\ None \notin StepBases /\ None \notin Answers /\ None \notin ViewSets
    /\ None \notin Sequels

---------------------------------------------------------------------------
(* Identities.                                                             *)

(* collectionId *)
CollectionId(q) == <<q.data, q.period, q.grid>>

(* metrics.meta.dataset.id: `<collection>:<from>:<to>` *)
DatasetId(s) == IF s.held = None THEN None ELSE <<s.held.root, s.held.period>>

(* Mutant: a projection is of a query, whichever collection answered it. *)
BaseKeyOfQuery(s) == CollectionId(s.query)

(* What a projection was computed against. *)
BaseKey(s) == <<DatasetId(s), CollectionId(s.query)>>

(* Which rows a step request reads: the grid does not matter. *)
StepBaseKey(s) == <<s.query.data, s.query.period, DatasetId(s)>>

---------------------------------------------------------------------------
(* The store, as a panel sees it.                                          *)

(* refresh(): a collection is joined, not needed, or started, from the     *)
(* dataset in hand where that will do; the entry takes the query. `tells`  *)
(* is what the listeners are told, before the new collection is in flight; *)
(* `awaits` what the caller then awaits, 0 for nothing.                    *)
Refreshed(q, force, bypass) ==
    LET changed == CollectionId(q) # CollectionId(store.query)
        asked == [store EXCEPT !.query = q]
        kept == ~force /\ ~bypass /\ store.held # None /\ store.held.data = q.data
        begun == [asked EXCEPT !.status = "loading", !.limited = FALSE, !.collecting = @ \/ ~kept] IN
    CASE store.inflight # 0 /\ ~changed /\ ~bypass ->
           [store |-> asked, tells |-> asked, coll |-> coll, awaits |-> store.inflight,
            emits |-> q # store.query]
      [] store.inflight = 0 /\ ~force /\ ~changed
            /\ store.status = "ready" /\ store.held # None ->
           [store |-> asked, tells |-> asked, coll |-> coll, awaits |-> 0, emits |-> q # store.query]
      [] OTHER ->
           [store |-> [begun EXCEPT !.inflight = Len(coll) + 1], tells |-> begun,
            coll |-> Append(coll, [query |-> q, pc |-> "running", token |-> token,
                       retained |-> IF kept THEN store.held.root ELSE 0,
                       interrupted |-> kept /\ store.limited]),
            awaits |-> Len(coll) + 1, emits |-> TRUE]

(* withDataset(): what is in hand answers this query; a dataset stays      *)
(* readable beside a rate limit.                                           *)
ReadableIn(s, q) ==
    /\ s.status = "ready" \/ (s.status = "error" /\ s.limited)
    /\ s.held # None
    /\ CollectionId(s.query) = CollectionId(q)
    /\ s.held.data = q.data

Readable(q) == ReadableIn(store, q)

---------------------------------------------------------------------------
(* A panel. Views are captured as whether there is one to re-read.         *)

(* Mutant: the requests under way are not superseded. *)
NoStepsShown(p) == [p EXCEPT !.settings = FALSE, !.steps = None, !.stepStatus = "idle",
                             !.stepBase = None, !.outlived = FALSE, !.run = None]

NoSteps(p) == [p EXCEPT !.settings = FALSE, !.steps = None, !.stepStatus = "idle",
                        !.stepGeneration = @ + 1, !.stepBase = None, !.outlived = FALSE,
                        !.run = None, !.runGeneration = @ + 1]

NoTimeline(p) == [p EXCEPT !.request = FALSE, !.timeline = None, !.timelineStatus = "idle",
                           !.timelineGeneration = @ + 1, !.timelineBase = None, !.signature = None]

(* state() and broadcast(): what was read from another dataset is dropped, *)
(* the rest is sent.                                                       *)
Broadcast(p, s) ==
    LET p1 == IF p.timelineBase \notin {None, BaseKey(s)} THEN NoTimeline(p) ELSE p
        p2 == IF p1.stepBase \notin {None, StepBaseKey(s)} THEN NoSteps(p1) ELSE p1 IN
    [p2 EXCEPT !.frame = [dataset |-> DatasetId(s), timeline |-> p2.timeline, steps |-> p2.steps,
                          run |-> p2.run, outlived |-> p2.outlived]]

Task(kind, pc, generation, q, then) ==
    [kind |-> kind, pc |-> pc, generation |-> generation, query |-> q,
     then |-> then, awaits |-> 0, from |-> None]

(* A request that reads the dataset once the store is refreshed; without a *)
(* collection to await it is reading it already.                           *)
Reader(kind, generation, q, then, s, awaits) ==
    IF awaits = 0 /\ ReadableIn(s, q)
      THEN [Task(kind, "read", generation, q, then) EXCEPT !.from = DatasetId(s)]
      ELSE [Task(kind, "wait", generation, q, then) EXCEPT !.awaits = awaits]

(* A request of a listener, or one that finds the store ready. A refresh   *)
(* that would start a collection is left to a step of its own.             *)
ReaderIn(kind, generation, q, then, s) ==
    IF s.inflight = 0 /\ s.status # "ready"
      THEN Task(kind, "probe", generation, q, then)
      ELSE Reader(kind, generation, q, then, s, s.inflight)

(* The views of a panel, and when restoring them is still wanted.          *)
Views(p) == [timeline |-> p.request, steps |-> p.settings]

StillCurrent(then, p, s) ==
    IF then.apply # 0
      THEN then.apply = p.applies /\ then.about = CollectionId(s.query)
      ELSE then.about = <<DatasetId(s), s.query.grid>>

(* project(), until it reads the dataset: refused, or numbered before      *)
(* anything is awaited. The tool was probed when the dataset was           *)
(* collected, so nothing comes between. What follows it (`then`) is taken  *)
(* up in either case. The installed tool can list jobs, and metrics have   *)
(* buckets.                                                                *)
Project(p, s, then) ==
    IF s.status # "ready" \/ s.held = None
      THEN Broadcast([NoTimeline(p) EXCEPT !.timelineStatus = "error",
                        !.tasks = IF then = None THEN @
                                    ELSE @ \union {Task("restore", "resume", 0, s.query, then)}], s)
      ELSE LET generation == p.timelineGeneration + 1 IN
           Broadcast([p EXCEPT !.timelineGeneration = generation, !.timeline = None,
                        !.timelineStatus = "loading", !.request = TRUE,
                        !.timelineBase = BaseKey(s), !.signature = s.query.proj,
                        !.tasks = @ \union {ReaderIn("timeline", generation, s.query, then, s)}], s)

(* beginStepRequest(): what is shown stays, under the base of the request. *)
BeginSteps(p, s) ==
    [p EXCEPT !.stepGeneration = @ + 1, !.stepBase = StepBaseKey(s),
              !.outlived = @ \/ p.stepBase \notin {None, StepBaseKey(s)}]

(* capturePeriodViews(): what another panel's period or grid will drop.    *)
Captured(p, s) ==
    LET id == DatasetId(s)
        p1 == [p EXCEPT !.seen = id, !.gridSeen = s.query.grid]
        grid == IF id # p.seen THEN None
                ELSE IF p.periodViews = None /\ s.query.grid # p.gridSeen
                        /\ id # None /\ p.gridViews = None
                  THEN Views(p) ELSE p.gridViews
        narrowed == /\ id # None /\ p.seen # None /\ id # p.seen
                    /\ p.periodViews = None /\ id[1] = p.seen[1]
                    /\ p.request \/ p.settings IN
    IF grid # None /\ s.status = "ready"
      THEN [panel |-> [p1 EXCEPT !.gridViews = None], views |-> grid]
      ELSE [panel |-> [p1 EXCEPT !.gridViews = grid],
            views |-> IF narrowed THEN Views(p) ELSE None]

(* reproject(): the projection is asked for again under other settings.    *)
Reprojected(p, s) ==
    IF p.request /\ p.signature # s.query.proj THEN Project(p, s, None) ELSE p

(* restoreViews(), until it awaits something.                              *)
Restoring(p, s, views, q, then) ==
    IF views.timeline /\ ~p.request THEN Project(p, s, then)
    ELSE IF then.apply # 0
      THEN [p EXCEPT !.tasks = @ \union {Task("restore", "resume", 0, q, then)}]
    ELSE IF views.steps /\ p.stepStatus = "idle"
      THEN LET p1 == BeginSteps(p, s) IN
           [p1 EXCEPT !.tasks = @ \union {ReaderIn("steps", p1.stepGeneration, q, then, s)}]
      ELSE p

(* The panel's listener on its entry. *)
Heard(p, s) ==
    LET c == Captured(p, s)
        p1 == Reprojected(Broadcast(c.panel, s), s) IN
    IF c.views = None THEN p1
      ELSE Restoring(p1, s, c.views, s.query,
                     [apply |-> 0, about |-> <<DatasetId(s), s.query.grid>>, steps |-> c.views.steps])

AllHeard(panels, s) == [x \in Panels |-> Heard(panels[x], s)]

(* What a step leaves of the store, and every panel that heard of it.      *)
Commits(r, panels) ==
    /\ store' = r.store /\ coll' = r.coll
    /\ panel' = IF r.emits THEN AllHeard(panels, r.tells) ELSE panels

Without(p, t) == [p EXCEPT !.tasks = @ \ {t}]

(* Mutant: only what could be restored ends it. *)
RestoredNever(p, then) == p

(* The end of what a panel restores after its own change. *)
Restored(p, then) ==
    IF then # None /\ then.apply # 0 /\ then.apply = p.applies
      THEN [p EXCEPT !.periodViews = None] ELSE p

---------------------------------------------------------------------------
(* Requests that reach a panel.                                            *)

MoreEvents == asks.views + asks.refreshes + token < MaxEvents
Refreshing ==
    asks.refreshes < MaxRefreshes /\ MoreEvents /\ asks' = [asks EXCEPT !.refreshes = @ + 1]

(* apply(): a period needs a dataset that is not being collected; the      *)
(* views it will drop are captured first, and restored when it is ready.   *)
(* A refresh (`force`) is asked for with the query as it is.               *)
Refused(p, q) ==
    /\ q.data = store.query.data /\ q.period # store.query.period
    /\ \/ store.held = None
       \/ store.status = "loading" /\ (panel[p].periodViews = None \/ store.collecting)

Apply(p, q, force, bypass) ==
    LET rereads == ~force /\ q.data = store.query.data
                   /\ (q.period # store.query.period \/ q.grid # store.query.grid)
        views == IF ~rereads THEN None
                 ELSE IF panel[p].periodViews # None THEN panel[p].periodViews
                 ELSE Views(panel[p])
        applied == panel[p].applies + 1
        r == Refreshed(q, force, bypass)
        started == [panel EXCEPT ![p].periodViews = views, ![p].applies = applied]
        heard == IF r.emits THEN AllHeard(started, r.tells) ELSE started
        then == [apply |-> applied, about |-> CollectionId(q), steps |-> views.steps] IN
    /\ Refreshing
    /\ force \/ ~Refused(p, q)
    /\ store' = r.store /\ coll' = r.coll
    /\ panel' = [heard EXCEPT ![p] =
         LET p1 == Broadcast(@, r.store) IN
         IF views = None THEN p1
           ELSE [p1 EXCEPT !.tasks = @ \union
                   {[Task("apply", IF views.timeline THEN "timeline" ELSE "steps", applied, q, then)
                       EXCEPT !.awaits = r.awaits]}]]
    /\ UNCHANGED token

Asked == asks.views < MaxAsks /\ MoreEvents /\ asks' = [asks EXCEPT !.views = @ + 1]

(* POST /api/timeline, trace_runner *)
AskTimeline(p) ==
    /\ Asked
    /\ panel' = [panel EXCEPT ![p] = Project(@, store, None)]
    /\ UNCHANGED <<store, coll, token>>

ClearTimeline(p) ==
    /\ Asked /\ panel[p].request
    /\ panel' = [panel EXCEPT ![p] = Broadcast(NoTimeline(@), store)]
    /\ UNCHANGED <<store, coll, token>>

(* POST /api/steps: numbered before its settings are written to the disk.  *)
AskSteps(p) ==
    /\ Asked
    /\ panel' = [panel EXCEPT ![p] =
         LET p1 == BeginSteps(@, store) IN
         [p1 EXCEPT !.tasks = @ \union {Task("steps", "probe", p1.stepGeneration, store.query, None)}]]
    /\ UNCHANGED <<store, coll, token>>

(* A request that is numbered and reads the dataset at once. *)
AskDataset(p, claimed, kind, generation) ==
    LET r == Refreshed(store.query, FALSE, FALSE)
        reads == Reader(kind, generation, store.query, None, r.store, r.awaits) IN
    /\ Asked
    /\ Commits(r, [panel EXCEPT ![p] = [claimed EXCEPT !.tasks = @ \union {reads}]])
    /\ UNCHANGED token

(* get_step_metrics; its settings are remembered when it has answered. *)
GetStepMetrics(p) ==
    LET p1 == BeginSteps(panel[p], store) IN AskDataset(p, p1, "steps", p1.stepGeneration)

(* GET /api/run-timeline, show_run_timeline; the base is kept if there is one. *)
AskRun(p) ==
    LET p1 == [panel[p] EXCEPT !.runGeneration = @ + 1,
                               !.stepBase = IF @ = None THEN StepBaseKey(store) ELSE @] IN
    AskDataset(p, p1, "run", p1.runGeneration)

(* DELETE /api/run-timeline *)
ClearRun(p) ==
    /\ Asked /\ panel[p].run # None
    /\ panel' = [panel EXCEPT ![p] =
         Broadcast([panel[p] EXCEPT !.runGeneration = @ + 1, !.run = None], store)]
    /\ UNCHANGED <<store, coll, token>>

---------------------------------------------------------------------------
(* Suspended functions.                                                    *)

(* Mutant: any answer is shown. *)
FreshAlways(p, t) == TRUE

(* Is this still the request the view waits for? *)
Fresh(p, t) ==
    CASE t.kind = "timeline" -> t.generation = p.timelineGeneration
      [] t.kind = "steps" -> t.generation = p.stepGeneration
      [] OTHER -> t.generation = p.runGeneration

(* What comes after a request of restoreViews(). *)
Followed(p, t) ==
    IF t.kind = "timeline" /\ t.then # None
      THEN [p EXCEPT !.tasks = @ \union {Task("restore", "resume", 0, t.query, t.then)}]
      ELSE Restored(p, t.then)

(* withDataset(query): the query is refreshed once more, whatever the      *)
(* target has been asked meanwhile.                                        *)
OpenDataset(p, t) ==
    LET r == Refreshed(t.query, FALSE, FALSE)
        reads == Reader(t.kind, t.generation, t.query, t.then, r.store, r.awaits) IN
    /\ t.pc = "probe"
    /\ Commits(r, [panel EXCEPT ![p].tasks = (@ \ {t}) \union {reads}])
    /\ UNCHANGED <<asks, token>>

(* The rest of restoreViews(): the steps. *)
ResumeRestore(p, t) ==
    LET p0 == Without(panel[p], t)
        p1 == BeginSteps(p0, store)
        r == Refreshed(t.query, FALSE, FALSE)
        reads == Reader("steps", p1.stepGeneration, t.query, t.then, r.store, r.awaits) IN
    /\ t.kind = "restore"
    /\ IF StillCurrent(t.then, p0, store) /\ t.then.steps /\ p0.stepStatus = "idle"
         THEN Commits(r, [panel EXCEPT ![p] = [p1 EXCEPT !.tasks = @ \union {reads}]])
         ELSE /\ panel' = [panel EXCEPT ![p] = Restored(p0, t.then)]
              /\ UNCHANGED <<store, coll>>
    /\ UNCHANGED <<asks, token>>

Settled(t) == \A c \in 1 .. Len(coll) : c = t.awaits => coll[c].pc = "done"

(* The refresh an apply started has ended: what counts is the status it    *)
(* left, and whether the query is still the panel's last.                  *)
ApplyDone(p, t) ==
    LET p0 == Without(panel[p], t)
        views == [timeline |-> t.pc = "timeline", steps |-> t.then.steps] IN
    /\ t.kind = "apply" /\ Settled(t)
    /\ panel' = [panel EXCEPT ![p] =
         IF (t.awaits # 0 => coll[t.awaits].ready) /\ StillCurrent(t.then, p0, store)
           THEN Restoring(p0, store, views, t.query, t.then)
           ELSE Restored(p0, t.then)]
    /\ UNCHANGED <<store, coll, asks, token>>

(* The dataset is acquired, or the request fails. *)
Acquire(p, t) ==
    /\ t.pc = "wait" /\ Settled(t) /\ Readable(t.query)
    /\ panel' = [panel EXCEPT ![p].tasks =
         (@ \ {t}) \union {[t EXCEPT !.pc = "read", !.awaits = 0, !.from = DatasetId(store)]}]
    /\ UNCHANGED <<store, coll, asks, token>>

(* An answer says which request it answers and what it was read from.      *)
AnswerTo(t) == [of |-> t.generation, from |-> t.from]

(* How a request ends: `answer` is None if it failed, or if the tool could *)
(* not answer it; a result already shown is then kept. A run of another    *)
(* workflow goes when new steps are shown (`keep`).                        *)
Ended(p, t, answer, keep) ==
    CASE t.kind = "timeline" ->
           [p EXCEPT !.timeline = answer, !.timelineStatus = IF answer = None THEN "error" ELSE "ready"]
      [] t.kind = "steps" /\ answer # None ->
           [p EXCEPT !.steps = answer, !.settings = TRUE, !.stepStatus = "ready",
                     !.run = IF keep THEN @ ELSE None]
      [] t.kind = "steps" /\ answer = None ->
           [p EXCEPT !.settings = TRUE, !.stepStatus = "error"]
      [] t.kind = "run" /\ answer # None -> [p EXCEPT !.run = answer, !.stepStatus = "ready"]
      [] OTHER -> p

(* project(), setStepMetrics(), setStepError(), setRunTimeline(): nothing  *)
(* of a superseded request is shown.                                       *)
End(p, t) ==
    /\ \/ t.pc = "read"
       \/ t.pc = "wait" /\ Settled(t) /\ ~Readable(t.query)
    /\ \E answer \in {None} \union (IF t.pc = "read" THEN {AnswerTo(t)} ELSE {}), keep \in BOOLEAN :
         /\ keep \/ (t.kind = "steps" /\ answer # None /\ panel[p].run # None)
         /\ panel' = [panel EXCEPT ![p] =
              LET p0 == Without(@, t) IN
              Followed(IF Fresh(p0, t) THEN Broadcast(Ended(p0, t, answer, keep), store) ELSE p0, t)]
    /\ UNCHANGED <<store, coll, asks, token>>

---------------------------------------------------------------------------
(* The store on its own.                                                   *)

(* The outcome of a collection as the entry shows it. Reading the dataset  *)
(* in hand puts back the rate limit it interrupted, and progress with it.  *)
Outcome(s, c) ==
    [s EXCEPT !.status = IF coll[c].interrupted THEN "error" ELSE "ready",
              !.limited = @ \/ coll[c].interrupted,
              !.collecting = @ /\ coll[c].retained # 0 /\ ~coll[c].interrupted]

(* The end of a collection: the status it leaves is what it answers with.  *)
(* One that was superseded tells nobody.                                   *)
Ending(c, s) ==
    LET idle == [s EXCEPT !.inflight = 0] IN
    /\ coll' = [coll EXCEPT ![c] = [pc |-> "done", token |-> @.token, ready |-> s.status = "ready"]]
    /\ IF store.inflight = c
         THEN store' = idle /\ panel' = AllHeard(panel, idle)
         ELSE store' = s /\ UNCHANGED panel
    /\ UNCHANGED <<asks, token>>

(* The current collection puts its dataset in hand. If it has another one  *)
(* to retire, its outcome has to wait.                                     *)
Collect(c) ==
    LET s == [store EXCEPT !.held =
                [root |-> IF coll[c].retained # 0 THEN coll[c].retained ELSE c,
                 data |-> coll[c].query.data, period |-> coll[c].query.period]] IN
    /\ coll[c].pc = "running" /\ store.inflight = c
    /\ store' = IF store.held = None THEN Outcome(s, c) ELSE s
    /\ coll' = [coll EXCEPT ![c].pc = IF store.held = None THEN "reported" ELSE "committed"]
    /\ UNCHANGED <<panel, asks, token>>

(* The last dataset is retired: the outcome is written, also by one that   *)
(* was superseded meanwhile; nobody is told before the filters are saved.  *)
Report(c) ==
    /\ coll[c].pc = "committed"
    /\ store' = Outcome(store, c)
    /\ coll' = [coll EXCEPT ![c].pc = "reported"]
    /\ UNCHANGED <<panel, asks, token>>

Finish(c) == coll[c].pc = "reported" /\ Ending(c, store)

(* Superseded before it had anything, or fails when it no longer matters.  *)
Discard(c) ==
    /\ coll[c].pc \in {"running", "committed"} /\ store.inflight # c
    /\ Ending(c, store)

(* It fails, and what is in hand stays; only collecting meets rate limits. *)
Fail(c) ==
    /\ coll[c].pc \in {"running", "committed"} /\ store.inflight = c
    /\ \E limited \in BOOLEAN :
         /\ limited => coll[c].pc = "running" /\ coll[c].retained = 0
         /\ Ending(c, [store EXCEPT !.status = "error", !.limited = limited,
                                    !.collecting = @ /\ coll[c].retained # 0])

(* A line of progress. *)
Progress(c) ==
    /\ coll[c].pc = "running" /\ store.inflight = c
    /\ panel' = AllHeard(panel, store)
    /\ UNCHANGED <<store, coll, asks, token>>

(* The retry timer: refresh(entry.query, {force, resume}).                 *)
Retry ==
    /\ Refreshing /\ store.limited /\ store.inflight = 0
    /\ Commits(Refreshed(store.query, TRUE, FALSE), panel)
    /\ UNCHANGED token

(* invalidateAuthCaches(), then invalidateStepState() of every panel. *)
ChangeToken ==
    LET s == [store EXCEPT !.status = "idle", !.limited = FALSE, !.held = None,
                           !.collecting = FALSE, !.inflight = 0] IN
    /\ MoreEvents /\ token' = token + 1
    /\ store' = s
    /\ panel' = [x \in Panels |-> Broadcast(NoSteps(Heard(panel[x], s)), s)]
    /\ UNCHANGED <<coll, asks>>

---------------------------------------------------------------------------
(* The target has been collected once, and its panels have heard of it.    *)
FirstDataset == [root |-> 1, data |-> FirstQuery.data, period |-> FirstQuery.period]

PanelInit ==
    /\ store = [query |-> FirstQuery, status |-> "ready", limited |-> FALSE, held |-> FirstDataset,
                collecting |-> FALSE, inflight |-> 0]
    /\ coll = <<[pc |-> "done", token |-> 0, ready |-> TRUE]>>
    /\ asks = [views |-> 0, refreshes |-> 0] /\ token = 0
    /\ panel = [p \in Panels |->
         [applies |-> 0, periodViews |-> None,
          seen |-> DatasetId(store), gridSeen |-> FirstQuery.grid, gridViews |-> None,
          request |-> FALSE, timeline |-> None, timelineStatus |-> "idle", timelineBase |-> None,
          signature |-> None, timelineGeneration |-> 0,
          settings |-> FALSE, steps |-> None, stepStatus |-> "idle", stepBase |-> None,
          outlived |-> FALSE, stepGeneration |-> 0, run |-> None, runGeneration |-> 0, tasks |-> {},
          frame |-> [dataset |-> DatasetId(store), timeline |-> None, steps |-> None,
                     run |-> None, outlived |-> FALSE]]]

Request(p) ==
    \/ \E q \in Queries : Apply(p, q, FALSE, FALSE)
    \/ /\ p \in Askers
       /\ \/ \E bypass \in BOOLEAN : Apply(p, store.query, TRUE, bypass)
          \/ AskTimeline(p) \/ ClearTimeline(p)
          \/ AskSteps(p) \/ GetStepMetrics(p)
          \/ AskRun(p) \/ ClearRun(p)

Resume(p) == \E t \in panel[p].tasks :
    \/ OpenDataset(p, t) \/ ResumeRestore(p, t)
    \/ ApplyDone(p, t) \/ Acquire(p, t) \/ End(p, t)

Collecting == \E c \in 1 .. Len(coll) :
    Collect(c) \/ Report(c) \/ Finish(c) \/ Discard(c) \/ Fail(c) \/ Progress(c)

PanelNext ==
    \/ \E p \in Panels : Request(p) \/ Resume(p)
    \/ Collecting
    \/ Retry
    \/ ChangeToken

PanelSpec == PanelInit /\ [][PanelNext]_panelVars

---------------------------------------------------------------------------
(* A projection is never drawn beside the metrics of another period or     *)
(* collection (baseKey), nor statistics of steps or a run (stepBaseKey):   *)
(* but what a step request outlives, which renews the base after metrics   *)
(* have changed and before its panel hears of it (beginStepRequest); its   *)
(* own answer is then of the metrics beside it.                            *)
FramesAreConsistent == \A p \in Panels :
    LET f == panel[p].frame IN
    /\ f.timeline # None => f.timeline.from = f.dataset
    /\ \A answer \in {f.steps, f.run} :
         answer # None /\ ~f.outlived => answer.from = f.dataset
    /\ f.steps # None /\ f.steps.of = panel[p].stepGeneration => f.steps.from = f.dataset

(* Nothing that was read under a replaced credential stays on a panel, nor *)
(* arrives on it later (invalidateStepState, invalidateAuthCaches).        *)
ShownIsOfTheToken == \A p \in Panels :
    \A answer \in {panel[p].timeline, panel[p].steps, panel[p].run} :
        answer # None => coll[answer.from[1]].token = token

Lanes == Panels \X {"timeline", "steps", "run"}
NumberOf(answer) == IF answer = None THEN 0 ELSE answer.of
Board == INSTANCE AnswerBoard WITH
    Boards <- Lanes,
    asked <- [l \in Lanes |->
        CASE l[2] = "timeline" -> panel[l[1]].timelineGeneration
          [] l[2] = "steps" -> panel[l[1]].stepGeneration
          [] OTHER -> panel[l[1]].runGeneration],
    shown <- [l \in Lanes |->
        CASE l[2] = "timeline" -> NumberOf(panel[l[1]].timeline)
          [] l[2] = "steps" -> NumberOf(panel[l[1]].steps)
          [] OTHER -> NumberOf(panel[l[1]].run)]

(* Each view shows the answer to its latest request or none: the panel     *)
(* implements a board per view.                                            *)
PanelImplementsBoard == Board!BoardSpec

(* A panel in which nothing is suspended any more has nothing left to wait *)
(* for: its projection is not loading, and it does not believe that it is  *)
(* restoring its views, which would let no other period be applied.        *)
IdlePanelsAreSettled == \A p \in Panels :
    panel[p].tasks = {} => panel[p].timelineStatus # "loading" /\ panel[p].periodViews = None
=============================================================================
