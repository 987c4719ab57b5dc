--------------------------- MODULE DashboardStore ---------------------------
(***************************************************************************)
(* One entry of the dashboard store                                        *)
(* (.github/extensions/actions-metrics/lib/store.mjs): its query, the      *)
(* collections refresh() starts for it, the dataset in hand, the automatic *)
(* retry after a rate limit, credential changes and disposal, with the     *)
(* readers of withDataset beside them. Datasets are those of SharedDataset *)
(* and every step here is a step of that module or leaves it alone.        *)
(*                                                                         *)
(* JavaScript runs one function at a time, so an action is the code from   *)
(* one await to the next. A collection is known by an identifier of its    *)
(* own, which also stands for the time it was started at. Entries share    *)
(* nothing but the credential, whose change treats them one by one, so one *)
(* entry is enough. A query is what collectionId compares: the data source *)
(* asked of GitHub (datasetQueryId) and the window read from it; changes   *)
(* to anything else never start a collection and are left out, and so are  *)
(* queries with an explicit `until`, progress texts and log lines.         *)
(***************************************************************************)
EXTENDS SharedDataset

CONSTANTS
    Colls,          \* collections, each started at most once
    Entry,          \* the entry, as the owner of the dataset in hand
    Sources,        \* values of datasetQueryId
    Windows,        \* report windows; those in Filtered need a file of their own
    Filtered,
    UntilSupported, \* the installed CLI accepts --until
    MaxTokens,      \* bound: credential changes
    MaxListeners,   \* bound: panels subscribed to the entry
    MaxRunning      \* bound: collections suspended at the same time

Queries == [source : Sources, window : Windows]

RootOf(c) == <<"root", c>>
ViewOf(c) == <<"view", c>>
CollOf(d) == d[2]

ASSUME StoreAssumption ==
    /\ Owners = Colls \union {Entry}
    /\ Entry \notin Colls
    /\ Datasets = {"root", "view"} \X Colls
    /\ None \notin Colls \union Readers \union {Entry}
    /\ Filtered \subseteq Windows
    /\ UntilSupported \in BOOLEAN
    /\ MaxTokens \in Nat /\ MaxListeners \in Nat /\ MaxRunning \in Nat

VARIABLES
    entry,      \* the entry's fields
    coll,       \* coll[c]: what collection c's suspended function knows
    reader,     \* reader[r]: a call of withDataset
    token,      \* number of credential changes so far
    listeners,  \* number of subscribed panels
    disposal    \* dispose(): how far it is, and the collection it awaits

storeVars == <<entry, coll, reader, token, listeners, disposal>>
vars == <<storeVars, datasetVars>>

(* entry: query and status; generation; limited: whose rate limit          *)
(* errorCode reports, if it does; inflight, dataset, source, metrics; until: *)
(* the collection that froze the window (collectionUntil); retry: the        *)
(* generation the retry timer was armed in, 0 for no timer; overtaken:       *)
(* `limited` was restored by a collection superseded by then (history).      *)
(*                                                                           *)
(* coll[c]: pc; generation; source: the datasetSignature refresh() computed; *)
(* query: entry.query when it reads it; interrupted: whose rate limit it     *)
(* restores when it ends; until; origin: the collection whose root it reads, *)
(* and token: the credential it started under (history). Of one that is done *)
(* only what it left behind.                                                 *)
(*                                                                           *)
(* reader[r]: idle, waiting (query, awaits) or reading (query, token).       *)

StoreInit ==
    /\ DatasetInit
    /\ \E q \in Queries :
         entry = [query |-> q, status |-> "idle", limited |-> None,
                  generation |-> 0, inflight |-> None, dataset |-> None,
                  source |-> None, metrics |-> None, until |-> None,
                  retry |-> 0, overtaken |-> FALSE]
    /\ coll = [c \in Colls |-> [pc |-> "new"]]
    /\ reader = [r \in Readers |-> [pc |-> "idle"]]
    /\ token = 0
    /\ listeners = 0
    /\ disposal = [pc |-> "no", awaits |-> None]

Disposed == disposal.pc # "no"
Running == {c \in Colls : coll[c].pc \notin {"new", "done"}}
Current(c) == coll[c].generation = entry.generation

---------------------------------------------------------------------------
(* scheduleRetry on entry e with n listeners: the timer is armed only for  *)
(* an idle entry that shows a rate limit to somebody.                      *)
MayRetry(e, n) ==
    /\ ~Disposed
    /\ e.inflight = None
    /\ n > 0
    /\ e.limited # None
    /\ UntilSupported

ScheduleRetry(e, n) ==
    [e EXCEPT !.retry = IF MayRetry(e, n) THEN e.generation ELSE @]

(* refresh(): the calls that join the collection in flight and those that  *)
(* find the metrics ready change nothing; every other one starts c.        *)
Joins(q, bypass) == entry.inflight # None /\ q = entry.query /\ ~bypass

AlreadyReady(q, force) ==
    ~force /\ q = entry.query /\ entry.status = "ready" /\ entry.metrics # None

Retains(q, force, bypass) ==
    ~force /\ ~bypass /\ entry.source = q.source /\ entry.dataset # None

(* Mutant: every collection freezes a window of its own. *)
UntilFrozenAnew(c, q, force, bypass, resume) ==
    IF Retains(q, force, bypass) THEN entry.until ELSE c

(* collectionUntil: an automatic retry keeps the window that was frozen    *)
(* for the collection it resumes; any other collection freezes a new one.  *)
Until(c, q, force, bypass, resume) ==
    IF ~Retains(q, force, bypass) /\ (~resume \/ entry.until = None)
      THEN c ELSE entry.until

StartCollection(c, q, force, bypass, resume) ==
    LET kept == Retains(q, force, bypass)
        until == Until(c, q, force, bypass, resume) IN
    /\ ~Disposed
    /\ coll[c].pc = "new" /\ Cardinality(Running) < MaxRunning
    /\ ~Joins(q, bypass)
    /\ ~AlreadyReady(q, force)
    /\ entry' = [entry EXCEPT
                   !.query = q, !.status = "loading", !.limited = None,
                   !.generation = @ + 1, !.inflight = c, !.until = until,
                   !.retry = 0, !.overtaken = kept /\ @]
    /\ coll' = [coll EXCEPT ![c] =
                  [pc |-> IF kept THEN "view" ELSE "probe",
                   generation |-> entry.generation + 1,
                   source |-> q.source, query |-> q,
                   interrupted |-> IF kept THEN entry.limited ELSE None,
                   until |-> IF kept THEN None ELSE until,
                   origin |-> IF kept THEN coll[CollOf(entry.dataset)].origin ELSE c,
                   token |-> token]]
    /\ IF kept THEN AcquireRoot(c, entry.dataset) ELSE UNCHANGED datasetVars
    /\ UNCHANGED <<token, listeners, disposal>>

(* A panel: apply(), the Refresh button, Shift+Refresh.                    *)
Refresh(c, q, force, bypass) ==
    /\ bypass => force
    /\ StartCollection(c, q, force, bypass, FALSE)
    /\ UNCHANGED reader

(* The retry timer fires: refresh(entry.query, {force, resume}).           *)
RetryFires(c) ==
    /\ entry.retry = entry.generation /\ entry.retry > 0
    /\ listeners > 0
    /\ entry.limited # None
    /\ StartCollection(c, entry.query, TRUE, FALSE, TRUE)
    /\ UNCHANGED reader

---------------------------------------------------------------------------
(* The body of a collection, from await to await.                          *)

Step(c, from, to) ==
    /\ coll[c].pc = from
    /\ coll' = [coll EXCEPT ![c].pc = to]

(* The end of the function: its locals are gone.                           *)
Ends(c, from) ==
    /\ coll[c].pc = from
    /\ coll' = [coll EXCEPT ![c] =
                  [pc |-> "done", query |-> @.query, until |-> @.until,
                   origin |-> @.origin, token |-> @.token]]

Rest == UNCHANGED <<reader, token, listeners, disposal>>

(* After probeRunnerKit: the query is read now, not when refresh() was     *)
(* called, and a CLI without --until gives up the frozen window.           *)
Probed(c) ==
    /\ coll[c].pc = "probe"
    /\ coll' = [coll EXCEPT ![c].pc = "collect",
                            ![c].query = entry.query,
                            ![c].until = IF UntilSupported THEN @ ELSE None]
    /\ entry' = IF UntilSupported THEN entry ELSE [entry EXCEPT !.until = None]
    /\ Rest /\ UNCHANGED datasetVars

(* The collect command has ended and its snapshot has been read.           *)
Collected(c) ==
    /\ Step(c, "collect", "view")
    /\ CreateRoot(c, RootOf(c))
    /\ Rest /\ UNCHANGED entry

(* datasetView has returned; the fleet report is awaited next.             *)
Viewed(c) ==
    /\ Step(c, "view", "fleet")
    /\ CreateView(c, ViewOf(c), coll[c].query.window \in Filtered)
    /\ Rest /\ UNCHANGED entry

(* The outcome of c as the entry shows it: ready, or the rate limit that   *)
(* reading the retained data has interrupted.                              *)
Reported(e, c) ==
    IF coll[c].interrupted = None
      THEN [e EXCEPT !.status = "ready"]
      ELSE [e EXCEPT !.status = "error", !.limited = coll[c].interrupted,
                   !.overtaken = @ \/ ~Current(c)]

(* Mutant: a superseded collection returns and leaves its dataset behind. *)
DiscardsNothing(c) ==
    /\ Ends(c, "fleet")
    /\ ~Current(c)
    /\ Rest /\ UNCHANGED <<entry, datasetVars>>

(* A superseded collection discards what it has read.                      *)
Discards(c) ==
    /\ Ends(c, "fleet")
    /\ ~Current(c)
    /\ Retire(c)
    /\ Rest /\ UNCHANGED entry

(* The current one commits it, and reports it at once unless there is a    *)
(* previous dataset to retire first: then an await comes in between.       *)
Commits(c) ==
    LET committed ==
          [entry EXCEPT !.metrics = c, !.dataset = ViewOf(c), !.source = coll[c].source] IN
    /\ Step(c, "fleet", IF entry.dataset = None THEN "remember" ELSE "retiring")
    /\ Current(c)
    /\ Commit(c, Entry)
    /\ entry' = IF entry.dataset = None THEN Reported(committed, c) ELSE committed
    /\ Rest

(* previous.retire() has returned. Nothing asks again whether c is still   *)
(* the current collection.                                                 *)
Reports(c) ==
    /\ Step(c, "retiring", "remember")
    /\ entry' = Reported(entry, c)
    /\ Rest /\ UNCHANGED datasetVars

Ended(e) == ScheduleRetry([e EXCEPT !.inflight = None], listeners)

(* rememberFilters has returned: the finally block.                        *)
Finishes(c) ==
    /\ Ends(c, "remember")
    /\ entry' = IF Current(c) THEN Ended(entry) ELSE entry
    /\ Rest /\ UNCHANGED datasetVars

(* A step of c throws; what it holds is let go before the error is shown.  *)
(* Only the collect command meets rate limits; the last disjunct is an rm  *)
(* of the previous dataset that fails.                                     *)
Throws(c) ==
    /\ \/ /\ \/ Step(c, "probe", "failed")
             \/ Step(c, "collect", "failed")
             \/ Step(c, "collect", "limited")
             \/ Step(c, "retiring", "failed")
          /\ UNCHANGED datasetVars
       \/ /\ Step(c, "view", "failed")
          /\ DropRoot(c)
       \/ /\ Step(c, "fleet", "failed")
          /\ Retire(c)
    /\ Rest /\ UNCHANGED entry

(* Mutant: a failed collection ends without reporting its error. *)
CatchesSilently(c) ==
    /\ \E from \in {"failed", "limited"} : Ends(c, from)
    /\ entry' = IF Current(c) THEN Ended(entry) ELSE entry
    /\ Rest /\ UNCHANGED datasetVars

(* The catch block and the finally block that follows it.                  *)
Catches(c) ==
    /\ \E from \in {"failed", "limited"} : Ends(c, from)
    /\ entry' = IF Current(c)
                  THEN Ended([entry EXCEPT
                          !.status = "error", !.overtaken = FALSE,
                          !.limited = IF coll[c].pc = "limited" THEN c ELSE None])
                  ELSE entry
    /\ Rest /\ UNCHANGED datasetVars

Succeeds(c) ==
    Probed(c) \/ Collected(c) \/ Viewed(c) \/ Discards(c) \/ Commits(c) \/ Reports(c) \/ Finishes(c)

CollectionStep(c) == Succeeds(c) \/ Throws(c) \/ Catches(c)

---------------------------------------------------------------------------
Waiting(r, q, c) == [reader EXCEPT ![r] = [pc |-> "waiting", query |-> q, awaits |-> c]]

(* withDataset(q): refresh() and wait for the collection it names, if any. *)
Asks(r, q) ==
    /\ reader[r].pc = "idle"
    /\ ~Disposed
    /\ \/ /\ Joins(q, FALSE)
          /\ reader' = Waiting(r, q, entry.inflight)
          /\ UNCHANGED <<entry, coll, token, listeners, disposal, datasetVars>>
       \/ /\ AlreadyReady(q, FALSE) /\ ~Joins(q, FALSE)
          /\ reader' = Waiting(r, q, None)
          /\ UNCHANGED <<entry, coll, token, listeners, disposal, datasetVars>>
       \/ \E c \in Colls :
            /\ StartCollection(c, q, FALSE, FALSE, FALSE)
            /\ reader' = Waiting(r, q, c)

(* Mutant: a caller waits for the entry to be ready, not for its promise. *)
AnsweredWhenReady(r) == entry.status = "ready"

(* The promise refresh() gave the caller has settled.                      *)
Answered(r) == reader[r].awaits # None => coll[reader[r].awaits].pc = "done"

(* Mutant: the dataset in hand is not compared with the query. *)
MayReadAnything(q) ==
    /\ \/ entry.status = "ready"
       \/ entry.status = "error" /\ entry.limited # None
    /\ entry.dataset # None
    /\ entry.query = q

(* Ready, or a retained dataset beside a rate limit; of this very query.   *)
MayRead(q) ==
    /\ \/ entry.status = "ready"
       \/ entry.status = "error" /\ entry.limited # None
    /\ entry.dataset # None
    /\ entry.query = q
    /\ entry.source = q.source

(* Mutant: the dataset is used without acquire(). *)
ReadsUncounted(r) ==
    /\ reader[r].pc = "waiting" /\ Answered(r)
    /\ MayRead(reader[r].query)
    /\ holds' = [holds EXCEPT ![r] = entry.dataset]
    /\ reader' = [reader EXCEPT ![r] = [pc |-> "reading", query |-> @.query, token |-> token]]
    /\ UNCHANGED <<entry, coll, token, listeners, disposal, refs, retired, directory, life>>

(* The caller's callback gets the dataset in hand and keeps it for as long *)
(* as it likes.                                                            *)
Reads(r) ==
    /\ reader[r].pc = "waiting" /\ Answered(r)
    /\ MayRead(reader[r].query)
    /\ Acquire(r, entry.dataset)
    /\ reader' = [reader EXCEPT ![r] = [pc |-> "reading", query |-> @.query, token |-> token]]
    /\ UNCHANGED <<entry, coll, token, listeners, disposal>>

(* The dataset is not ready, or acquire() finds it retired.                *)
Refused(r) ==
    /\ reader[r].pc = "waiting" /\ Answered(r)
    /\ MayRead(reader[r].query) => retired[entry.dataset]
    /\ reader' = [reader EXCEPT ![r] = [pc |-> "idle"]]
    /\ UNCHANGED <<entry, coll, token, listeners, disposal, datasetVars>>

Returns(r) ==
    /\ reader[r].pc = "reading"
    /\ ReleaseReader(r)
    /\ reader' = [reader EXCEPT ![r] = [pc |-> "idle"]]
    /\ UNCHANGED <<entry, coll, token, listeners, disposal>>

---------------------------------------------------------------------------
(* Mutant: collections that are running are not superseded. *)
InvalidateAuthKeepsGeneration ==
    /\ token < MaxTokens
    /\ token' = token + 1
    /\ entry' = [entry EXCEPT
                   !.status = "idle", !.limited = None,
                   !.inflight = None, !.dataset = None, !.metrics = None,
                   !.until = None, !.retry = 0, !.overtaken = FALSE]
    /\ IF holds[Entry] = None THEN UNCHANGED datasetVars ELSE Retire(Entry)
    /\ UNCHANGED <<coll, reader, listeners, disposal>>

(* A credential change: setCanvasGhToken, then invalidateAuthCaches.       *)
InvalidateAuth ==
    /\ token < MaxTokens
    /\ token' = token + 1
    /\ entry' = [entry EXCEPT
                   !.status = "idle", !.limited = None, !.generation = @ + 1,
                   !.inflight = None, !.dataset = None, !.metrics = None,
                   !.until = None, !.retry = 0, !.overtaken = FALSE]
    /\ IF holds[Entry] = None THEN UNCHANGED datasetVars ELSE Retire(Entry)
    /\ UNCHANGED <<coll, reader, listeners, disposal>>

(* A panel comes: it takes up the retry that was cancelled when the last   *)
(* one left.                                                               *)
Subscribe ==
    /\ listeners < MaxListeners
    /\ listeners' = listeners + 1
    /\ entry' = IF entry.inflight = None /\ entry.retry = 0
                  THEN ScheduleRetry(entry, listeners + 1) ELSE entry
    /\ UNCHANGED <<coll, reader, token, disposal, datasetVars>>

(* Mutant: the last panel leaves the timer armed. *)
UnsubscribeKeepsTimer ==
    /\ listeners > 0
    /\ listeners' = listeners - 1
    /\ UNCHANGED <<entry, coll, reader, token, disposal, datasetVars>>

(* A panel leaves.                                                         *)
Unsubscribe ==
    /\ listeners > 0
    /\ listeners' = listeners - 1
    /\ entry' = IF listeners = 1 THEN [entry EXCEPT !.retry = 0] ELSE entry
    /\ UNCHANGED <<coll, reader, token, disposal, datasetVars>>

(* dispose(): cancel the timer; wait for the collection in flight; retire  *)
(* the dataset, which InvalidateAuth may have done; forget it.             *)
Dispose ==
    /\ ~Disposed
    /\ disposal' = [pc |-> "waiting", awaits |-> entry.inflight]
    /\ entry' = [entry EXCEPT !.retry = 0]
    /\ UNCHANGED <<coll, reader, token, listeners, datasetVars>>

(* Mutant: the dataset in hand is retired before the collection has ended. *)
DisposeRetiresAtOnce ==
    /\ disposal.pc = "waiting"
    /\ disposal' = [disposal EXCEPT !.pc = "retiring"]
    /\ IF holds[Entry] = None THEN UNCHANGED datasetVars ELSE Retire(Entry)
    /\ UNCHANGED <<entry, coll, reader, token, listeners>>

DisposeRetires ==
    /\ disposal.pc = "waiting"
    /\ disposal.awaits # None => coll[disposal.awaits].pc = "done"
    /\ disposal' = [disposal EXCEPT !.pc = "retiring"]
    /\ IF holds[Entry] = None THEN UNCHANGED datasetVars ELSE Retire(Entry)
    /\ UNCHANGED <<entry, coll, reader, token, listeners>>

DisposeEnds ==
    /\ disposal.pc = "retiring"
    /\ disposal' = [disposal EXCEPT !.pc = "done"]
    /\ entry' = [entry EXCEPT !.dataset = None]
    /\ UNCHANGED <<coll, reader, token, listeners, datasetVars>>

StoreNext ==
    \/ \E c \in Colls, q \in Queries, force, bypass \in BOOLEAN : Refresh(c, q, force, bypass)
    \/ \E c \in Colls : RetryFires(c) \/ CollectionStep(c)
    \/ \E r \in Readers : \/ \E q \in Queries : Asks(r, q)
                          \/ Reads(r) \/ Refused(r) \/ Returns(r)
    \/ \E d \in Datasets : Removed(d) /\ UNCHANGED storeVars
    \/ InvalidateAuth \/ Subscribe \/ Unsubscribe
    \/ Dispose \/ DisposeRetires \/ DisposeEnds

StoreSafety == StoreInit /\ [][StoreNext]_vars

(* Awaited promises settle: gh ends or is aborted, an rm ends, a report    *)
(* that borrows the dataset returns. Nobody has to refresh, subscribe or   *)
(* dispose, and a timer need not fire.                                     *)
StoreSpec ==
    /\ StoreSafety
    /\ \A c \in Colls : WF_vars(CollectionStep(c))
    /\ \A r \in Readers : WF_vars(Reads(r) \/ Refused(r) \/ Returns(r))
    /\ \A d \in Datasets : WF_vars(Removed(d) /\ UNCHANGED storeVars)
    /\ WF_vars(DisposeRetires \/ DisposeEnds)

---------------------------------------------------------------------------
(* SAFETY *)

(* What the dataset in hand was really collected with.                     *)
SourceRead(d) == coll[coll[CollOf(d)].origin].query.source
WindowRead(d) == coll[CollOf(d)].query.window
TokenRead(d) == coll[coll[CollOf(d)].origin].token

(* The dataset in hand is what its signature says, although the query and  *)
(* the collection are read across awaits, and no committed data was read   *)
(* with a credential that has been replaced since (store.mjs:65, 385).     *)
CommittedDataIsCurrent ==
    entry.dataset # None =>
        /\ SourceRead(entry.dataset) = entry.source
        /\ TokenRead(entry.dataset) = token

(* A reader is given the data source it asked for, read under the          *)
(* credential in force when it was given (store.mjs:225).                  *)
ReadersGetTheirSource ==
    \A r \in Readers : reader[r].pc = "reading" =>
        /\ holds[r] # None
        /\ SourceRead(holds[r]) = reader[r].query.source
        /\ TokenRead(holds[r]) = reader[r].token

(* Whoever owns a dataset is still going to retire or release it: however  *)
(* collections are superseded, fail or are overtaken by dispose(), none    *)
(* ends with a snapshot it forgot (store.mjs:386, 394, 405).               *)
OwnersAreActive ==
    /\ \A c \in Colls : holds[c] # None => c \in Running
    /\ \A r \in Readers : holds[r] # None => reader[r].pc = "reading"
    /\ holds[Entry] # None => disposal.pc \in {"no", "waiting"}

(* A timer that is armed will do its work: none of the guards it checks    *)
(* when it fires can have turned false without it being cancelled          *)
(* (store.mjs:199), which would leave a dead handle that blocks the next.  *)
ArmedTimerIsLive ==
    entry.retry # 0 =>
        /\ entry.retry = entry.generation
        /\ MayRetry(entry, listeners)

(* An automatic retry collects the very window of the collection it        *)
(* resumes, whatever was read or shown in between (store.mjs:312), unless  *)
(* a superseded collection has put back a rate limit that was no longer    *)
(* the entry's (store.mjs:398).                                            *)
RetryKeepsWindow ==
    [][\A c \in Colls :
          RetryFires(c) /\ ~entry.overtaken
              => coll'[c].until = coll[entry.limited].until]_vars

(* LIVENESS *)

(* A panel is never left loading: the collection that superseded all the   *)
(* others reports an outcome (store.mjs:424).                              *)
LoadingEnds == (entry.status = "loading") ~> (entry.status # "loading")

(* A caller of withDataset is answered or refused, also when the           *)
(* collection it joined is superseded, fails or is disposed of.            *)
ReadersAreAnswered ==
    \A r \in Readers : (reader[r].pc = "waiting") ~> (reader[r].pc # "waiting")

(* dispose() leaves no snapshot behind on disk, whatever was being         *)
(* collected, read or removed when it was called (store.mjs:247).          *)
DisposeCleansUp ==
    Disposed ~> [](\A d \in Datasets : life[d] \in {"unborn", "gone"})

(* CONTRADICTED by the code: see the runs that expect a violation. *)

(* The comment at store.mjs:329: a superseded collection does not report   *)
(* itself finished on behalf of the newer one.                             *)
SupersededIsSilent ==
    [][\A c \in Colls :
          coll[c].pc \notin {"new", "done"} /\ ~Current(c) /\ coll'[c] # coll[c]
              => entry'.status = entry.status]_vars

(* The comment at store.mjs:233: the dataset a reader is given covers the  *)
(* window it asked for.                                                    *)
ReadersGetTheirWindow ==
    \A r \in Readers : reader[r].pc = "reading" =>
        WindowRead(holds[r]) = reader[r].query.window

===========================================================================
