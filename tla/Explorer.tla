------------------------------ MODULE Explorer ------------------------------
(***************************************************************************)
(* The browser tab of a panel, as far as the job explorer                  *)
(* (.github/extensions/actions-metrics/public/explorer.js, worker.js and   *)
(* the state handling of app.js): panel states arrive on the event stream  *)
(* and as replies to requests, on connections that keep no order between   *)
(* them; rows are fetched, handed to a worker, and aggregated there.       *)
(*                                                                         *)
(* Rows are known by the target and the revision of their snapshot. A      *)
(* continuation waiting for the worker is the message it waits for.        *)
(***************************************************************************)
EXTENDS Integers, Sequences, FiniteSets, Nothing

CONSTANTS
    Targets,
    FirstTarget,
    MaxTabEvents,     \* bound: requests for rows, posts, switches, lost connections, failures
    MaxCommits,    \* bound: snapshots collected per target
    MaxNarrowings  \* bound: changes of the filters or the page

ASSUME ExplorerAssumption ==
    /\ FirstTarget \in Targets /\ None \notin Targets \X Nat
    /\ MaxTabEvents \in Nat /\ MaxCommits \in Nat /\ MaxNarrowings \in Nat

VARIABLES
    server,    \* the panel's target, whether it asked for its rows, and entry[t]: the snapshots
    stream,    \* the event stream: up, and the frames on their way
    replies,   \* replies to posts on their way: states
    state,     \* the panel state the tab holds
    view,      \* the explorer's own state
    fetches,   \* fetches of rows under way: [of, seq, answer]
    worker,    \* the worker: rows it holds, its inbox and outbox, and (history) the rows sent to it last
    astray,    \* history: since a state last reported rows the worker died, or that state was
               \* taken for answered by the rows on screen while others were on their way
    events

tabVars == <<server, stream, replies, state, view, fetches, worker, astray, events>>

---------------------------------------------------------------------------
(* The extension: what it reports, and its row snapshots.                  *)
StateOf(s) ==
    [target |-> s.target,
     status |-> IF s.asked THEN s.entry[s.target].status ELSE "idle",
     rows |-> <<s.target, s.entry[s.target].revision>>]

Announce(s) ==
    stream' = IF stream.up THEN [stream EXCEPT !.frames = Append(@, StateOf(s))] ELSE stream

Event == events < MaxTabEvents /\ events' = events + 1

(* POST /api/rows: a snapshot in hand answers unless `force` insists. *)
RequestRows(force) ==
    LET entry == server.entry[server.target] IN
    /\ Event
    /\ server' = [server EXCEPT !.asked = TRUE, !.entry[server.target].status =
                    IF ~force /\ entry.status \in {"ready", "loading"} THEN @ ELSE "loading"]
    /\ Announce(server')
    /\ UNCHANGED <<replies, state, view, fetches, worker, astray>>

(* A collection ends; the panel hears of the entry it asked for. *)
EndRows(t, status) ==
    /\ server.entry[t].status = "loading"
    /\ status = "ready" => server.entry[t].revision < MaxCommits
    /\ server' = [server EXCEPT !.entry[t].status = status,
                                !.entry[t].revision = IF status = "ready" THEN @ + 1 ELSE @]
    /\ IF t = server.target /\ server.asked THEN Announce(server') ELSE UNCHANGED stream
    /\ UNCHANGED <<replies, state, view, fetches, worker, astray, events>>

Switched(t) == IF t = server.target THEN server ELSE [server EXCEPT !.target = t, !.asked = FALSE]

(* A post of this tab (postQuery): applied, broadcast, and answered. *)
Post(t) ==
    /\ Event
    /\ server' = Switched(t)
    /\ Announce(server')
    /\ replies' = replies \union {StateOf(server')}
    /\ UNCHANGED <<state, view, fetches, worker, astray>>

(* The agent opens another target on the panel. *)
Retarget(t) ==
    /\ Event
    /\ t # server.target
    /\ server' = Switched(t)
    /\ Announce(server')
    /\ UNCHANGED <<replies, state, view, fetches, worker, astray>>

(* The connection is lost with the frames on it; a new one begins with the *)
(* state of the moment (startSse).                                         *)
Disconnect ==
    /\ Event
    /\ stream.up
    /\ stream' = [up |-> FALSE, frames |-> <<>>]
    /\ UNCHANGED <<server, replies, state, view, fetches, worker, astray>>
Reconnect ==
    /\ ~stream.up
    /\ stream' = [up |-> TRUE, frames |-> <<StateOf(server)>>]
    /\ UNCHANGED <<server, replies, state, view, fetches, worker, astray, events>>

---------------------------------------------------------------------------
(* The tab: panel states.                                                  *)

(* resetExplorer: also abandons the fetch and what the worker is asked. *)
ResetView(v) ==
    [v EXCEPT !.loaded = None, !.fetching = None, !.aggregate = None, !.page = None, !.snapshot = None,
              !.status = "idle", !.filters = 0, !.offset = 0,
              !.aggregateSeq = @ + 1, !.pageSeq = @ + 1, !.fetchSeq = @ + 1]

(* Mutant: the rows of a target are the same rows. *)
SameTarget(rows, known) == known # None /\ rows[1] = known[1]

(* Identity: `<id>@<revision>` *)
SameRows(rows, known) == rows = known

(* syncExplorer: bring the worker in line with the snapshot reported.      *)
SyncedView(v, s) ==
    IF s.status = "idle" THEN v
    ELSE IF s.status = "error" THEN [v EXCEPT !.status = "error"]
    ELSE IF s.status = "loading" THEN [v EXCEPT !.status = "collecting"]
    ELSE IF SameRows(s.rows, v.loaded) \/ SameRows(s.rows, v.fetching)
      THEN [v EXCEPT !.status = IF @ # "collecting" THEN @
                                ELSE IF v.aggregate # None THEN "ready" ELSE "loading"]
      ELSE [v EXCEPT !.fetching = s.rows, !.fetchSeq = @ + 1, !.status = "loading"]

(* fetchRows begins by aborting the fetch before it. *)
SyncedFetches(v, s) ==
    IF SyncedView(v, s).fetchSeq # v.fetchSeq
      THEN {[of |-> s.rows, seq |-> v.fetchSeq + 1, answer |-> None]}
      ELSE IF v.fetchSeq # view.fetchSeq THEN {} ELSE fetches

(* Rows on screen are reported again, and what was to replace them is      *)
(* neither abandoned nor asked for anew: it will land.                     *)
Overtaking(v, s) == SameRows(s.rows, v.loaded) /\ (v.fetching # None \/ worker.sent # v.loaded)

Sync(v, s) ==
    /\ view' = SyncedView(v, s)
    /\ fetches' = SyncedFetches(v, s)
    /\ astray' = IF s.status = "ready" THEN Overtaking(v, s) ELSE astray

(* The rows the worker holds once it has done what the message asks. *)
Effect(message, rows) ==
    IF message.type = "load" THEN message.of ELSE IF message.type = "release" THEN None ELSE rows

AskRows(w, message) == [w EXCEPT !.inbox = Append(@, message), !.sent = Effect(message, @)]

(* onmessage of the stream: another target drops the rows of this one. *)
TakeFrame ==
    /\ stream.frames # <<>>
    /\ LET s == Head(stream.frames) IN
       /\ stream' = [stream EXCEPT !.frames = Tail(@)]
       /\ state' = s
       /\ IF s.target # state.target
            THEN Sync(ResetView(view), s) /\ worker' = AskRows(worker, [type |-> "release"])
            ELSE Sync(view, s) /\ UNCHANGED worker
    /\ UNCHANGED <<server, replies, events>>

(* postQuery takes the reply for the state. *)
TakeReply(s) ==
    /\ s \in replies
    /\ replies' = replies \ {s}
    /\ state' = s
    /\ Sync(view, s)
    /\ UNCHANGED <<server, stream, worker, events>>

---------------------------------------------------------------------------
(* The tab: rows.                                                          *)

(* Mutant: a superseded revision is answered with the rows in hand. *)
HeldRowsAny(of) == server.entry[of[1]].revision > 0

(* payload(): the revision asked for, and no other. *)
HeldRows(of) == server.entry[of[1]].revision = of[2]

(* GET /api/rows: the rows, or none (404, 409). *)
Serve(f) ==
    /\ f \in fetches /\ f.answer = None
    /\ fetches' = (fetches \ {f}) \union
         {[f EXCEPT !.answer = IF HeldRows(f.of) THEN "rows" ELSE "gone"]}
    /\ UNCHANGED <<server, stream, replies, state, view, worker, astray, events>>

(* current(): this is still the fetch the panel wants. *)
Wanted(seq) == seq = view.fetchSeq

TakeRows(f) ==
    /\ f \in fetches /\ f.answer # None
    /\ fetches' = fetches \ {f}
    /\ IF f.answer = "gone"
         THEN view' = (IF Wanted(f.seq) THEN [view EXCEPT !.fetching = None] ELSE view) /\ UNCHANGED worker
         ELSE view' = view /\ worker' = IF Wanted(f.seq)
                THEN AskRows(worker, [type |-> "load", of |-> f.of, seq |-> f.seq]) ELSE worker
    /\ UNCHANGED <<server, stream, replies, state, astray, events>>

PageRequest(v) == [type |-> "page", seq |-> v.pageSeq, filters |-> v.filters, offset |-> v.offset]
AggregateRequest(v) == [type |-> "aggregate", seq |-> v.aggregateSeq, filters |-> v.filters]

(* setFilters, toggleFacet, clearFilters: aggregate again, if there is anything to. *)
Narrow ==
    /\ view.filters + view.offset < MaxNarrowings
    /\ LET v == [view EXCEPT !.filters = @ + 1, !.offset = 0,
                             !.aggregateSeq = IF view.loaded = None THEN @ ELSE @ + 1] IN
       /\ view' = v
       /\ worker' = IF view.loaded = None THEN worker ELSE AskRows(worker, AggregateRequest(v))
    /\ UNCHANGED <<server, stream, replies, state, fetches, astray, events>>

(* The table is paged or sorted: refreshPage alone. *)
TurnPage ==
    /\ view.loaded # None
    /\ view.filters + view.offset < MaxNarrowings
    /\ LET v == [view EXCEPT !.offset = @ + 1, !.pageSeq = @ + 1] IN
       view' = v /\ worker' = AskRows(worker, PageRequest(v))
    /\ UNCHANGED <<server, stream, replies, state, fetches, astray, events>>

(* worker.js: one request, answered over the rows it then holds. *)
Work ==
    /\ worker.inbox # <<>>
    /\ LET m == Head(worker.inbox)
           rows == Effect(m, worker.rows)
       IN worker' = [worker EXCEPT !.rows = rows, !.inbox = Tail(@),
                                   !.outbox = Append(@, [request |-> m, rows |-> rows])]
    /\ UNCHANGED <<server, stream, replies, state, view, fetches, astray, events>>

(* fetchRows, once loaded: nothing in flight against the rows before is drawn. *)
LoadedView(v, of) ==
    [v EXCEPT !.loaded = of, !.fetching = None, !.snapshot = of, !.status = "ready",
              !.aggregateSeq = @ + 1, !.pageSeq = @ + 1]

(* The worker's answer and the continuation that waits for it. *)
TakeAnswer ==
    /\ worker.outbox # <<>>
    /\ LET answer == Head(worker.outbox)
           m == answer.request
           w == [worker EXCEPT !.outbox = Tail(@)]
       IN CASE m.type = "load" /\ Wanted(m.seq) ->
                 LET v == [LoadedView(view, m.of) EXCEPT !.aggregateSeq = @ + 1] IN
                 view' = v /\ worker' = AskRows(w, AggregateRequest(v))
            [] m.type = "aggregate" /\ m.seq = view.aggregateSeq ->
                 LET v == [view EXCEPT !.aggregate = [of |-> answer.rows, filters |-> m.filters], !.status = "ready",
                                       !.pageSeq = IF view.loaded = None THEN @ ELSE @ + 1] IN
                 view' = v /\ worker' = IF view.loaded = None THEN w ELSE AskRows(w, PageRequest(v))
            [] m.type = "page" /\ m.seq = view.pageSeq ->
                 /\ view' = [view EXCEPT !.page = [of |-> answer.rows, filters |-> m.filters, offset |-> m.offset]]
                 /\ worker' = w
            [] OTHER -> UNCHANGED view /\ worker' = w
    /\ UNCHANGED <<server, stream, replies, state, fetches, astray, events>>

IdleWorker == [rows |-> None, inbox |-> <<>>, outbox |-> <<>>, sent |-> None]

FailedView(v) == [v EXCEPT !.loaded = None, !.fetching = None, !.status = "error"]

(* onerror, discardWorker: everything asked of it fails. *)
WorkerDies ==
    /\ Event
    /\ worker # IdleWorker
    /\ worker' = IdleWorker
    /\ view' = FailedView(view)
    /\ astray' = TRUE
    /\ UNCHANGED <<server, stream, replies, state, fetches>>

---------------------------------------------------------------------------
FirstServer == [target |-> FirstTarget, asked |-> FALSE,
                entry |-> [t \in Targets |-> [status |-> "idle", revision |-> 0]]]

TabInit ==
    /\ server = FirstServer
    /\ stream = [up |-> TRUE, frames |-> <<>>]
    /\ replies = {}
    /\ state = StateOf(FirstServer)
    /\ view = [loaded |-> None, fetching |-> None, snapshot |-> None, aggregate |-> None, page |-> None,
               status |-> "idle", filters |-> 0, offset |-> 0,
               aggregateSeq |-> 0, pageSeq |-> 0, fetchSeq |-> 0]
    /\ fetches = {}
    /\ worker = IdleWorker
    /\ astray = FALSE
    /\ events = 0

Arrives == TakeFrame \/ (\E s \in replies : TakeReply(s))
Fetches == \E f \in fetches : Serve(f) \/ TakeRows(f)

TabNext ==
    \/ \E force \in BOOLEAN : RequestRows(force)
    \/ \E t \in Targets, status \in {"ready", "error"} : EndRows(t, status)
    \/ \E t \in Targets : Post(t) \/ Retarget(t)
    \/ Disconnect \/ Reconnect
    \/ Arrives \/ Fetches
    \/ Narrow \/ TurnPage \/ Work \/ TakeAnswer \/ WorkerDies

TabSpec == TabInit /\ [][TabNext]_tabVars

---------------------------------------------------------------------------
(* Nothing is on its way to the tab, and it holds the panel's state. *)
TabSettled ==
    /\ stream.up /\ stream.frames = <<>> /\ replies = {}
    /\ state = StateOf(server)
    /\ fetches = {} /\ worker.inbox = <<>> /\ worker.outbox = <<>>

(* Chart, table and the heading of the snapshot are of the same rows, under *)
(* the filters and the page asked for last.                                *)
DrawnFrom(rows) ==
    /\ view.snapshot = rows
    /\ view.aggregate = [of |-> rows, filters |-> view.filters]
    /\ view.page = [of |-> rows, filters |-> view.filters, offset |-> view.offset]

(* Once nothing is on its way, all that is drawn is drawn from the rows on *)
(* screen, if the worker holds them; and these are the rows the panel      *)
(* reports. Two things may come between the second part and the next state *)
(* that reports rows: the worker dies; or rows on screen are reported again *)
(* while others are fetched, which are neither aborted nor out of date for *)
(* current() (explorer.js:223) and land.                                   *)
SettledTabShowsTheRows ==
    TabSettled =>
        /\ view.loaded # None /\ worker.rows = view.loaded => DrawnFrom(view.loaded)
        /\ state.status = "ready" /\ ~astray =>
               view.loaded = state.rows /\ worker.rows = state.rows /\ DrawnFrom(state.rows)

(* Rows on screen are never replaced by an older snapshot of their target: *)
(* a slow fetch that a later one overtook does not land last.              *)
RowsNeverGoBack ==
    [][view.loaded # None /\ view'.loaded # None /\ view.loaded[1] = view'.loaded[1]
         => view.loaded[2] <= view'.loaded[2]]_tabVars

(* "A different target is a different question, so the explorer drops the  *)
(* rows it holds rather than redrawing them under a new heading".          *)
RowsAreOfTheTarget == TabSettled /\ view.loaded # None => view.loaded[1] = state.target
=============================================================================
