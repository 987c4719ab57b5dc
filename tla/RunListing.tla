----------------------------- MODULE RunListing -----------------------------
(***************************************************************************)
(* How the CLI lists the workflow runs of one repository in a window       *)
(* (pkg/metrics/collection_window.go, run_cache.go and collectRuns of      *)
(* collect.go). GitHub's search returns the newest runs of a range of      *)
(* seconds, a bounded number of them: a saturated range is searched again  *)
(* in halves, newer half first. Days that are over are kept on disk for an *)
(* hour, as soon as they are known completely, so that a collection that   *)
(* fails can be resumed.                                                   *)
(*                                                                         *)
(* One listing is one action; that the clock advances while it searches,   *)
(* that it fails at any of its requests and that days cannot be written    *)
(* are parameters of the action. Calendar time is counted in ticks, so     *)
(* that a window may begin and end within a second, and the clock that     *)
(* ages the cache separately: no day gets old enough while the model runs. *)
(* Corrupt cache files read as missing ones and are left out.              *)
(***************************************************************************)
EXTENDS Integers, Sequences, FiniteSets, FiniteSetsExt, Nothing

CONSTANTS
    SearchCap,    \* workflowRunSearchCap
    Second,       \* ticks in a second: runs are created at whole ones
    DayLength,    \* ticks in a day
    Days,         \* days of the calendar, from day 0 on
    Cutoff,       \* the end of the last day that is a day old
    TTL,          \* runListingTTL
    Windows,      \* windows asked for
    Limits,       \* run budgets asked for, 0: none
    MaxRuns,      \* bound: runs in the repository
    Failures,     \* how many requests succeed before one fails
    Unfailing,    \* more requests than a listing makes
    Unwritable,   \* sets of days that cannot be written
    MaxListings   \* bound: listings

Calendar == 0 .. Days - 1
Seconds == {t \in 0 .. Days * DayLength - 1 : t % Second = 0}
Runs == [at : Seconds, id : 1 .. MaxRuns]

ASSUME ListingAssumption ==
    /\ SearchCap \in Nat \ {0} /\ Second \in Nat \ {0} /\ Days \in Nat \ {0} /\ DayLength \in Nat \ {0}
    /\ DayLength % Second = 0 /\ Cutoff \in Int
    /\ \A w \in Windows : w.start \in Nat /\ w.end \in Nat /\ w.start < w.end /\ w.end <= Days * DayLength
    /\ Limits \subseteq Nat /\ MaxRuns \in Nat /\ Failures \subseteq Nat /\ Unfailing \in Nat
    /\ Unwritable \subseteq SUBSET Calendar

(* Runs of one second are told apart by consecutive ids. *)
Repositories ==
    {s \in SUBSET Runs : Cardinality(s) <= MaxRuns /\ \A r \in s : r.id > 1 => [r EXCEPT !.id = @ - 1] \in s}

VARIABLES
    runs,       \* the repository's runs
    dayFiles,   \* dayFiles[d]: the file of day d, or None
    clock,
    last,       \* the last listing and its outcome (history)
    listings

listingVars == <<runs, dayFiles, clock, last, listings>>

(* What a day's file holds, and what a listing carries along: the clock,   *)
(* the requests left before one fails, the files, whether there are any,   *)
(* the days this search has written and those that cannot be.              *)
DayFile == [createdAt : Nat, written : Nat, rows : SUBSET Runs]
Envs == [now : Nat, requests : Nat, cache : [Calendar -> DayFile \union {None}], cached : BOOLEAN,
         saved : SUBSET Calendar, broken : SUBSET Calendar]

ListingInit ==
    /\ runs \in Repositories
    /\ dayFiles = [d \in Calendar |-> None]
    /\ clock = 0 /\ listings = 0
    /\ last = [pc |-> "none"]

---------------------------------------------------------------------------
Newer(a, b) == a.at > b.at \/ (a.at = b.at /\ a.id > b.id)

(* The newest n of a set of rows, or all of them if n is 0: sorting newest *)
(* first and cutting.                                                      *)
Newest(rows, n) ==
    IF n = 0 THEN rows ELSE {r \in rows : Cardinality({s \in rows : Newer(s, r)}) < n}

Inside(rows, window) == {r \in rows : r.at >= window.start /\ r.at < window.end}

DayOf(tick) == tick \div DayLength
Cap(budget) == IF budget > 0 /\ budget < SearchCap THEN budget ELSE SearchCap

(* A request: the newest runs of a range of seconds, both ends included.   *)
Between(start, end) == {r \in runs : r.at >= start /\ r.at <= end}
Found(start, end, budget) == Newest(Between(start, end), Cap(budget))

(* Mutant: what the API returns is taken for all there is. *)
TrustsAnswer(rows, budget) == TRUE

(* The answer is the whole range, or as much of it as was asked for. *)
Settles(rows, budget) ==
    Cardinality(rows) < SearchCap \/ (budget > 0 /\ budget <= SearchCap)

Indivisible(start, end) == start >= end

(* Where a saturated range is split: in the middle, with a cache at a      *)
(* midnight if there is one.                                               *)
SplitAt(start, end, cached) ==
    LET middle == start + (((end - start) \div Second) \div 2 + 1) * Second
        midnight == DayOf(middle) * DayLength
        day == IF midnight > start THEN midnight ELSE midnight + DayLength IN
    IF cached /\ day > start /\ day <= end THEN day ELSE middle

(* The first day that rows are complete for: of a capped list, the day     *)
(* after that of its oldest run.                                           *)
SavedFrom(window, rows, budget) ==
    LET first == (window.start + DayLength - 1) \div DayLength IN
    IF budget > 0 /\ Cardinality(rows) >= budget
      THEN Max({first, Min({DayOf(r.at) : r \in rows}) + 1})
      ELSE first

File(d, rows, started, env) ==
    [createdAt |-> started, written |-> env.now, rows |-> {r \in rows : DayOf(r.at) = d}]

(* saveDays: whole days that are over and have not been saved yet.         *)
SaveDays(window, rows, started, budget, env) ==
    LET days == {d \in Calendar :
                   /\ d >= SavedFrom(window, rows, budget)
                   /\ (d + 1) * DayLength <= window.end
                   /\ (d + 1) * DayLength <= Cutoff
                   /\ d \notin env.saved \union env.broken} IN
    [env EXCEPT !.cache = [d \in DOMAIN @ |-> IF d \in days THEN File(d, rows, started, env) ELSE @[d]],
                !.saved = @ \union days]

(* The checkpoint of a search: a part that is complete is saved at once.   *)
Checkpoint(start, end, window, result) ==
    IF result.env.cached /\ result.complete
      THEN [result EXCEPT !.env =
              SaveDays([start |-> Max({start, window.start}),
                        end |-> Min({end + Second, window.end})],
                       result.rows, result.started, 0, @)]
      ELSE result

GivesUp(env) == [ok |-> FALSE, rows |-> {}, complete |-> FALSE, started |-> env.now, env |-> env]

(* The answer settles the search of its range.                             *)
Settled(c, window, found, env) ==
    Checkpoint(c.start, c.end, window,
               [ok |-> TRUE, rows |-> found, complete |-> Cardinality(found) < Cap(c.budget),
                started |-> c.env.now, env |-> env])

(* Both halves are known.                                                  *)
Joined(c, window, newer, older) ==
    Checkpoint(c.start, c.end, window,
               [ok |-> TRUE, rows |-> Newest(newer.rows \union older.rows, c.budget),
                complete |-> newer.complete /\ older.complete,
                started |-> Min({newer.started, older.started}), env |-> older.env])

(* walk: search a range; if the answer is saturated, its newer half and,   *)
(* with what is left of the budget, its older half.                        *)
Searches == [start : Seconds, end : Seconds, budget : Nat, env : Envs]
Spent(env) == [env EXCEPT !.now = @ + 1, !.requests = @ - 1]
Middle(c) == SplitAt(c.start, c.end, c.env.cached)
NewerHalf(c) == [c EXCEPT !.start = Middle(c), !.env = Spent(@)]
OlderHalf(c, newer) ==
    [c EXCEPT !.end = Middle(c) - Second, !.env = newer.env,
              !.budget = IF @ > 0 THEN @ - Cardinality(newer.rows) ELSE 0]
SearchRange(walk, window, c) ==
    LET found == Found(c.start, c.end, c.budget)
        newer == walk[NewerHalf(c)]
        older == walk[OlderHalf(c, newer)]
    IN  IF c.env.requests = 0 THEN GivesUp(c.env)
        ELSE IF Settles(found, c.budget) THEN Settled(c, window, found, Spent(c.env))
        ELSE IF Indivisible(c.start, c.end) THEN GivesUp(Spent(c.env))
        ELSE IF ~newer.ok THEN newer
        ELSE IF c.budget > 0 /\ Cardinality(newer.rows) >= c.budget THEN [newer EXCEPT !.complete = FALSE]
        ELSE IF ~older.ok THEN older
        ELSE Joined(c, window, newer, older)

Walk(window) == LET walk[c \in Searches] == SearchRange(walk, window, c) IN walk

(* collectWindowRuns: the whole seconds of the window.                     *)
Search(window, budget, env) ==
    LET start == ((window.start + Second - 1) \div Second) * Second
        end == ((window.end - 1) \div Second) * Second IN
    IF end < start
      THEN [ok |-> TRUE, rows |-> {}, complete |-> TRUE, started |-> env.now, env |-> env]
      ELSE Walk(window)[[start |-> start, end |-> end, budget |-> budget, env |-> env]]

---------------------------------------------------------------------------
(* The listing cache. *)

(* validCachedDay *)
Fresh(d, env) == env.cache[d] # None /\ env.now - env.cache[d].createdAt < TTL

(* The window's days, the newest first; the first and the last may be      *)
(* parts of a day, which are never read from the cache.                    *)
Parts(window, refresh, env) ==
    LET newest == DayOf(window.end - 1) IN
    [i \in 1 .. newest - DayOf(window.start) + 1 |->
        LET d == newest - i + 1 IN
        [day |-> d,
         start |-> Max({window.start, d * DayLength}),
         end |-> Min({window.end, (d + 1) * DayLength}),
         cached |-> /\ ~refresh
                    /\ d * DayLength >= window.start /\ (d + 1) * DayLength <= window.end
                    /\ (d + 1) * DayLength <= Cutoff
                    /\ Fresh(d, env)]]

(* collect: fresh days are read, the days between them are searched in one *)
(* go, until the limit is reached.                                         *)
Hit(part, env) == part.cached /\ Fresh(part.day, env)
NextHit(parts, i, env) ==
    LET hits == {j \in i + 1 .. Len(parts) : Hit(parts[j], env)}
    IN  IF hits = {} THEN Len(parts) + 1 ELSE Min(hits)

Gatherings(parts) == [i : 1 .. Len(parts) + 1, rows : SUBSET Runs, env : Envs]
Read(parts, g) == [g EXCEPT !.i = @ + 1, !.rows = @ \union g.env.cache[parts[g.i].day].rows]
GatherFrom(gather, parts, limit, g) ==
    LET next == NextHit(parts, g.i, g.env)
        window == [start |-> parts[next - 1].start, end |-> parts[g.i].end]
        budget == IF limit > 0 THEN limit - Cardinality(g.rows) ELSE 0
        found == Search(window, budget, [g.env EXCEPT !.saved = {}])
        saved == SaveDays(window, found.rows, g.env.now, budget, found.env)
    IN  IF g.i > Len(parts) \/ (limit > 0 /\ Cardinality(g.rows) >= limit)
          THEN [ok |-> TRUE, rows |-> Newest(g.rows, limit), env |-> g.env]
        ELSE IF Hit(parts[g.i], g.env) THEN gather[Read(parts, g)]
        ELSE IF ~found.ok THEN [ok |-> FALSE, rows |-> {}, env |-> found.env]
        ELSE gather[[i |-> next, rows |-> g.rows \union found.rows, env |-> saved]]

Gather(parts, limit, env) ==
    LET gather[g \in Gatherings(parts)] == GatherFrom(gather, parts, limit, g)
    IN  gather[[i |-> 1, rows |-> {}, env |-> env]]

(* prune: files written long ago are removed.                              *)
Pruned(env) ==
    [env EXCEPT !.cache = [d \in DOMAIN @ |->
        IF @[d] # None /\ env.now - @[d].written >= TTL THEN None ELSE @[d]]]

(* selectWindowRuns: whether the limit may have stopped the listing.       *)
Truncated(rows, limit) == limit > 0 /\ Cardinality(rows) >= limit

(* collectRuns. *)
Listed(window, limit, result) ==
    /\ dayFiles' = result.env.cache
    /\ clock' = result.env.now
    /\ last' = IF result.ok
                 THEN [pc |-> "listed", window |-> window, limit |-> limit,
                       rows |-> Inside(result.rows, window),
                       truncated |-> Truncated(result.rows, limit)]
                 ELSE [pc |-> "failed"]

List(window, limit, cached, refresh, requests, broken) ==
    LET env == [now |-> clock, requests |-> requests, cache |-> dayFiles, cached |-> cached,
                saved |-> {}, broken |-> broken] IN
    /\ listings < MaxListings
    /\ listings' = listings + 1
    /\ Listed(window, limit,
              IF cached THEN LET pruned == Pruned(env) IN
                             Gather(Parts(window, refresh, pruned), limit, pruned)
                        ELSE Search(window, limit, env))
    /\ UNCHANGED runs

(* A run is started: on a day that is not a day old yet.                   *)
NewRun ==
    /\ Cardinality(runs) < MaxRuns
    /\ \E r \in Runs \ runs :
         /\ r.at >= Cutoff
         /\ runs' = runs \union {r} /\ runs' \in Repositories
    /\ last' = [pc |-> "none"]
    /\ UNCHANGED <<dayFiles, clock, listings>>

(* Time passes between two listings. *)
Wait ==
    /\ last.pc # "none"
    /\ clock' = clock + 1
    /\ last' = [pc |-> "none"]
    /\ UNCHANGED <<runs, dayFiles, listings>>

ListingNext ==
    \/ \E w \in Windows, limit \in Limits :
         \/ \E refresh \in BOOLEAN, broken \in Unwritable : List(w, limit, TRUE, refresh, Unfailing, broken)
         \/ \E requests \in Failures : List(w, limit, TRUE, FALSE, requests, {})
         \/ List(w, limit, FALSE, FALSE, Unfailing, {})
    \/ NewRun \/ Wait

ListingSafety == ListingInit /\ [][ListingNext]_listingVars

---------------------------------------------------------------------------
(* A listing is the newest runs of its window, however saturated searches  *)
(* are split, budgets are handed on to older halves and days come from a   *)
(* cache that other windows, budgets and failed listings have filled       *)
(* (collection_window.go:26).                                              *)
NewestAreListed ==
    last.pc = "listed" =>
        last.rows = Newest(Inside(runs, last.window), last.limit)

(* Runs that were left out are reported (collect.go:646).                  *)
OmissionsAreReported ==
    last.pc = "listed" /\ last.rows # Inside(runs, last.window) => last.truncated

(* A file is only ever written for a day that is known completely, whether *)
(* by a checkpoint of a search that failed later or from a capped list     *)
(* (run_cache.go:250).                                                     *)
CachedDaysAreComplete ==
    \A d \in DOMAIN dayFiles : dayFiles[d] # None =>
        dayFiles[d].rows = {r \in runs : DayOf(r.at) = d}

(* Invariant: a listing says what there is, and says what it does not say;  *)
(* and so will the next ones, from the files.                                *)
ListingIsExact == NewestAreListed /\ OmissionsAreReported /\ CachedDaysAreComplete

===========================================================================
