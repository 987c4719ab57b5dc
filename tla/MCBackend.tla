----------------------------- MODULE MCBackend -----------------------------
(* What runs beside the panels: the rows explorers are given, the            *)
(* preferences on disk, the listing of workflow runs, the commands that take *)
(* a runner out of service and back, the gate before the calls of gh, what   *)
(* those calls are made of and print, the projection of runners, and the     *)
(* children all of it is read from: what they are asked and what they print. *)
(* They share no state here: `part` says which one a behaviour is about.     *)
EXTENDS RowStore, PrefsStore, RunListing, MCCordon, RateLimit, Projection,
        RunnerTable, MCToolkit

(* Three days of two seconds, of which two are over, and windows that begin  *)
(* or end at midnight, within a day and within a second.                     *)
MCWindows ==
    {[start |-> 0, end |-> 8], [start |-> 1, end |-> 11], [start |-> 3, end |-> 7]}
MCUnwritable == {{}, {1}}
(* Two attempts of a run, a run of the same workflow in each of two          *)
(* repositories, one of another workflow, and a job that never ran.          *)
MCRun(repo, id, created, workflow, file, attempt) ==
    [repo |-> repo, id |-> id, created |-> created, attempt |-> attempt,
     workflow |-> workflow, path |-> <<"w", file>>]
MCRuns ==
    {MCRun("a", 1, 1, "7", "ci", 2), MCRun("a", 2, 3, "7", "ci", 1),
     MCRun("b", 1, 2, "8", "ci", 1), MCRun("a", 3, 2, "9", "cd", 1)}
MCRow(repo, run, id, attempt, newest, runner, from, to) ==
    [repo |-> repo, run |-> run, id |-> id, attempt |-> attempt, latest |-> newest, ran |-> from # None,
     kind |-> IF runner = "" THEN "" ELSE "own", runner |-> runner,
     labels |-> IF runner = "y" THEN {"gpu"} ELSE {}, from |-> from, to |-> to]
MCLate ==
    {MCRow("a", 1, 1, 1, FALSE, "x", 1, 2), MCRow("a", 1, 2, 2, TRUE, "y", 1, 2), MCRow("a", 2, 3, 1, TRUE, "x", 1, 2),
     MCRow("b", 1, 4, 1, TRUE, "y", 1, 2), MCRow("a", 3, 5, 1, TRUE, "x", 1, 2), MCRow("a", 2, 6, 1, TRUE, "", None, None)}
MCFew == {<<>>} \union {<<r, s>> : r \in {row \in MCLate : ~row.latest}, s \in {row \in MCLate : row.id \in {2, 4}}}

(* Jobs that overlap, nest, touch, end where they begin or before, are       *)
(* outside the buckets or between two of them, or have not ended.            *)
MCTimes == {<<0, 3>>, <<1, 2>>, <<3, 4>>, <<2, 7>>, <<4, 5>>}
MCOdd == {<<3, 3>>, <<3, 2>>, <<8, 9>>, <<3, None>>}
MCProjected ==
    {MCRow("a", 1, 0, 2, TRUE, "x", t[1], t[2]) : t \in MCTimes \union MCOdd}
        \union {MCRow("a", 1, 0, 2, TRUE, n, t[1], t[2]) : n \in {"y", ""}, t \in {<<0, 3>>, <<2, 7>>}}
MCMany == {[k \in DOMAIN s |-> [s[k] EXCEPT !.id = k]] : s \in {q \in MCProjected \X MCProjected \X MCProjected : TRUE}}
MCCollections == MCFew \union MCMany

MCStepAsk == [workflow |-> <<"ci">>, budget |-> 0, attempts |-> FALSE, recovered |-> FALSE, kind |-> "all",
              runner |-> None, exclude |-> {}, labels |-> {}, period |-> None]
MCPeriod == [from |-> 1, to |-> 3]
MCStepAsks ==
    {MCStepAsk, [MCStepAsk EXCEPT !.workflow = <<"w", "ci">>, !.budget = 1], [MCStepAsk EXCEPT !.attempts = TRUE],
     [MCStepAsk EXCEPT !.recovered = TRUE, !.kind = "own"], [MCStepAsk EXCEPT !.period = MCPeriod, !.budget = None],
     [MCStepAsk EXCEPT !.workflow = <<"7">>, !.runner = {"x"}], [MCStepAsk EXCEPT !.workflow = <<>>],
     [MCStepAsk EXCEPT !.exclude = {"x"}, !.labels = {"gpu"}, !.budget = 9]}
MCRowAsks ==
    {[workflow |-> <<>>, labels |-> {}, rows |-> 2, period |-> None],
     [workflow |-> <<"w", "ci">>, labels |-> {"gpu"}, rows |-> 9, period |-> None],
     [workflow |-> <<>>, labels |-> {}, rows |-> 0, period |-> [from |-> 0, to |-> 9]],
     [workflow |-> <<>>, labels |-> {}, rows |-> 9, period |-> MCPeriod]}

MCBucket(from, to) == [start |-> from, end |-> to]
MCAsk == [buckets |-> <<MCBucket(1, 3), MCBucket(3, 6)>>, rows |-> 3, inCli |-> TRUE, exclude |-> {}, top |-> 1,
          kind |-> "all", runner |-> None, labels |-> {}, workflow |-> <<>>, inherited |-> <<>>, period |-> None]
MCProjectionAsks ==
    {MCAsk, [MCAsk EXCEPT !.buckets = <<MCBucket(4, 6), MCBucket(None, 1), MCBucket(1, 3), MCBucket(3, 3)>>, !.top = 2],
     [MCAsk EXCEPT !.rows = 2, !.workflow = <<"*">>, !.inherited = <<"cd">>, !.top = 0],
     [MCAsk EXCEPT !.exclude = {"y"}, !.inCli = FALSE, !.inherited = <<"w", "ci">>, !.top = 5, !.period = MCPeriod],
     [MCAsk EXCEPT !.buckets = <<MCBucket(3, 3)>>]}

(* Runners by their number, two of them as busy as one another.              *)
MCRunner(r, time) == [r |-> r, time |-> time]
MCRankings == {<<MCRunner(1, 2), MCRunner(3, 2), MCRunner(2, 1)>>, <<MCRunner(2, 1)>>}
MCNames == <<"", "x", "y">>

---------------------------------------------------------------------------
VARIABLE part

backendVars ==
    <<rowVars, prefsVars, listingVars, cordonVars, rateVars, selectionVars,
      projectionVars, tableVars, childVars, kitVars, part>>

BackendInit ==
    /\ part \in {"rows", "prefs", "listing", "cordon", "gate", "readings",
                 "projection", "table", "stream", "kit"}
    /\ RowInit
    /\ PrefsInit
    /\ ListingInit /\ (part # "listing" => runs = {})
    /\ CordonInit /\ (part # "cordon" => labels = {} /\ group = Default /\ ~exists)
    /\ RateInit
    /\ SelectionInit /\ collection.jobs \in (IF part = "readings" THEN MCFew ELSE IF part = "projection" THEN MCMany ELSE {<<>>})
       /\ (part = "readings" \/ ~collection.truncated)
    /\ ProjectionInit
    /\ TableInit
    /\ StreamInit /\ (part # "stream" => child = ChildOf("insists", FALSE, <<>>, <<>>))
    /\ ToolkitInit /\ (part # "kit" => kit = OldKit)

BackendNext ==
    /\ UNCHANGED part
    /\ IF part = "rows" THEN RowNext ELSE UNCHANGED rowVars
    /\ IF part = "prefs" THEN PrefsNext ELSE UNCHANGED prefsVars
    /\ IF part = "listing" THEN ListingNext ELSE UNCHANGED listingVars
    /\ IF part = "cordon" THEN CordonNext ELSE UNCHANGED cordonVars
    /\ IF part = "gate" THEN RateNext ELSE UNCHANGED rateVars
    /\ IF part = "readings" THEN SelectionNext ELSE UNCHANGED selectionVars
    /\ IF part = "projection" THEN ProjectionNext ELSE UNCHANGED projectionVars
    /\ IF part = "table" THEN TableNext ELSE UNCHANGED tableVars
    /\ IF part = "stream" THEN StreamNext ELSE UNCHANGED childVars
    /\ IF part = "kit" THEN ToolkitNext ELSE UNCHANGED kitVars

(* The fairness of RowSpec and PrefsSpec: before its part has begun, nothing *)
(* it is asked of is enabled.                                                *)
BackendSpec == BackendInit /\ [][BackendNext]_backendVars /\ RowFairness /\ PrefsFairness
=============================================================================
