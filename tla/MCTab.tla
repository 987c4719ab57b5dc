------------------------------- MODULE MCTab -------------------------------
(* What an iframe shows, from both ends: the panel that sends it its state,  *)
(* the explorer that holds rows, the query a canvas is opened with and the   *)
(* editors of that query, what the explorer and the Step timeline tab        *)
(* compute from their rows and the names they match. The parts share no      *)
(* state here: `part` says which one a behaviour is about.                   *)
EXTENDS Panel, Explorer, MCQuery, QueryEditor, Explore, Steps, NamePatterns

(* A query that differs from the first in one component each.                *)
OfComponents(data, period, grid, proj) == [data |-> data, period |-> period, grid |-> grid, proj |-> proj]
MCFirstQuery == OfComponents(1, 0, 1, 1)
MCQueries == {MCFirstQuery, OfComponents(1, 1, 1, 1), OfComponents(1, 0, 2, 1),
              OfComponents(1, 0, 1, 2), OfComponents(2, 0, 1, 1)}

Period(from, to) == [from |-> from, to |-> to]
MCPresets == {Period(1, 3), Period(2, 4)}
MCCoverages == {Period(0, 3), Period(2, 5)}

(* Two machines and a job without one; jobs that started before the window,  *)
(* run on, never started or were cancelled in the queue; two rows of one job *)
(* and several of one run.                                                   *)
Raw(id, job, run, runner, labels, conclusion, queued, started, completed, created) ==
    [id |-> id, job |-> job, run |-> run, runner |-> runner, label |-> labels, conclusion |-> conclusion,
     queued |-> queued, started |-> started, completed |-> completed, created |-> created]
MCRaws ==
    {Raw(1, "build", 1, {"m1"}, {"x"}, {"success"}, 0, 1, 6, None),
     Raw(1, "build", 1, {"m1"}, {"x", "y"}, {}, 0, 1, None, 0),
     Raw(2, "build", 1, {"m1"}, {"x", "y"}, {"failure"}, 3, 4, 5, 3),
     Raw(3, "test", 2, {"m2"}, {"y"}, {}, 3, 5, None, None),
     Raw(4, "test", None, {}, {}, {"success"}, None, 4, 9, None),
     Raw(None, "test", 2, {}, {"y"}, {"cancelled"}, 2, None, 7, None),
     Raw(5, "lint", 3, {"m2"}, {"x"}, {"success"}, 5, 6, 6, 5)}
(* The local clock is moved on, and an hour is left out; back by an hour,    *)
(* and one is shown twice; back within an hour, which goes on.               *)
MCClocks == {[shift |-> 2, at |-> 4], [shift |-> 0 - 3, at |-> 5], [shift |-> 0 - 1, at |-> 4]}
MCNarrowings ==
    {[runner |-> {"m1"}], [runner |-> {"m2"}, label |-> {"x"}], [label |-> {"y"}, conclusion |-> {"failure"}],
     [text |-> "test"], [from |-> 4, to |-> 2], [from |-> 5, to |-> 7, label |-> {"x", "y"}], 
     [conclusion |-> {"(none)"}, runner |-> {"(unidentified)", "m2"}], [from |-> 4, to |-> 6, runner |-> {"m1"}]}

(* Four machines' worth of jobs of two runs: a matrix whose "a" failed and   *)
(* succeeded on a re-run, once with a row that disagrees; a job that is not  *)
(* over; a cancelled one of another repository; labels spelt in two ways.    *)
StepOf(step, conclusion, started, completed) ==
    [name |-> step, occurrence |-> 1, conclusion |-> conclusion, started |-> started, completed |-> completed]
JobRowOf(run, attempt, id, base, variant, machine, conclusion, steps) ==
    machine @@ [repo |-> "r", run |-> run, attempt |-> attempt, id |-> id, base |-> base, variant |-> variant,
                status |-> IF conclusion = None THEN "in_progress" ELSE "completed", conclusion |-> conclusion,
                latest |-> TRUE, queued |-> 0, started |-> 1, completed |-> IF conclusion = None THEN None ELSE 3,
                runStarted |-> 0, steps |-> steps]
Machine(kind, labels, group, runner) == [kind |-> kind, labels |-> labels, group |-> group, runner |-> runner]
Own == Machine("self-hosted", <<"X", "y">>, "Default", "box1")
Unknown == Machine("unknown", <<"y", "x">>, "", "box2")
Hosted == Machine("hosted", <<>>, "Hosted", "gha")
Compile(c) == StepOf("compile", c, 1, 2)
Test(c) == StepOf("test", c, IF c = "skipped" THEN None ELSE 2, IF c = "skipped" THEN None ELSE 3)
MCJobRows ==
    {JobRowOf(1, 1, 11, "build", "a", Own, "failure", {Compile("success"), Test("failure")}),
     JobRowOf(1, 2, 12, "build", "a", Unknown, "success", {Compile("success"), Test("success")}),
     JobRowOf(1, 2, 13, "build", "a", Own, "success", {}),
     JobRowOf(1, 1, 14, "build", "b", Hosted, "success", {StepOf("Set up job", "success", 1, 1), Test("skipped")}),
     JobRowOf(1, 1, 15, "lint", None, Hosted, None, {}),
     [JobRowOf(2, 1, 16, "lint", None, Unknown, "cancelled", {Compile("failure"), Test("skipped")}) EXCEPT !.repo = "s"]}
ConditionOf(step, conclusion) == [name |-> step, occurrence |-> 1, conclusion |-> conclusion]
MCAsks ==
    {NoAsk, [repo |-> "r", status |-> "failure"], [status |-> "rerun_success"],
     [status |-> "rerun_success", conditions |-> {ConditionOf("test", "failure")}],
     [conditions |-> {ConditionOf("compile", "success"), ConditionOf("test", "success")}],
     [conditions |-> {ConditionOf("compile", "success"), ConditionOf("test", "failure")}, all |-> TRUE],
     [job |-> <<"build", None>>, infra |-> FALSE], [matrix |-> FALSE, job |-> <<"build", "a">>, all |-> TRUE]}
MCSavedPicks ==
    {[NoPick EXCEPT !.kind = "self-hosted"], [NoPick EXCEPT !.labels = <<"x", "y">>, !.group = "Default"],
     [NoPick EXCEPT !.name = "box*"]}
MCLowerCase == "X" :> "x"
MCPatterns == "box*" :> {"box1", "box2"}

---------------------------------------------------------------------------
VARIABLE part

tabPartVars == <<panelVars, tabVars, queryVars, editorVars, exploreVars, stepsVars, patternVars, part>>

PartsInit ==
    /\ part \in {"panel", "explorer", "query", "editor", "explore", "steps", "names"}
    /\ PanelInit /\ TabInit /\ QueryInit /\ EditorInit /\ ExploreInit /\ StepsInit /\ PatternsInit

PartsNext ==
    /\ UNCHANGED part
    /\ IF part = "panel" THEN PanelNext ELSE UNCHANGED panelVars
    /\ IF part = "explorer" THEN TabNext ELSE UNCHANGED tabVars
    /\ IF part = "query" THEN QueryNext ELSE UNCHANGED queryVars
    /\ IF part = "editor" THEN EditorNext ELSE UNCHANGED editorVars
    /\ IF part = "explore" THEN ExploreNext ELSE UNCHANGED exploreVars
    /\ IF part = "steps" THEN StepsNext ELSE UNCHANGED stepsVars
    /\ IF part = "names" THEN PatternsNext ELSE UNCHANGED patternVars

PartsSpec == PartsInit /\ [][PartsNext]_tabPartVars
=============================================================================
